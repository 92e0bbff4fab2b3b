-------------------------------- MODULE MCVfs -------------------------------
(***************************************************************************)
(* Two small EXT4 images with 36-byte blocks (three 12-byte entries per    *)
(* block) and path, flag and size arguments for checking Vfs.              *)
(***************************************************************************)
EXTENDS Vfs

Ent(ino, rl, nm) == [inode |-> ino, rec_len |-> rl, name |-> nm, stale |-> FALSE]
Stale(ino, nm) == [inode |-> ino, rec_len |-> 12, name |-> nm, stale |-> TRUE]
Dir(bs) == [mode |-> "dir", size |-> 36 * Len(bs), blocks |-> bs]
Reg(sz) == [mode |-> "reg", size |-> sz, blocks |-> <<>>]
Dots(self, up) == 0 :> Ent(self, 12, <<".">>) @@ 12 :> Ent(up, 12, <<".", ".">>)

\* fs1: / = {., .., a} in block 0 and, in block 1, a deleted entry
\* (inode 0), then f, whose rec_len of 24 took over the deleted g; a = {b}.
\* fs2: / = {h}.
MCImage ==
  "fs1" :> ( 2 :> Dir(<< Dots(2, 2) @@ 24 :> Ent(12, 12, <<"a">>),
                         0 :> Ent(0, 12, <<"x">>) @@ 12 :> Ent(13, 24, <<"f">>)
                           @@ 24 :> Stale(14, <<"g">>) >>)
          @@ 12 :> Dir(<< Dots(12, 2) @@ 24 :> Ent(15, 12, <<"b">>) >>)
          @@ 13 :> Reg(40) @@ 14 :> Reg(5) @@ 15 :> Reg(3))
  @@ "fs2" :> ( 2 :> Dir(<< Dots(2, 2) @@ 24 :> Ent(12, 12, <<"h">>) >>)
                @@ 12 :> Reg(7))

MCFsRoots == {NodeOf("fs1", 2), NodeOf("fs2", 2)}
MCFsRoots1 == {NodeOf("fs1", 2)}

S(str) == [i \in 1..Len(str) |-> SubSeq(str, i, i)]

\* Paths through two directories (relative), to a name that only a
\* shadowed entry holds, through a file, with "..", ".", and repeated
\* slashes.
MCPaths == {S(p) : p \in {"/", "/.", "a/b", "/g", "/f/x", "/a/../f", "//f/"}}

\* The mount question: fs2 on /a of fs1, and lookups of /a and below.
MCMountPaths == {S(p) : p \in {"/", "/a", "/a/h"}}

\* One file opened read-only and read, with every other call a lookup.
MCReadPaths == {S("/"), S("/f")}
====
