-------------------------------- MODULE Vfs ---------------------------------
(***************************************************************************)
(* The VFS layer of src/unnamed/part_007 over EXT4 filesystems: the mount  *)
(* table, the file descriptor table, path normalisation and lookup, and    *)
(* vfs_mount, vfs_unmount, vfs_lookup, vfs_open, vfs_close, vfs_read,      *)
(* vfs_lseek and vfs_readdir.  The kernel is single-threaded, so a call    *)
(* runs to completion as one step.                                         *)
(*                                                                         *)
(* A vfs_node is kept as a record [fs, ino, type, size, mp].  The nodes a  *)
(* pointer can reach are root_node, the fd table's nodes and the mounted   *)
(* filesystem roots; each is stored where it is referenced.  A node        *)
(* ext4_finddir returns and the caller then drops is not kept: nothing can *)
(* reach it again, but its two allocations stay on the heap.  The mounted  *)
(* nodes are the roots that ext4_mount produced before the first call.     *)
(***************************************************************************)
EXTENDS Ext4Dir, MinStd, Bitwise

CONSTANTS
  MAX_OPEN_FILES, MAX_MOUNTS, MAX_PATH_LENGTH,
  FsRoots,       \* root nodes that ext4_mount returned, which may be mounted
  Paths,         \* path arguments
  Flags,         \* open flags
  Offsets,       \* lseek offsets
  Whences,       \* lseek whence values, including an invalid one
  ReadSizes,     \* vfs_read sizes
  Indices,       \* vfs_readdir indices
  IoFails,       \* 0, or the k for which the k-th device read of a call fails
  Width          \* bits of size_t / uint64_t in the model

VARIABLES
  rootn,    \* root_node
  mtab,     \* mount_table
  fdt,      \* fd_table
  heap,     \* allocations live on the heap
  created   \* nodes ext4_finddir has allocated so far

vars == <<rootn, mtab, fdt, heap, created>>

U(x) == x % (2^Width)
SEEK_SET == 0
SEEK_CUR == 1
SEEK_END == 2
VFS_O_WRONLY == 1
VFS_O_RDWR == 2

FreeMount == [path |-> <<>>, node |-> NULL, used |-> FALSE]
FreeFd == [node |-> NULL, flags |-> 0, position |-> 0, used |-> FALSE]

\* vfs_init (lines 809-822), after ext4_mount has built each filesystem
\* of FsRoots: its ext4_fs_t, group descriptor table, root node and the
\* root's inode info stay allocated.
BaseHeap == 4 * Cardinality(FsRoots)

Init ==
  /\ rootn = NULL
  /\ mtab = [i \in 0..MAX_MOUNTS - 1 |-> FreeMount]
  /\ fdt = [i \in 0..MAX_OPEN_FILES - 1 |-> FreeFd]
  /\ heap = BaseHeap
  /\ created = 0

Ctx(io) == [heap |-> heap, io |-> io, fault |-> FALSE, made |-> created]

(***************************************************************************)
(* Path normalisation and lookup                                           *)
(***************************************************************************)
Slash == {"/"}

\* The '..' step of vfs_normalize_path (lines 868-881): cut at the last
\* slash, keeping the root's.
DotDot(n) ==
  LET s == strrchr(n, "/")
  IN  IF s = 0 THEN n ELSE IF s = 1 THEN <<"/">> ELSE SubSeq(n, 1, s - 1)

\* The token loop of vfs_normalize_path (lines 862-896).
RECURSIVE NormalizeTokens(_, _)
NormalizeTokens(n, toks) ==
  LET t   == Head(toks)
      sep == Len(n) > 0 /\ n[Len(n)] # "/"
      n1  == IF sep THEN n \o <<"/">> ELSE n
      tooLong == [ok |-> FALSE, path |-> <<>>]
  IN  IF toks = <<>> THEN [ok |-> TRUE, path |-> n]
      ELSE IF t = <<".">> THEN NormalizeTokens(n, Tail(toks))
      ELSE IF t = <<".", ".">> THEN NormalizeTokens(DotDot(n), Tail(toks))
      ELSE IF sep /\ Len(n) + 1 + Len(t) >= MAX_PATH_LENGTH THEN tooLong
      ELSE IF Len(n1) + Len(t) >= MAX_PATH_LENGTH THEN tooLong
      ELSE NormalizeTokens(n1 \o t, Tail(toks))

\* The end of vfs_normalize_path (lines 898-910): an empty result is the
\* root, or "." for a relative path.
NormalizeDone(abs, r) ==
  IF ~r.ok \/ r.path # <<>> THEN r
  ELSE [ok |-> TRUE, path |-> IF abs THEN <<"/">> ELSE <<".">>]

\* vfs_normalize_path (lines 829-911).
vfs_normalize_path(path) ==
  LET abs == path # <<>> /\ path[1] = "/"
  IN  IF path = <<>> THEN [ok |-> TRUE, path |-> <<"/">>]
      ELSE IF Len(path) >= MAX_PATH_LENGTH THEN [ok |-> FALSE, path |-> <<>>]
      ELSE NormalizeDone(abs, NormalizeTokens(IF abs THEN <<"/">> ELSE <<>>,
                                              Tokens(path, Slash)))

Miss(c) == [node |-> NULL, root |-> FALSE, c |-> c]

\* The token loop of vfs_lookup (lines 950-975): finddir on each
\* component (Walk), stepping into the node's mount_point when it has one
\* (WalkStep).
RECURSIVE Walk(_, _, _), WalkStep(_, _)
Walk(c, cur, toks) ==
  IF toks = <<>> THEN [node |-> cur, root |-> FALSE, c |-> c]
  ELSE IF cur.type # VFS_DIRECTORY THEN Miss(c)
  ELSE WalkStep(ext4_finddir(c, cur, Head(toks)), Tail(toks))

WalkStep(f, toks) ==
  IF f.node = NULL THEN Miss(f.c)
  ELSE Walk([f.c EXCEPT !.made = @ + 1],
            IF f.node.mp # NULL THEN f.node.mp ELSE f.node, toks)

\* vfs_lookup once the path is normalised (lines 925-975); root says the
\* node is root_node itself.
LookupNormalized(c, np) ==
  LET rest == IF np.path # <<>> /\ np.path[1] = "/" THEN Tail(np.path) ELSE np.path
  IN  IF rootn = NULL \/ ~np.ok THEN Miss(c)
      ELSE IF np.path = <<"/">> THEN [node |-> rootn, root |-> TRUE, c |-> c]
      ELSE Walk(c, rootn, Tokens(rest, Slash))

\* vfs_lookup (lines 918-977).
vfs_lookup(c, path) == LookupNormalized(c, vfs_normalize_path(path))

NodeId(n) == IF n = NULL THEN NULL ELSE [fs |-> n.fs, ino |-> n.ino]

\* A call ends: the heap as the context left it.  What a call returns is
\* judged by the properties, which make the call themselves.
Finish(c) == heap' = c.heap /\ created' = c.made

(***************************************************************************)
(* The calls                                                               *)
(***************************************************************************)
LowestFree(t) ==
  LET fr == {k \in DOMAIN t : ~t[k].used}
  IN  IF fr = {} THEN Cardinality(DOMAIN t) ELSE Min(fr)

Fails(c) == UNCHANGED <<rootn, mtab, fdt>> /\ Finish(c)

\* vfs_mount once the mount point was looked up (lines 1008-1040).  The
\* mount is recorded on the node vfs_lookup returned: root_node itself for
\* a path that normalises to "/", otherwise a node finddir just built.
MountOn(np, n, l) ==
  LET i == LowestFree(mtab) IN
  IF l.node = NULL \/ l.node.type # VFS_DIRECTORY \/ i = MAX_MOUNTS THEN Fails(l.c)
  ELSE /\ mtab' = [mtab EXCEPT ![i] = [path |-> np.path, node |-> n, used |-> TRUE]]
       /\ rootn' = IF l.root
                   THEN [rootn EXCEPT !.mp = n, !.type = @ | VFS_MOUNTPOINT]
                   ELSE rootn
       /\ UNCHANGED fdt
       /\ Finish(l.c)

\* vfs_mount (lines 985-1041) of the filesystem whose root node is n.
vfs_mount(p, n, io) ==
  LET np == vfs_normalize_path(p) IN
  IF p = <<"/">> THEN rootn' = n /\ UNCHANGED <<mtab, fdt>> /\ Finish(Ctx(io))
  ELSE IF rootn = NULL \/ ~np.ok THEN Fails(Ctx(io))
  ELSE MountOn(np, n, vfs_lookup(Ctx(io), np.path))

\* vfs_unmount once the entry was found and its path looked up (lines
\* 1073-1086): the mark is cleared on the node vfs_lookup returns.
UnmountOn(k, l) ==
  IF l.node = NULL THEN Fails(l.c)
  ELSE /\ mtab' = [mtab EXCEPT ![k].used = FALSE]
       /\ rootn' = IF l.root
                   THEN [rootn EXCEPT !.mp = NULL, !.type = @ - (@ & VFS_MOUNTPOINT)]
                   ELSE rootn
       /\ UNCHANGED fdt
       /\ Finish(l.c)

\* vfs_unmount (lines 1048-1087): the first entry with the normalised path.
vfs_unmount(p, io) ==
  LET np   == vfs_normalize_path(p)
      hits == {k \in DOMAIN mtab : mtab[k].used /\ mtab[k].path = np.path}
  IN  IF p = <<"/">> \/ ~np.ok \/ hits = {} THEN Fails(Ctx(io))
      ELSE UnmountOn(Min(hits), vfs_lookup(Ctx(io), np.path))

\* vfs_stat (lines 1298-1312): vfs_lookup, then ext4_stat, which only
\* fills the caller's structure.
vfs_stat(p, io) ==
  LET l == vfs_lookup(Ctx(io), p)
  IN  UNCHANGED <<rootn, mtab, fdt>> /\ Finish(l.c)

\* vfs_open once the node was looked up (lines 1102-1134): ext4_open and
\* ext4_close return 0.
OpenOn(flags, l) ==
  LET fd == LowestFree(fdt) IN
  IF l.node = NULL \/ fd = MAX_OPEN_FILES THEN Fails(l.c)
  ELSE /\ fdt' = [fdt EXCEPT ![fd] = [node |-> l.node, flags |-> flags,
                                      position |-> 0, used |-> TRUE]]
       /\ UNCHANGED <<rootn, mtab>>
       /\ Finish(l.c)

\* vfs_open (lines 1095-1135).
vfs_open(p, flags, io) == OpenOn(flags, vfs_lookup(Ctx(io), p))

\* vfs_close (lines 1142-1164).
vfs_close(fd) ==
  IF ~fdt[fd].used THEN Fails(Ctx(0))
  ELSE /\ fdt' = [fdt EXCEPT ![fd].used = FALSE]
       /\ UNCHANGED <<rootn, mtab>>
       /\ Finish(Ctx(0))

\* vfs_read once ext4_read returned (lines 1186-1190): its int result,
\* taken as a size_t, is added to the position.
ReadDone(fd, r) ==
  /\ fdt' = [fdt EXCEPT ![fd].position = U(@ + U(r.ret))]
  /\ UNCHANGED <<rootn, mtab>>
  /\ Finish(r.c)

\* vfs_read (lines 1171-1191).
vfs_read(fd, size, io) ==
  IF ~fdt[fd].used THEN Fails(Ctx(io))
  ELSE ReadDone(fd, ext4_read(Ctx(io), fdt[fd].node, fdt[fd].position, size))

\* vfs_lseek (lines 1229-1264): a read-only descriptor may not move past
\* the end.
vfs_lseek(fd, off, whence) ==
  LET e   == fdt[fd]
      pos == CASE whence = SEEK_SET -> U(off)
               [] whence = SEEK_CUR -> U(e.position + off)
               [] OTHER             -> U(e.node.size + off)
      writable == (e.flags & VFS_O_WRONLY) # 0 \/ (e.flags & VFS_O_RDWR) # 0
  IN  IF ~e.used \/ whence \notin {SEEK_SET, SEEK_CUR, SEEK_END}
         \/ (pos > e.node.size /\ ~writable)
      THEN UNCHANGED <<rootn, mtab, fdt>> /\ Finish(Ctx(0))
      ELSE /\ fdt' = [fdt EXCEPT ![fd].position = pos]
           /\ UNCHANGED <<rootn, mtab>>
           /\ Finish(Ctx(0))

\* vfs_readdir once the path was looked up (lines 1278-1289).
ReaddirOn(l, index) ==
  IF l.node = NULL \/ l.node.type # VFS_DIRECTORY THEN [ret |-> -1, c |-> l.c]
  ELSE ext4_readdir(l.c, l.node, index)

\* vfs_readdir (lines 1271-1290).
vfs_readdir(c, p, index) == ReaddirOn(vfs_lookup(c, p), index)

Readdir(p, index, io) ==
  UNCHANGED <<rootn, mtab, fdt>> /\ Finish(vfs_readdir(Ctx(io), p, index).c)

\* The parent directory of a normalised path (lines 1356-1368).
ParentPath(np) ==
  LET s == strrchr(np, "/")
  IN  IF s = 0 THEN <<".">> ELSE IF s = 1 THEN <<"/">> ELSE SubSeq(np, 1, s - 1)

\* vfs_mkdir (lines 1343-1387), and vfs_rmdir, vfs_create and vfs_unlink,
\* which differ only in the operation they look for: the parent is looked
\* up, and ext4_ops has no such operation, so the call fails.
vfs_mkdir(p, io) ==
  LET np == vfs_normalize_path(p)
  IN  IF ~np.ok THEN Fails(Ctx(io))
      ELSE Fails(vfs_lookup(Ctx(io), ParentPath(np.path)).c)

Next ==
  \/ \E io \in IoFails :
       \/ \E p \in Paths :
            \/ \E n \in FsRoots : vfs_mount(p, n, io)
            \/ vfs_unmount(p, io)
            \/ vfs_stat(p, io)
            \/ \E fl \in Flags : vfs_open(p, fl, io)
            \/ \E i \in Indices : Readdir(p, i, io)
            \/ vfs_mkdir(p, io)
       \/ \E fd \in DOMAIN fdt, sz \in ReadSizes : vfs_read(fd, sz, io)
  \/ \E fd \in DOMAIN fdt :
       \/ vfs_close(fd)
       \/ \E off \in Offsets, wh \in Whences : vfs_lseek(fd, off, wh)

Spec == Init /\ [][Next]_vars

(***************************************************************************)
(* Reference resolution, from the image and the mount table              *)
(***************************************************************************)
\* The live entries of a directory in on-disk order.
Live(d) ==
  LET inBlock(blk) ==
        LET offs == SetToSortSeq({o \in DOMAIN blk : blk[o].inode # 0 /\ ~blk[o].stale}, <)
        IN  [k \in 1..Len(offs) |-> blk[offs[k]]]
  IN  FlattenSeq([b \in 1..Len(d.blocks) |-> inBlock(d.blocks[b])])

\* The components of a path once "." and ".." are applied, ".." staying at
\* the root; a relative path is taken from the root.
RECURSIVE Components(_, _)
Components(st, fs) ==
  IF fs = <<>> THEN st
  ELSE LET f == Head(fs) IN
       Components(IF f = <<".">> THEN st
                  ELSE IF f = <<".", ".">> THEN (IF st = <<>> THEN st ELSE Front(st))
                  ELSE Append(st, f), Tail(fs))

Comps(path) == Components(<<>>, Fields(path, Slash))

\* The normalised path of the directory reached by components cs.
PathOf(cs) == IF cs = <<>> THEN <<"/">>
              ELSE FlattenSeq([k \in 1..Len(cs) |-> <<"/">> \o cs[k]])

MountsAt(cs) == {k \in DOMAIN mtab : mtab[k].used /\ mtab[k].path = PathOf(cs)}

\* Where a walk through cs[1..k] is: the filesystem mounted there, if any.
RECURSIVE RefWalk(_, _, _)
RefWalk(cur, cs, k) ==
  LET m    == MountsAt(SubSeq(cs, 1, k))
      here == IF m = {} THEN cur ELSE NodeId(mtab[Min(m)].node)
      d    == Image[here.fs][here.ino]
      next == {e \in Range(Live(d)) : e.name = cs[k + 1]}
  IN  IF k = Len(cs) THEN here
      ELSE IF d.mode # "dir" \/ next = {} THEN NULL
      ELSE RefWalk([fs |-> here.fs, ino |-> (CHOOSE e \in next : TRUE).inode], cs, k + 1)

RefResolve(path) ==
  IF rootn = NULL \/ Len(path) >= MAX_PATH_LENGTH THEN NULL
  ELSE RefWalk(NodeId(rootn), Comps(path), 0)

\* The path goes through a directory something is mounted on.
CrossesMount(path) ==
  LET cs == Comps(path) IN \E k \in 0..Len(cs) : MountsAt(SubSeq(cs, 1, k)) # {}

\* A lookup result l for path p, when it did not fail and when judged,
\* names the node RefResolve finds.
LookupAgrees(p, l, judged) ==
  (~l.c.fault /\ judged) => NodeId(l.node) = RefResolve(p)

\* A readdir result r for index i of the directory t, when it did not fail
\* and when judged: the i-th live entry, or -1 past the last.
ReaddirAgrees(r, i, t, judged) ==
  LET L == IF t = NULL THEN <<>> ELSE Live(Image[t.fs][t.ino]) IN
  (~r.c.fault /\ judged)
    => r.ret = IF t # NULL /\ Image[t.fs][t.ino].mode = "dir" /\ i < Len(L)
               THEN L[i + 1].inode ELSE -1

(***************************************************************************)
(* Properties                                                              *)
(***************************************************************************)
TypeOK ==
  /\ rootn \in FsRoots \cup {NULL} \/ rootn.type = VFS_DIRECTORY + VFS_MOUNTPOINT
  /\ \A k \in DOMAIN mtab : mtab[k].used => mtab[k].node \in FsRoots
  /\ \A k \in DOMAIN fdt : fdt[k].position \in 0..(2^Width - 1)
  /\ heap \in BaseHeap..HEAP_SLOTS
  /\ created \in Nat

\* Every lookup that no kmalloc or device read failure cuts short, and
\* that crosses no mounted directory, returns the node of the inode the
\* directory entries lead to, or NULL exactly when there is none: path
\* normalisation (strtok_r, strrchr, the '..' handling), the rec_len chain
\* of ext4_find_dir_entry over every block and the type checks agree with
\* the on-disk tree, however the earlier calls left the heap and tables.
LookupResolvesTree ==
  \A p \in Paths, io \in IoFails :
    LookupAgrees(p, vfs_lookup(Ctx(io), p), ~CrossesMount(p))

\* vfs_readdir(path, i) that nothing cuts short returns the inode of the
\* i-th live entry of the directory in on-disk order, counting across
\* blocks and skipping deleted entries, and -1 past the last one.
ReaddirEnumerates ==
  \A p \in Paths, io \in IoFails, i \in Indices :
    ReaddirAgrees(vfs_readdir(Ctx(io), p, i), i, RefResolve(p), ~CrossesMount(p))

\* Between calls the heap holds only what outlives a call (the mounted
\* filesystems and the node and inode info of every node ext4_finddir
\* built): the directory, block, extent and inode buffers are freed on
\* every path out, the failing ones included.
ScratchFreed == heap = BaseHeap + 2 * created

\* Once vfs_mount(path, fs) has succeeded, and until it is unmounted, a
\* lookup through path that nothing cuts short reaches the mounted
\* filesystem.
MountedTreeVisible ==
  \A p \in Paths, io \in IoFails : LookupAgrees(p, vfs_lookup(Ctx(io), p), TRUE)

\* A descriptor opened read-only never has its position past the end of
\* the file: vfs_lseek refuses it, and a read moves it by what it read.
ReadOnlyPositionInFile ==
  \A k \in DOMAIN fdt :
    (fdt[k].used /\ fdt[k].flags = 0) => fdt[k].position <= fdt[k].node.size
====
