------------------------------ MODULE Ext4File ------------------------------
(***************************************************************************)
(* The file read path of the EXT4 reader (src/unnamed/part_006):          *)
(* ext4_read_extent_block (extent tree walk), ext4_read_file_block (EOF    *)
(* zero fill, extent lookup, device read) and ext4_read_file_data (clip,   *)
(* block loop, partial first and last blocks).                             *)
(*                                                                         *)
(* An extent entry is kept as its three little-endian 32-bit words, so the *)
(* union of ext4_extent_idx_t and ext4_extent_t reads the same bytes both  *)
(* ways, as the C does.  Tree nodes live in the inode (the root, 60 bytes  *)
(* copied into the extent buffer) or in disk blocks (DiskNodes).  Data is  *)
(* identified by where it comes from: a copy is a segment of the caller's  *)
(* buffer filled from an offset of a physical block or with zeros.         *)
(* kmalloc and every device read may fail; each call is one step that      *)
(* records its outcome.  uint64 arithmetic is taken modulo 2^Width.        *)
(***************************************************************************)
EXTENDS Integers, Sequences, FiniteSetsExt, TLC

CONSTANTS
  Files,            \* inode -> [size, extents_fl, root]
  DiskNodes,        \* physical block -> extent tree node stored there
  BlockSize,        \* fs->block_size
  ExtentsFeature,   \* s_feature_incompat has EXT4_FEATURE_INCOMPAT_EXTENTS
  Blocks,           \* logical block numbers asked of the extent tree
  Offsets, Sizes,   \* arguments of ext4_read_file_data
  Width,            \* bits of uint64_t in the model
  NULL

VARIABLES
  heap,   \* scratch buffers currently allocated
  last    \* the latest call and its outcome

vars == <<heap, last>>

U64(x) == x % (2^Width)

\* ext4_extent_header_t + 4 entries: the root holds 4 entries, a node in a
\* block as many 12-byte entries as fit after the 12-byte header.
RootEntries == 4
BlockEntries == (BlockSize - 12) \div 12

\* The words of an entry: ext4_extent_idx_t {ei_block, ei_leaf_lo,
\* ei_leaf_hi | ei_unused << 16} and ext4_extent_t {ee_block,
\* ee_len | ee_start_hi << 16, ee_start_lo}.  Block numbers in the model
\* stay below 2^16, so the _hi halves (shifted by 32) are zero and
\* ee_block + ee_len never wraps its 32 bits.
EiBlock(e) == e.w0
EiLeaf(e) == e.w1
EeBlock(e) == e.w0
EeLen(e) == e.w1 % 65536
EeStart(e) == e.w2
ZeroEntry == [w0 |-> 0, w1 |-> 0, w2 |-> 0]

\* A node as it sits in the extent buffer: header fields, the entries
\* stored and how many entries the initialised bytes hold.
View(n, avail) == [magic |-> n.magic, depth |-> n.depth, entries |-> n.entries,
                   items |-> n.items, avail |-> avail]
RootView(f) == View(Files[f].root, RootEntries)
DataBlock == [magic |-> FALSE, depth |-> 0, entries |-> 0, items |-> <<>>]
BlockView(p) == View(IF p \in DOMAIN DiskNodes THEN DiskNodes[p] ELSE DataBlock,
                     BlockEntries)

\* Entry i (from 0) of a view; unused bytes of a disk block are zero.
Entry(v, i) == IF i < Len(v.items) THEN v.items[i + 1] ELSE ZeroEntry

\* The index search of an internal node, from entry i on: -1 when it reads
\* past the initialised entries (uninitialised or foreign memory).
RECURSIVE SelectFrom(_, _, _)
\* (mutant) compares with the entry itself rather than the next one.
SelectFromOwnEntry(v, b, i) ==
  IF i >= v.entries THEN i
  ELSE IF i < v.entries - 1
       THEN IF i >= v.avail THEN -1
            ELSE IF b >= EiBlock(Entry(v, i)) THEN SelectFrom(v, b, i + 1)
            ELSE i
       ELSE IF i >= v.avail THEN -1 ELSE i
SelectFrom(v, b, i) ==
  IF i >= v.entries THEN i
  ELSE IF i < v.entries - 1
       THEN IF i + 1 >= v.avail THEN -1
            ELSE IF b >= EiBlock(Entry(v, i + 1)) THEN SelectFrom(v, b, i + 1)
            ELSE i
       ELSE IF i >= v.avail THEN -1 ELSE i

\* The leaf scan from extent i on: the index of the extent containing b,
\* v.entries when none does, -1 on reading past the initialised entries.
RECURSIVE ScanFrom(_, _, _)
\* (mutant) scans one entry too many: i <= eh_entries.
ScanFromInclusive(v, b, i) ==
  IF i > v.entries THEN v.entries
  ELSE IF i >= v.avail THEN -1
  ELSE LET e == Entry(v, i) IN
       IF b >= EeBlock(e) /\ b < EeBlock(e) + EeLen(e) THEN i
       ELSE ScanFrom(v, b, i + 1)
ScanFrom(v, b, i) ==
  IF i >= v.entries THEN i
  ELSE IF i >= v.avail THEN -1
  ELSE LET e == Entry(v, i) IN
       IF b >= EeBlock(e) /\ b < EeBlock(e) + EeLen(e) THEN i
       ELSE ScanFrom(v, b, i + 1)

\* Outcome of a call: heap after it, return value, physical block found (or
\* the data copies made), whether a kmalloc or device read failed, whether
\* memory past the initialised entries was read.
Out(h, st, val, faults, oob) ==
  [heap |-> h, status |-> st, val |-> val, faults |-> faults, oob |-> oob]

(***************************************************************************)
(* ext4_read_extent_block                                                  *)
(***************************************************************************)
\* The depth loop and the leaf scan on the extent buffer holding view v;
\* depth counts down from the root's eh_depth.
RECURSIVE Walk(_, _, _, _)
\* (mutant) returns without kfree when the leaf has no matching extent.
WalkLeakingOnMiss(h, v, depth, b) ==
  LET free == h \ {"extent_buffer"} IN
  IF depth > 0
  THEN LET i == SelectFrom(v, b, 0) IN
       IF i = -1 THEN {Out(free, -1, NULL, FALSE, TRUE)}
       ELSE IF i >= v.entries THEN {Out(free, -1, NULL, FALSE, FALSE)}
       ELSE LET next == BlockView(EiLeaf(Entry(v, i))) IN
            {Out(free, -1, NULL, TRUE, FALSE)}
              \cup (IF ~next.magic THEN {Out(free, -1, NULL, FALSE, FALSE)}
                    ELSE Walk(h, next, depth - 1, b))
  ELSE LET i == ScanFrom(v, b, 0) IN
       IF i = -1 THEN {Out(free, -1, NULL, FALSE, TRUE)}
       ELSE IF i >= v.entries THEN {Out(h, -1, NULL, FALSE, FALSE)}
       ELSE LET e == Entry(v, i) IN
            {Out(free, 0, U64(EeStart(e) + (b - EeBlock(e))), FALSE, FALSE)}
Walk(h, v, depth, b) ==
  LET free == h \ {"extent_buffer"} IN
  IF depth > 0
  THEN LET i == SelectFrom(v, b, 0) IN
       IF i = -1 THEN {Out(free, -1, NULL, FALSE, TRUE)}
       ELSE IF i >= v.entries THEN {Out(free, -1, NULL, FALSE, FALSE)}
       ELSE LET next == BlockView(EiLeaf(Entry(v, i))) IN
            {Out(free, -1, NULL, TRUE, FALSE)}
              \cup (IF ~next.magic THEN {Out(free, -1, NULL, FALSE, FALSE)}
                    ELSE Walk(h, next, depth - 1, b))
  ELSE LET i == ScanFrom(v, b, 0) IN
       IF i = -1 THEN {Out(free, -1, NULL, FALSE, TRUE)}
       ELSE IF i >= v.entries THEN {Out(free, -1, NULL, FALSE, FALSE)}
       ELSE LET e == Entry(v, i) IN
            {Out(free, 0, U64(EeStart(e) + (b - EeBlock(e))), FALSE, FALSE)}

ext4_read_extent_block(h, f, b) ==
  IF ~ExtentsFeature \/ ~Files[f].extents_fl \/ ~Files[f].root.magic
  THEN {Out(h, -1, NULL, FALSE, FALSE)}
  ELSE {Out(h, -1, NULL, TRUE, FALSE)}
         \cup Walk(h \cup {"extent_buffer"}, RootView(f), Files[f].root.depth, b)

(***************************************************************************)
(* ext4_read_file_block: the block read into the caller's buffer is        *)
(* [zero |-> TRUE] past EOF, else [zero |-> FALSE, phys |-> p].            *)
(***************************************************************************)
MaxBlock(f) == (Files[f].size + BlockSize - 1) \div BlockSize

ext4_read_file_block(h, f, b) ==
  IF b >= MaxBlock(f) THEN {Out(h, 0, [zero |-> TRUE], FALSE, FALSE)}
  ELSE IF ~ExtentsFeature THEN {Out(h, -1, NULL, FALSE, FALSE)}
  ELSE UNION {IF r.status < 0 THEN {r}
              ELSE {Out(r.heap, 0, [zero |-> FALSE, phys |-> r.val], FALSE, FALSE),
                    Out(r.heap, -1, NULL, TRUE, FALSE)}
              : r \in ext4_read_extent_block(h, f, b)}

(***************************************************************************)
(* ext4_read_file_data                                                     *)
(***************************************************************************)
\* The loop from iteration i on, with bytes_read bytes copied so far.  Its
\* result carries the copies [dst, src, from, len] made into the buffer.
RECURSIVE DataLoop(_, _, _, _, _, _, _, _, _, _)
\* (mutant) copies from start_offset in every block, not only the first.
DataLoopSameOffset(h, f, start, startOff, num, size, i, br, copies, oob) ==
  LET done(hh, st, cs, o, flt) == Out(hh \ {"block_buffer"}, st, cs, flt, o) IN
  IF i >= num THEN {done(h, br, copies, oob, FALSE)}
  ELSE UNION
    {IF r.status < 0 THEN {done(r.heap, r.status, copies, oob \/ r.oob, r.faults)}
     ELSE LET from == startOff
              full == BlockSize - from
              len  == IF U64(br + full) > size THEN size - br ELSE full
              cs   == Append(copies, [dst |-> br, src |-> r.val,
                                      from |-> from, len |-> len])
              nbr  == U64(br + len)
          IN  IF nbr >= size THEN {done(r.heap, nbr, cs, oob \/ r.oob, FALSE)}
              ELSE DataLoop(r.heap, f, start, startOff, num, size,
                            i + 1, nbr, cs, oob \/ r.oob)
     : r \in ext4_read_file_block(h, f, U64(start + i))}
DataLoop(h, f, start, startOff, num, size, i, br, copies, oob) ==
  LET done(hh, st, cs, o, flt) == Out(hh \ {"block_buffer"}, st, cs, flt, o) IN
  IF i >= num THEN {done(h, br, copies, oob, FALSE)}
  ELSE UNION
    {IF r.status < 0 THEN {done(r.heap, r.status, copies, oob \/ r.oob, r.faults)}
     ELSE LET from == IF i = 0 THEN startOff ELSE 0
              full == BlockSize - from
              len  == IF U64(br + full) > size THEN size - br ELSE full
              cs   == Append(copies, [dst |-> br, src |-> r.val,
                                      from |-> from, len |-> len])
              nbr  == U64(br + len)
          IN  IF nbr >= size THEN {done(r.heap, nbr, cs, oob \/ r.oob, FALSE)}
              ELSE DataLoop(r.heap, f, start, startOff, num, size,
                            i + 1, nbr, cs, oob \/ r.oob)
     : r \in ext4_read_file_block(h, f, U64(start + i))}

\* (mutant) without the offset >= file_size early return.
ReadFileDataNoEofCheck(h, f, off, sz) ==
  LET fsize  == Files[f].size
      size   == IF U64(off + sz) > fsize THEN fsize - off ELSE sz
      start  == off \div BlockSize
      endPos == U64(off + size)
      endBlk == U64(endPos - 1) \div BlockSize
      num    == U64(endBlk - start + 1)
  IN  {Out(h, -1, <<>>, TRUE, FALSE)}
        \cup DataLoop(h \cup {"block_buffer"}, f, start, off % BlockSize,
                      num, size, 0, 0, <<>>, FALSE)
ext4_read_file_data(h, f, off, sz) ==
  LET fsize  == Files[f].size
      size   == IF U64(off + sz) > fsize THEN fsize - off ELSE sz
      start  == off \div BlockSize
      endPos == U64(off + size)
      endBlk == U64(endPos - 1) \div BlockSize
      num    == U64(endBlk - start + 1)
  IN  IF off >= fsize THEN {Out(h, 0, <<>>, FALSE, FALSE)}
      ELSE {Out(h, -1, <<>>, TRUE, FALSE)}
             \cup DataLoop(h \cup {"block_buffer"}, f, start, off % BlockSize,
                           num, size, 0, 0, <<>>, FALSE)

(***************************************************************************)
(* The callers: every node operation reaches the disk through these three *)
(* functions (ext4.h exports them), one whole call per step.               *)
(***************************************************************************)
Init ==
  /\ heap = {}
  /\ last = NULL

Record(call, f, args, r) ==
  /\ heap' = r.heap
  /\ last' = [call |-> call, file |-> f, args |-> args, out |-> r]

ReadExtentCall ==
  \E f \in DOMAIN Files, b \in Blocks :
    \E r \in ext4_read_extent_block(heap, f, b) : Record("extent", f, <<b>>, r)

ReadFileBlockCall ==
  \E f \in DOMAIN Files, b \in Blocks :
    \E r \in ext4_read_file_block(heap, f, b) : Record("block", f, <<b>>, r)

ReadFileDataCall ==
  \E f \in DOMAIN Files, off \in Offsets, sz \in Sizes :
    \E r \in ext4_read_file_data(heap, f, off, sz) : Record("data", f, <<off, sz>>, r)

Next == ReadExtentCall \/ ReadFileBlockCall \/ ReadFileDataCall

Spec == Init /\ [][Next]_vars

(***************************************************************************)
(* The mapping the spec describes (4.2): logical block b of a file is      *)
(* physical block ee_start + (b - ee_block) of the leaf extent containing  *)
(* it, when the filesystem and the inode use extents; otherwise, or when   *)
(* no extent contains b, there is none.                                    *)
(***************************************************************************)
RECURSIVE LeafExtents(_, _)
LeafExtents(n, depth) ==
  LET es == {n.items[k] : k \in 1..Min({n.entries, Len(n.items)})} IN
  IF depth = 0 THEN es
  ELSE UNION {IF EiLeaf(e) \in DOMAIN DiskNodes
              THEN LeafExtents(DiskNodes[EiLeaf(e)], depth - 1) ELSE {}
              : e \in es}

Mappable(f) == ExtentsFeature /\ Files[f].extents_fl /\ Files[f].root.magic

RefPhys(f, b) ==
  LET hits == {e \in LeafExtents(Files[f].root, Files[f].root.depth) :
                 EeBlock(e) <= b /\ b < EeBlock(e) + EeLen(e)}
  IN  IF ~Mappable(f) \/ hits = {} THEN NULL
      ELSE LET e == CHOOSE x \in hits : TRUE IN EeStart(e) + (b - EeBlock(e))

\* What the caller's buffer should receive for logical block b.
Content(f, b) ==
  IF b >= MaxBlock(f) THEN [zero |-> TRUE] ELSE [zero |-> FALSE, phys |-> RefPhys(f, b)]

(***************************************************************************)
(* Properties                                                              *)
(***************************************************************************)
Statuses == -1..(2^Width - 1)

TypeOK ==
  /\ heap \subseteq {"extent_buffer", "block_buffer"}
  /\ last = NULL
     \/ /\ last.call \in {"extent", "block", "data"}
        /\ last.file \in DOMAIN Files
        /\ last.out.status \in Statuses
        /\ last.out.faults \in BOOLEAN
        /\ last.out.oob \in BOOLEAN
        /\ last.call = "data" =>
             \A k \in 1..Len(last.out.val) :
               /\ last.out.val[k].from \in 0..(BlockSize - 1)
               /\ last.out.val[k].len \in 0..BlockSize

\* Every return path of the three functions, the error paths inside the
\* depth loop and the block loop included, frees the extent buffer and
\* the block buffer it allocated: nothing is left allocated between calls.
ScratchFreed == heap = {}

\* ext4_read_extent_block and ext4_read_file_block resolve a logical block
\* as the extent tree says (4.2): when no kmalloc or device read fails, the
\* extent lookup succeeds exactly for blocks some leaf extent covers, with
\* ee_start + (b - ee_block); the block read zero-fills past
\* ceil(size / block_size) and otherwise reads that physical block or fails.
BlockLookupCorrect ==
  last # NULL /\ last.call \in {"extent", "block"} /\ ~last.out.faults =>
    LET f == last.file
        b == last.args[1]
        r == last.out
        want == IF last.call = "extent" THEN RefPhys(f, b)
                ELSE IF b >= MaxBlock(f) THEN [zero |-> TRUE]
                ELSE IF RefPhys(f, b) = NULL THEN NULL
                ELSE Content(f, b)
    IN  /\ r.status = 0 <=> want # NULL
        /\ r.status = 0 => r.val = want

\* A successful ext4_read_file_data returns min(size, i_size - offset)
\* bytes (0 at or past EOF), and the buffer is tiled, from byte 0 on, by
\* copies each taking byte (offset + dst) of the file from offset
\* (offset + dst) % block_size of the block holding it.
ReadFileDataCorrect ==
  last # NULL /\ last.call = "data" /\ last.out.status >= 0 =>
    LET f == last.file
        off == last.args[1]
        sz == last.args[2]
        cs == last.out.val
        fsize == Files[f].size
        want == IF off >= fsize THEN 0 ELSE IF sz < fsize - off THEN sz ELSE fsize - off
    IN  /\ last.out.status = want
        /\ \A k \in 1..Len(cs) :
             LET c == cs[k] IN
             /\ c.dst = IF k = 1 THEN 0 ELSE cs[k - 1].dst + cs[k - 1].len
             /\ c.from = (off + c.dst) % BlockSize
             /\ c.from + c.len <= BlockSize
             /\ c.src = Content(f, (off + c.dst) \div BlockSize)
        /\ cs # <<>> => cs[Len(cs)].dst + cs[Len(cs)].len = want

\* The extent walk reads only entries the extent buffer holds: the root's
\* four entries copied from i_block, or a whole block read from disk.
ExtentReadsInBounds == last # NULL => ~last.out.oob
====

