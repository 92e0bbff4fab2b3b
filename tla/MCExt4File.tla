----------------------------- MODULE MCExt4File -----------------------------
(***************************************************************************)
(* Inodes, extent trees and read arguments for checking Ext4File, with     *)
(* 1 KiB blocks.                                                           *)
(***************************************************************************)
EXTENDS Ext4File

Idx(blk, leaf) == [w0 |-> blk, w1 |-> leaf, w2 |-> 0]
Ext(blk, len, start) == [w0 |-> blk, w1 |-> len, w2 |-> start]
Node(depth, items) ==
  [magic |-> TRUE, depth |-> depth, entries |-> Len(items), items |-> items]
Inode(size, fl, root) == [size |-> size, extents_fl |-> fl, root |-> root]

MCBlockSize == 1024

\* 1: the spec's example, one extent {0, 10, 500} and 10 blocks of data.
\* 2: a two-level tree: index {0 -> block 20, 3 -> block 21}, leaves
\*    {0,2,600} {2,1,700} and {3,3,800}; 6 blocks minus 300 bytes.
\* 3: a hole at block 1 ({0,1,900} {2,2,950}), 4 blocks.
\* 4: an inode without EXT4_EXTENTS_FL.
\* 5: a root with a bad magic.
\* 6: a full root: four extents of two blocks, 8 blocks.
MCFiles ==
  1 :> Inode(10 * 1024, TRUE, Node(0, <<Ext(0, 10, 500)>>))
  @@ 2 :> Inode(6 * 1024 - 300, TRUE, Node(1, <<Idx(0, 20), Idx(3, 21)>>))
  @@ 3 :> Inode(4 * 1024, TRUE, Node(0, <<Ext(0, 1, 900), Ext(2, 2, 950)>>))
  @@ 4 :> Inode(1024, FALSE, Node(0, <<Ext(0, 1, 400)>>))
  @@ 5 :> Inode(1024, TRUE, [Node(0, <<Ext(0, 1, 400)>>) EXCEPT !.magic = FALSE])
  @@ 6 :> Inode(8 * 1024, TRUE, Node(0, <<Ext(0, 2, 300), Ext(2, 2, 310),
                                          Ext(4, 2, 320), Ext(6, 2, 330)>>))

MCDiskNodes ==
  20 :> Node(0, <<Ext(0, 2, 600), Ext(2, 1, 700)>>)
  @@ 21 :> Node(0, <<Ext(3, 3, 800)>>)

MCBlocks == 0..10

\* Offsets inside the first block, at its last byte, in the middle of a
\* block, on a block boundary and at EOF of file 1; sizes of nothing, one
\* byte, a partial block, a whole block and three blocks.
MCOffsets == {0, 100, 1023, 9 * 1024 + 100, 3 * 1024, 10 * 1024}
MCSizes == {0, 1, 50, 1024, 3 * 1024}
====
