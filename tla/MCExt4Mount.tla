---------------------------- MODULE MCExt4Mount ----------------------------
(***************************************************************************)
(* Disks and inode numbers for checking Ext4Mount.                         *)
(***************************************************************************)
EXTENDS Ext4Mount

Sb(magic, log, blocks, bpg, ipg, isize, dsize) ==
  [magic_ok |-> magic, log_block_size |-> log, blocks_count |-> blocks,
   blocks_per_group |-> bpg, inodes_per_group |-> ipg,
   inode_size |-> isize, desc_size |-> dsize]

\* Three groups of 64-byte descriptors in 1 KiB blocks (with 4 and with 16
\* inodes per group, so that a group's inode table spans two blocks) and
\* in 4 KiB blocks; one group of 32-byte descriptors; three groups of
\* 32-byte descriptors with 256-byte inodes, the layout of mkfs.ext4
\* without the 64bit feature; an empty disk (no groups) and a bad magic.
MCDisks ==
  { Sb(TRUE, 0, 20, 8, 4, 128, 64),
    Sb(TRUE, 0, 20, 8, 16, 128, 64),
    Sb(TRUE, 2, 20, 8, 4, 128, 64),
    Sb(TRUE, 0, 8, 8, 4, 128, 0),
    Sb(TRUE, 0, 20, 8, 4, 256, 0),
    Sb(TRUE, 0, 0, 8, 4, 128, 64),
    Sb(FALSE, 0, 20, 8, 4, 128, 64) }

\* Inode 0 (invalid), the root, 4 (the last of group 0 with 4 inodes per
\* group), 5 and 9 (groups 1 and 2), and 13 (past the last group with 4
\* per group; in the second block of group 0's table with 16 per group).
MCInodeNums == {0, 2, 4, 5, 9, 13}
====
