------------------------------ MODULE Ext4Dir -------------------------------
(***************************************************************************)
(* Directory scanning and VFS-node projection of the EXT4 reader           *)
(* (src/unnamed/part_006): ext4_find_dir_entry, ext4_readdir,              *)
(* ext4_finddir, ext4_create_vfs_node and ext4_read, over a fixed image.   *)
(*                                                                         *)
(* Image[fs][ino] is an inode: its mode's file type, its size and, for a   *)
(* directory, its data blocks.  A block maps the offset of each entry      *)
(* header to the entry; bytes at other offsets read as zero.  An entry     *)
(* marked stale is a deleted entry whose space the rec_len of the entry    *)
(* before it took over: its bytes are still there, but the rec_len chain   *)
(* steps over it.                                                          *)
(*                                                                         *)
(* The heap is HEAP_SLOTS allocations; every kmalloc takes one and fails   *)
(* when none is left (the allocator itself is Kmalloc's subject).  A call  *)
(* threads a context c = [heap, io, fault] through the code: io counts     *)
(* down to the device read that fails (0: none does), and fault records    *)
(* that a kmalloc or a read failed.  Extent trees here are depth 0, so a   *)
(* file block read allocates the extent buffer, frees it and reads one     *)
(* device block, as Ext4File models in full.                               *)
(***************************************************************************)
EXTENDS Integers, Sequences

CONSTANTS
  BlockSize,    \* fs->block_size
  Image,        \* fs -> ino -> [mode, size, blocks]
  HEAP_SLOTS,   \* allocations the heap can hold
  NULL

VFS_FILE == 1
VFS_DIRECTORY == 2
VFS_MOUNTPOINT == 8

\* The S_IS* chain of ext4_create_vfs_node (part_008 S_IF* bits).
ModeType == [reg |-> VFS_FILE, dir |-> VFS_DIRECTORY, lnk |-> 6, chr |-> 3,
             blk |-> 4, fifo |-> 5, sock |-> 9]
VfsType(m) == IF m \in DOMAIN ModeType THEN ModeType[m] ELSE VFS_FILE

\* Mutant: kmalloc succeeds with the heap already full.
CanAllocOffByOne(c) == c.heap <= HEAP_SLOTS

CanAlloc(c) == c.heap < HEAP_SLOTS
Alloc(c) == [c EXCEPT !.heap = @ + 1]
Free(c) == [c EXCEPT !.heap = @ - 1]
Fault(c) == [c EXCEPT !.fault = TRUE]

\* A device read through block_device_t ops->read.
DevRead(c) ==
  [ok |-> c.io # 1,
   c  |-> [c EXCEPT !.io = IF @ > 0 THEN @ - 1 ELSE 0, !.fault = @ \/ c.io = 1]]

\* ext4_read_file_block of a block inside the file: the extent lookup's
\* kmalloc, then the device read.
ReadFileBlock(c) ==
  IF ~CanAlloc(c) THEN [ok |-> FALSE, c |-> Fault(c)] ELSE DevRead(c)

\* ext4_read_inode: kmalloc of the block buffer, then the device read.
ReadInode(c) ==
  IF ~CanAlloc(c) THEN [ok |-> FALSE, c |-> Fault(c)] ELSE DevRead(c)

NumBlocks(d) == (d.size + BlockSize - 1) \div BlockSize

NoEntry == [inode |-> 0, rec_len |-> 0, name |-> <<>>, stale |-> FALSE]
At(blk, off) == IF off \in DOMAIN blk THEN blk[off] ELSE NoEntry

\* Mutant: the scan steps a fixed 12 bytes instead of rec_len.
RECURSIVE ScanNameFixedStride(_, _, _)
ScanNameFixedStride(blk, name, off) ==
  LET e == At(blk, off) IN
  IF off >= BlockSize \/ e.rec_len = 0 THEN 0
  ELSE IF e.inode # 0 /\ e.name = name THEN e.inode
  ELSE ScanNameFixedStride(blk, name, off + 12)

\* The entry loop of ext4_find_dir_entry (lines 606-629) in one block: the
\* inode of the live entry with the name, or 0.
RECURSIVE ScanName(_, _, _)
ScanName(blk, name, off) ==
  LET e == At(blk, off) IN
  IF off >= BlockSize \/ e.rec_len = 0 THEN 0
  ELSE IF e.inode # 0 /\ e.name = name THEN e.inode
  ELSE ScanName(blk, name, off + e.rec_len)

\* The block loop of ext4_find_dir_entry (lines 596-630).
RECURSIVE FindInBlocks(_, _, _, _)
FindInBlocks(c, d, name, b) ==
  IF b >= NumBlocks(d) THEN [ino |-> 0, c |-> c]
  ELSE LET r == ReadFileBlock(c) IN
       IF ~r.ok THEN [ino |-> 0, c |-> r.c]
       ELSE LET i == ScanName(d.blocks[b + 1], name, 0) IN
            IF i # 0 THEN [ino |-> i, c |-> r.c]
            ELSE FindInBlocks(r.c, d, name, b + 1)

\* Mutant: the early return on a failed block read does not free the
\* directory buffer.
ext4_find_dir_entry_leaky(c, d, name) ==
  IF ~CanAlloc(c) THEN [ino |-> 0, c |-> Fault(c)]
  ELSE LET r == FindInBlocks(Alloc(c), d, name, 0)
       IN  IF r.ino = 0 /\ r.c.fault THEN r ELSE [r EXCEPT !.c = Free(@)]

\* ext4_find_dir_entry (lines 580-635): the directory buffer is freed on
\* every return after it was allocated.
ext4_find_dir_entry(c, d, name) ==
  IF ~CanAlloc(c) THEN [ino |-> 0, c |-> Fault(c)]
  ELSE LET r == FindInBlocks(Alloc(c), d, name, 0)
       IN  [r EXCEPT !.c = Free(@)]

\* The node ext4_create_vfs_node fills in for inode ino of fs.
NodeOf(fs, ino) ==
  [fs |-> fs, ino |-> ino, type |-> VfsType(Image[fs][ino].mode),
   size |-> Image[fs][ino].size, mp |-> NULL]

\* ext4_create_vfs_node (lines 372-417): read the inode, then allocate the
\* ext4_inode_info_t that the node keeps.
ext4_create_vfs_node(c, fs, ino) ==
  LET r == ReadInode(c) IN
  IF ~r.ok THEN [node |-> NULL, c |-> r.c]
  ELSE IF ~CanAlloc(r.c) THEN [node |-> NULL, c |-> Fault(r.c)]
  ELSE [node |-> NodeOf(fs, ino), c |-> Alloc(r.c)]

\* ext4_finddir once ext4_create_vfs_node returned (lines 804-810): the
\* node is freed again if it failed.
FinddirCreated(v) == IF v.node = NULL THEN [node |-> NULL, c |-> Free(v.c)] ELSE v

\* ext4_finddir once the entry was looked up (lines 793-810): a new
\* vfs_node for it, which the caller owns.
FinddirFound(f, fs) ==
  IF f.ino = 0 THEN [node |-> NULL, c |-> f.c]
  ELSE IF ~CanAlloc(f.c) THEN [node |-> NULL, c |-> Fault(f.c)]
  ELSE FinddirCreated(ext4_create_vfs_node(Alloc(f.c), fs, f.ino))

\* ext4_finddir (lines 781-811).
ext4_finddir(c, n, name) ==
  IF n.type # VFS_DIRECTORY THEN [node |-> NULL, c |-> c]
  ELSE FinddirFound(ext4_find_dir_entry(c, Image[n.fs][n.ino], name), n.fs)

\* The entry loop of ext4_readdir (lines 711-771) in one block, counting
\* live entries from idx: the inode of entry number index, or 0 and the
\* count so far.
RECURSIVE ScanIndex(_, _, _, _)
ScanIndex(blk, index, idx, off) ==
  LET e == At(blk, off) IN
  IF off >= BlockSize \/ e.rec_len = 0 THEN [ino |-> 0, idx |-> idx]
  ELSE IF e.inode # 0 /\ idx = index THEN [ino |-> e.inode, idx |-> idx]
  ELSE ScanIndex(blk, index, IF e.inode # 0 THEN idx + 1 ELSE idx,
                 off + e.rec_len)

\* Mutant: entry_idx restarts at 0 in every block.
RECURSIVE ReaddirBlocksPerBlock(_, _, _, _, _)
ReaddirBlocksPerBlock(c, d, index, idx, b) ==
  IF b >= NumBlocks(d) THEN [ret |-> -1, c |-> c]
  ELSE LET r == ReadFileBlock(c) IN
       IF ~r.ok THEN [ret |-> -1, c |-> r.c]
       ELSE LET s == ScanIndex(d.blocks[b + 1], index, 0, 0) IN
            IF s.ino # 0 THEN [ret |-> s.ino, c |-> r.c]
            ELSE ReaddirBlocksPerBlock(r.c, d, index, 0, b + 1)

\* The block loop of ext4_readdir (lines 700-772); entry_idx runs on
\* across blocks.  The dirent's name and type copy is left out: the entry
\* is identified by its inode.
RECURSIVE ReaddirBlocks(_, _, _, _, _)
ReaddirBlocks(c, d, index, idx, b) ==
  IF b >= NumBlocks(d) THEN [ret |-> -1, c |-> c]
  ELSE LET r == ReadFileBlock(c) IN
       IF ~r.ok THEN [ret |-> -1, c |-> r.c]
       ELSE LET s == ScanIndex(d.blocks[b + 1], index, idx, 0) IN
            IF s.ino # 0 THEN [ret |-> s.ino, c |-> r.c]
            ELSE ReaddirBlocks(r.c, d, index, s.idx, b + 1)

\* ext4_readdir (lines 678-776).
ext4_readdir(c, n, index) ==
  IF n.type # VFS_DIRECTORY THEN [ret |-> -1, c |-> c]
  ELSE IF ~CanAlloc(c) THEN [ret |-> -1, c |-> Fault(c)]
  ELSE LET r == ReaddirBlocks(Alloc(c), Image[n.fs][n.ino], index, 0, 0)
       IN  [r EXCEPT !.c = Free(@)]

\* Reads of k consecutive file blocks, stopping at the first failure.
RECURSIVE ReadBlocks(_, _)
ReadBlocks(c, k) ==
  IF k = 0 THEN [ok |-> TRUE, c |-> c]
  ELSE LET r == ReadFileBlock(c) IN
       IF ~r.ok THEN r ELSE ReadBlocks(r.c, k - 1)

\* ext4_read (lines 656-666), that is ext4_read_file_data (lines 299-363):
\* 0 at or past the end, else the size clipped to the file, or -1 when the
\* block buffer's kmalloc or a block read fails.  Which bytes are copied
\* is Ext4File's subject; here only the count returned matters.
ext4_read(c, n, off, size) ==
  LET sz    == IF off + size > n.size THEN n.size - off ELSE size
      first == off \div BlockSize
      last  == (off + sz - 1) \div BlockSize
  IN  IF off >= n.size THEN [ret |-> 0, c |-> c]
      ELSE IF ~CanAlloc(c) THEN [ret |-> -1, c |-> Fault(c)]
      ELSE LET r == ReadBlocks(Alloc(c), last - first + 1)
           IN  [ret |-> IF r.ok THEN sz ELSE -1, c |-> Free(r.c)]
====
