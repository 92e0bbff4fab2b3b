----------------------------- MODULE Ext4Mount -----------------------------
(***************************************************************************)
(* Mounting, unmounting and inode resolution of the EXT4 reader            *)
(* (src/unnamed/part_006: ext4_mount, ext4_unmount, ext4_read_inode,       *)
(* ext4_create_vfs_node, ext4_read_block).                                  *)
(*                                                                         *)
(* The heap is the abstract allocator of HeapSpec seen through object      *)
(* identities: an object is the role it plays for one mount, and kmalloc   *)
(* of a non-zero size may always fail (the 1 MiB arena is shared with      *)
(* every other user).  The block device is external: every read may fail.  *)
(*                                                                         *)
(* ext4_mount is a sequence of steps, one per stretch of code between two  *)
(* calls that can fail, with that call's error path; nothing else runs     *)
(* while a mount is in progress (pc # "idle").  The disk is a superblock   *)
(* record chosen in Init; the contents of descriptors and inodes are       *)
(* identified by where they are read from, which is what the properties    *)
(* are about.                                                              *)
(***************************************************************************)
EXTENDS Integers, FiniteSets

CONSTANTS
  Disks,       \* superblocks the device may hold
  InodeNums,   \* inode numbers the client resolves
  Gens,        \* slots for the objects of concurrent mounts
  NULL

VARIABLES
  disk,      \* the superblock on the device
  heap,      \* objects currently allocated
  pc,        \* next step of the ext4_mount in progress, or "idle"
  gen,       \* the slot of the latest ext4_mount
  fs,        \* fs[g]: the ext4_fs_t geometry of mount g, once read
  root,      \* the caller's struct vfs_node *root_node
  mounted,   \* mounts whose root node still has its inode info
  held,      \* mounts whose ext4_mount returned 0
  lastRead   \* the memory accesses of the latest ext4_read_inode

vars == <<disk, heap, pc, gen, fs, root, mounted, held, lastRead>>

EXT4_ROOT_INO == 2
InodeStructSize == 128   \* sizeof(ext4_inode_t), packed
GroupDescSize == 64      \* sizeof(ext4_group_desc_t), packed
BgInodeTableLo == 8      \* offsetof(ext4_group_desc_t, bg_inode_table_lo)
BgInodeTableHi == 40     \* offsetof(ext4_group_desc_t, bg_inode_table_hi)

Kinds == {"fs", "sb_buffer", "gdt", "root", "info", "block_buffer"}
Obj(k, g) == [kind |-> k, gen |-> g]
Objects == {Obj(k, g) : k \in Kinds, g \in Gens}

\* kmalloc: NULL for size 0, otherwise the object or NULL (out of memory).
Kmalloc(h, o, size) ==
  IF size = 0 THEN {[heap |-> h, ptr |-> NULL]}
  ELSE {[heap |-> h \cup {o}, ptr |-> o], [heap |-> h, ptr |-> NULL]}

\* 1024 << s_log_block_size, a 32-bit shift on x86 (count taken mod 32,
\* bits shifted past bit 31 lost).  Disks keep log_block_size # 21 so
\* that the value stays within TLC's integers.
BlockSizeOf(log) ==
  LET s == log % 32 IN IF s >= 22 THEN 0 ELSE 1024 * 2^s

\* What a 4-byte field read at byte o of the group descriptor buffer
\* returns: descriptor o \div ds at offset o % ds, the zero tail of the
\* last descriptor block, or bytes past the buffer.
DescBytes(m, o) ==
  IF o + 4 > m.gdt_bytes THEN "past_buffer"
  ELSE IF o \div m.desc_size >= m.groups_count THEN "zero"
  ELSE <<o \div m.desc_size, o % m.desc_size>>

(***************************************************************************)
(* ext4_read_inode.  InodeAccess is where it reads: the group and index of *)
(* inode n, the descriptor fields holding the inode table location, the    *)
(* block of the table and the byte range it copies out of that block.     *)
(***************************************************************************)
InodeIndexFromNumber(m, n) ==
  LET ipg   == m.inodes_per_group
      group == (n - 1) \div ipg
      index == n % ipg
      at    == GroupDescSize * group
  IN  [inode |-> n, group |-> group,
       lo |-> DescBytes(m, at + BgInodeTableLo),
       hi |-> DescBytes(m, at + BgInodeTableHi),
       block |-> (index * m.inode_size) \div m.block_size,
       copy_from |-> (index * m.inode_size) % m.block_size,
       copy_len |-> m.inode_size]

InodeAccess(m, n) ==
  LET ipg   == m.inodes_per_group
      group == (n - 1) \div ipg
      index == (n - 1) % ipg
      at    == GroupDescSize * group
  IN  [inode |-> n, group |-> group,
       lo |-> DescBytes(m, at + BgInodeTableLo),
       hi |-> DescBytes(m, at + BgInodeTableHi),
       block |-> (index * m.inode_size) \div m.block_size,
       copy_from |-> (index * m.inode_size) % m.block_size,
       copy_len |-> m.inode_size]

\* A call's result: the heap after it, its return value, whether it
\* trapped, and the accesses it made (NULL when it returned before them).
Result(h, st, acc) == [heap |-> h, status |-> st, trap |-> FALSE, acc |-> acc]
Trapped(h) == [heap |-> h, status |-> -1, trap |-> TRUE, acc |-> NULL]

\* The accesses of a read_inode that returned before its memcpy.
NoCopy(acc) == [acc EXCEPT !.copy_len = 0]

\* The outcomes of ext4_read_inode(fs, n, inode) on the heap h; g is the
\* slot of its block buffer.  A division by zero traps.
ReadInodeNoNumberCheck(h, m, n, g) ==
  LET acc == InodeAccess(m, n)
      buf == Obj("block_buffer", g)
  IN  IF m.inodes_per_group = 0 THEN {Trapped(h)}
      ELSE IF acc.group >= m.groups_count THEN {Result(h, -1, NULL)}
      ELSE UNION {IF a.ptr = NULL THEN {Result(a.heap, -1, NoCopy(acc))}
                  ELSE {Result(a.heap \ {buf}, -1, NoCopy(acc)),
                        Result(a.heap \ {buf}, 0, acc)}
                  : a \in Kmalloc(h, buf, m.block_size)}

ext4_read_inode(h, m, n, g) ==
  LET acc == InodeAccess(m, n)
      buf == Obj("block_buffer", g)
  IN  IF n < 1 THEN {Result(h, -1, NULL)}
      ELSE IF m.inodes_per_group = 0 THEN {Trapped(h)}
      ELSE IF acc.group >= m.groups_count THEN {Result(h, -1, NULL)}
      ELSE UNION {IF a.ptr = NULL THEN {Result(a.heap, -1, NoCopy(acc))}
                  ELSE {Result(a.heap \ {buf}, -1, NoCopy(acc)),
                        Result(a.heap \ {buf}, 0, acc)}
                  : a \in Kmalloc(h, buf, m.block_size)}

Init ==
  /\ disk \in Disks
  /\ heap = {}
  /\ pc = "idle"
  /\ gen = CHOOSE g \in Gens : TRUE
  /\ fs = [g \in Gens |-> NULL]
  /\ root = NULL
  /\ mounted = {}
  /\ held = {}
  /\ lastRead = NULL

\* Return from ext4_mount with the given heap.
\* Slots none of whose objects is allocated or held by the client.
FreeGens == {g \in Gens : g \notin held /\ \A o \in heap : o.gen # g}

Return(h) == /\ heap' = h
             /\ pc' = "idle"

(***************************************************************************)
(* ext4_mount, step by step                                                *)
(***************************************************************************)
MountAllocFs ==
  /\ pc = "idle"
  /\ root' = NULL
  /\ \E g \in FreeGens :
     \E a \in Kmalloc(heap, Obj("fs", g), 1) :
       /\ gen' = g
       /\ IF a.ptr = NULL THEN Return(a.heap)
          ELSE /\ heap' = a.heap
               /\ pc' = "alloc_sb"
  /\ UNCHANGED <<disk, fs, mounted, held, lastRead>>

MountAllocSb ==
  /\ pc = "alloc_sb"
  /\ \E a \in Kmalloc(heap, Obj("sb_buffer", gen), 1024) :
       IF a.ptr = NULL THEN Return(a.heap \ {Obj("fs", gen)})
       ELSE /\ heap' = a.heap
            /\ pc' = "read_sb"
  /\ UNCHANGED <<disk, gen, fs, root, mounted, held, lastRead>>

MountReadSbKeepingBuffer ==
  LET g   == gen
      h   == heap \ {Obj("sb_buffer", g)}
      bs  == BlockSizeOf(disk.log_block_size)
      bpg == disk.blocks_per_group
      gc  == (disk.blocks_count + bpg - 1) \div bpg
      ds  == IF disk.desc_size = 0 THEN 32 ELSE disk.desc_size
      gb  == (gc * ds + bs - 1) \div bs
  IN
  /\ pc = "read_sb"
  /\ \E ok \in BOOLEAN :
       IF ~ok THEN /\ Return(heap \ {Obj("fs", g)})
                   /\ UNCHANGED fs
       ELSE IF ~disk.magic_ok THEN /\ Return(h \ {Obj("fs", g)})
                                  /\ UNCHANGED fs
       ELSE IF bpg = 0 \/ bs = 0 THEN /\ heap' = h
                                      /\ pc' = "trap"
                                      /\ UNCHANGED fs
       ELSE /\ heap' = h
            /\ pc' = "alloc_gdt"
            /\ fs' = [fs EXCEPT ![g] = [block_size |-> bs, groups_count |-> gc,
                       inodes_per_group |-> disk.inodes_per_group,
                       inode_size |-> disk.inode_size, desc_size |-> ds,
                       gdt_blocks |-> gb, gdt_bytes |-> gb * bs]]
  /\ UNCHANGED <<disk, gen, root, mounted, held, lastRead>>

\* The superblock read, the magic check and the geometry of the fs.
MountReadSb ==
  LET g   == gen
      h   == heap \ {Obj("sb_buffer", g)}
      bs  == BlockSizeOf(disk.log_block_size)
      bpg == disk.blocks_per_group
      gc  == (disk.blocks_count + bpg - 1) \div bpg
      ds  == IF disk.desc_size = 0 THEN 32 ELSE disk.desc_size
      gb  == (gc * ds + bs - 1) \div bs
  IN
  /\ pc = "read_sb"
  /\ \E ok \in BOOLEAN :
       IF ~ok \/ ~disk.magic_ok THEN /\ Return(h \ {Obj("fs", g)})
                                    /\ UNCHANGED fs
       ELSE IF bpg = 0 \/ bs = 0 THEN /\ heap' = h
                                      /\ pc' = "trap"
                                      /\ UNCHANGED fs
       ELSE /\ heap' = h
            /\ pc' = "alloc_gdt"
            /\ fs' = [fs EXCEPT ![g] = [block_size |-> bs, groups_count |-> gc,
                       inodes_per_group |-> disk.inodes_per_group,
                       inode_size |-> disk.inode_size, desc_size |-> ds,
                       gdt_blocks |-> gb, gdt_bytes |-> gb * bs]]
  /\ UNCHANGED <<disk, gen, root, mounted, held, lastRead>>

MountAllocGdt ==
  /\ pc = "alloc_gdt"
  /\ \E a \in Kmalloc(heap, Obj("gdt", gen), fs[gen].gdt_bytes) :
       IF a.ptr = NULL THEN Return(a.heap \ {Obj("fs", gen)})
       ELSE /\ heap' = a.heap
            /\ pc' = "read_gdt"
  /\ UNCHANGED <<disk, gen, fs, root, mounted, held, lastRead>>

\* The loop over the descriptor blocks: it stops at the first failing read.
MountReadGdt ==
  /\ pc = "read_gdt"
  /\ \E ok \in BOOLEAN :
       IF ~ok THEN Return(heap \ {Obj("gdt", gen), Obj("fs", gen)})
       ELSE /\ pc' = "alloc_root"
            /\ UNCHANGED heap
  /\ UNCHANGED <<disk, gen, fs, root, mounted, held, lastRead>>

MountAllocRoot ==
  /\ pc = "alloc_root"
  /\ \E a \in Kmalloc(heap, Obj("root", gen), 1) :
       /\ root' = a.ptr
       /\ IF a.ptr = NULL
          THEN Return(a.heap \ {Obj("gdt", gen), Obj("fs", gen)})
          ELSE /\ heap' = a.heap
               /\ pc' = "create_root"
  /\ UNCHANGED <<disk, gen, fs, mounted, held, lastRead>>

\* ext4_create_vfs_node(fs, EXT4_ROOT_INO, *root_node) and what mount does
\* with its result.  On failure *root_node is freed but left set.
MountCreateRoot ==
  LET g    == gen
      info == Obj("info", g)
      Undo(h) == h \ {Obj("root", g), Obj("gdt", g), Obj("fs", g)}
  IN
  /\ pc = "create_root"
  /\ \E r \in ext4_read_inode(heap, fs[gen], EXT4_ROOT_INO, g) :
       /\ lastRead' = IF r.acc = NULL THEN lastRead ELSE r.acc
       /\ IF r.trap THEN /\ heap' = r.heap
                                    /\ pc' = "trap"
                                    /\ UNCHANGED <<mounted, held>>
          ELSE IF r.status # 0 THEN /\ Return(Undo(r.heap))
                                    /\ UNCHANGED <<mounted, held>>
          ELSE \E a \in Kmalloc(r.heap, info, 1) :
                 IF a.ptr = NULL THEN /\ Return(Undo(a.heap))
                                      /\ UNCHANGED <<mounted, held>>
                 ELSE /\ Return(a.heap)
                      /\ mounted' = mounted \cup {g}
                      /\ held' = held \cup {g}
  /\ UNCHANGED <<disk, gen, fs, root>>

(***************************************************************************)
(* The client's other calls                                                *)
(***************************************************************************)
\* ext4_unmount(root_node) for a root node the client holds.
ext4_unmount ==
  /\ pc = "idle"
  /\ \E g \in held :
       /\ heap' = IF g \in mounted
                  THEN heap \ {Obj("gdt", g), Obj("fs", g), Obj("info", g)}
                  ELSE heap
       /\ mounted' = mounted \ {g}
  /\ UNCHANGED <<disk, pc, gen, fs, root, held, lastRead>>

\* The client frees the root node of a filesystem it has unmounted.
ReleaseRoot ==
  /\ pc = "idle"
  /\ \E g \in held \ mounted :
       /\ heap' = heap \ {Obj("root", g)}
       /\ held' = held \ {g}
  /\ UNCHANGED <<disk, pc, gen, fs, root, mounted, lastRead>>

\* ext4_read_inode on a mounted filesystem, as every node operation does.
ReadInodeCall ==
  /\ pc = "idle"
  /\ \E g \in mounted, n \in InodeNums :
       \E r \in ext4_read_inode(heap, fs[g], n, g) :
         /\ ~r.trap
         /\ heap' = r.heap
         /\ lastRead' = IF r.acc = NULL THEN lastRead ELSE r.acc
  /\ UNCHANGED <<disk, pc, gen, fs, root, mounted, held>>

Next ==
  \/ MountAllocFs
  \/ MountAllocSb
  \/ MountReadSb
  \/ MountAllocGdt
  \/ MountReadGdt
  \/ MountAllocRoot
  \/ MountCreateRoot
  \/ ext4_unmount
  \/ ReleaseRoot
  \/ ReadInodeCall

Spec == Init /\ [][Next]_vars

(***************************************************************************)
(* Properties                                                              *)
(***************************************************************************)
TypeOK ==
  /\ heap \subseteq Objects
  /\ pc \in {"idle", "alloc_sb", "read_sb", "alloc_gdt", "read_gdt",
             "alloc_root", "create_root", "trap"}
  /\ gen \in Gens
  /\ root \in Objects \cup {NULL}
  /\ mounted \subseteq held
  /\ held \subseteq Gens
  /\ lastRead = NULL \/ lastRead.group \in Nat

\* Spec 4.2 and 5: a mount either fully succeeds or leaves nothing
\* allocated, and every scratch buffer is freed on every exit path.  Between
\* calls the heap holds exactly the fs handle, descriptor table and root
\* inode info of each mount not yet unmounted, and the root node of each
\* successful mount (the caller's); no superblock or block buffer survives.
MountAllOrNothing ==
  pc = "idle" =>
    heap = {Obj(k, g) : k \in {"fs", "gdt", "info"}, g \in mounted}
             \cup {Obj("root", g) : g \in held}

\* Spec 3 and 4.2: inode n lies in group (n-1) / inodes_per_group at byte
\* ((n-1) % inodes_per_group) * inode_size of that group's inode table.
\* ext4_read_inode takes the table's location from the lo/hi fields of that
\* group's descriptor (the hi part zero when 32-byte descriptors have none)
\* and copies from the block and offset holding that byte.  It is claimed
\* for disks with 64-byte descriptors only: with 32-byte descriptors and
\* more than one group, the 64-byte stride and hi offset of lines 113-116
\* read fields of other groups' descriptors for every inode, group 0's
\* included.
InodeLocated ==
  lastRead # NULL /\ disk.desc_size >= 64 =>
    LET ipg == disk.inodes_per_group
        grp == (lastRead.inode - 1) \div ipg
        pos == ((lastRead.inode - 1) % ipg) * disk.inode_size
    IN  /\ lastRead.lo = <<grp, BgInodeTableLo>>
        /\ lastRead.hi = <<grp, BgInodeTableHi>>
        /\ lastRead.copy_len > 0 =>
             lastRead.block * BlockSizeOf(disk.log_block_size)
               + lastRead.copy_from = pos

\* Every byte ext4_read_inode touches is inside its buffer: the descriptor
\* fields inside the descriptor table, the inode inside the block buffer,
\* and the memcpy inside the caller's ext4_inode_t.  No run checks it: the
\* memcpy of s_inode_size bytes (line 142) overflows the 128-byte struct at
\* the first read on every disk with 256-byte inodes.
ReadInodeInBounds ==
  lastRead # NULL =>
    /\ "past_buffer" \notin {lastRead.lo, lastRead.hi}
    /\ lastRead.copy_from + lastRead.copy_len <= BlockSizeOf(disk.log_block_size)
    /\ lastRead.copy_len <= InodeStructSize
====
