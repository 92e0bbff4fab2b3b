# TLA+ models of the FreeCore kernel

This directory holds TLA+ specifications of the FreeCore x86-64 kernel
(`src/`). They are checked with TLC. Each module is written from the C source
and keeps the C names. `PROJECT.json` lists:

- `map`: the lines each definition translates;
- `runs`: the checks;
- `mutants`: the seeded bugs each property must catch;
- `findings`: what the checks found;
- `hazards`: the behaviours of the code that are hard to test.

## 1. The system

| Part | Source | State | Operations |
|---|---|---|---|
| Kernel heap | `kernel/src/mm/kmalloc.c` | `kernel_heap[4 MB]` (`KERNEL_HEAP_SIZE`, 4 × 1024 × 1024 bytes) (a static arena tiled by 16-byte `alloc_header_t`s: size, magic, used), `heap_initialized`, `heap_used` | `kmalloc_init`, `kmalloc`, `kzalloc`, `kfree`, `krealloc`, `kmalloc_stats`; helpers `find_free_block` (first fit), `split_block`, `validate_block`, `merge_blocks` (right neighbour only) |
| String/memory library | `kernel/src/lib/minstd.c` | none | `memcpy`, `memset`, `strcmp`, `strtok_r`, ... |
| EXT4 reader | `unnamed/part_006` (`ext4.c`), `part_007` lines 1-746 (`ext4.h`) | per mount: `ext4_fs_t` (superblock, group descriptor table, block size); per node: `ext4_inode_info` | `ext4_mount`/`unmount`, `read_block`, `read_inode`, `read_extent_block`, `read_file_block`, `read_file_data`, `find_dir_entry`, and the VFS ops `open`/`close`/`read`/`readdir`/`finddir`/`stat` |
| VFS | `part_007` from line 748 (`vfs.c`), `part_008` (`vfs.h`) | `fd_table[256]`, `mount_table[32]`, `root_node` | `vfs_normalize_path`, `vfs_lookup`, `vfs_mount`/`unmount`, `vfs_open`/`close`/`read`/`write`/`lseek`/`readdir`/`stat`; the create/unlink/rename/... entry points call ops that ext4 does not provide |
| Block device | `part_009` | ops table only | no device is implemented in the repository |
| Driver registry | `part_001`, `drivers/driversys.h` | `device_registry` (drivers per class, counts) | `device_driver_register` (calls probe), `unregister` (shifts the slots), `find`, `enumerate` |
| PS/2 keyboard | `arch/x86/kernel/idt.c` | `kb_buffer[32]`, head, tail, count, modifier flags | IRQ1 handler `kb_buffer_add`; main-context `kb_buffer_get`, `keyboard_get_char` |
| PS/2 mouse | `arch/x86/mouse.c`, `part_005` | 3-byte packet, index, `mouse_state` | IRQ12 handler `ps2_mouse_interrupt`, `process_mouse_packet` |
| Console | `kernel/src/kernel/config.h` (`io_init`, `kputs`, `kprintf`, `kerr`, `kvsnprintf`, `int_to_string`), `arch/x86/serial.c`, `part_002` (`kmain`) | `io_initialized`, a 1024-byte buffer per call, the UART's registers | `kmain`'s boot messages and echo loop; `serial_init`, `serial_write_char`, `serial_read_char` |
| GDT/IDT/TSS | `gdt.c`, `idt.c`, `*.asm`, `part_003`, `part_004` | descriptor tables | one-time boot setup |

**How the parts interact.**

- The heap serves everything else:
  - `ext4_mount` allocates the fs, superblock buffer, descriptor table, root node and inode info;
  - every `ext4_finddir` allocates a fresh `vfs_node` and inode info;
  - reads allocate block buffers and free them again.
- The VFS reaches the file system only through each node's ops table:
  - `vfs_lookup` calls `finddir` once per path component;
  - it follows `mount_point` on the node it gets back.
- `kmain` prints through `kprintf`, which formats into its buffer and writes each character with `serial_write_char`, spinning on the UART's THRE bit; the UART sends at its own pace, and a terminal may type at any time.
- The keyboard and mouse handlers run in interrupt context, against code in the main context that reads the same buffers.
- Nothing else runs concurrently:
  - the kernel is single-core;
  - it has no scheduler.

**Hard behaviours** (`PROJECT.json` hazards):

- size arithmetic that wraps:
  - kmalloc rounding;
  - ext4 block size;
  - the read clip;
- the free-block layout depending on the order of frees;
- header checks that miss stale pointers;
- error paths of a mount that allocates five objects and reads the device several times;
- on-disk structures trusted without bounds checks:
  - `rec_len`;
  - `eh_entries`;
  - `s_inode_size`;
  - the descriptor stride;
- nodes that leak on every lookup;
- mounts recorded on nodes nobody else sees;
- a lost update on the keyboard count between the IRQ handler and the main loop;
- the shift bit set by the main loop and cleared by the IRQ handler, in different orders;
- mouse packet boundaries when the device's answers to the init's and the remove's commands reach the installed IRQ12 handler;
- a driver registered twice, half of it unregistered;
- the order of `serial_init`'s port writes around DLAB, busy waits on the UART's status bits, and messages cut at the buffer's size.

The keyboard and mouse drivers are written for delivered IRQs. The tree
never delivers them: `idt_init` fills gates 0-31 only, nothing remaps the PIC
or executes `sti`, and `kmain` calls neither driver. The models take the
drivers' own premise, that IRQ1 and IRQ12 reach the registered handlers.

## 2. Modules

### `Kmalloc.tla`: the kernel heap (modelled)

The arena is modelled at header granularity. `heap.kernel_heap` maps every
16-byte-aligned offset to a header record `[size, magic, used]`. Bytes that
no header covers are left out, because no property reads payload contents.

- **Magic values.** `ALLOC_MAGIC` and a cleared magic are strings, because TLC's integers are 32-bit.
- **`size_t` arithmetic.** It is taken modulo `2^SizeBits`, so the wrap at `kmalloc.c:141` is visible.

The C functions are pure operators from a heap to `<<heap, result>>`:

- `find_free_block`;
- `split_block`;
- `validate_block`;
- `merge_blocks`;
- `kmalloc`;
- `kzalloc`;
- `kfree`;
- `krealloc`;
- `kmalloc_stats`.

`krealloc` calls `kmalloc` and `kfree` exactly where the C does. `kzalloc`'s
`memset` is `ZeroPayload`: it clears the headers that lie inside the payload,
and a partial clear of a header (`ClearPrefix`) clears its size bytes before
its magic and its used byte.

A walk that meets a block of size 0 loops forever in C. There it returns
`Hang`, and the call's action is disabled. That is why the overflow run shows
the undersized block instead of a stuck state.

The caller side:

- **Client variables.** `live` (pointer → requested size) and `freed` (pointers once returned, now freed) belong to the client, not to the heap.
- **Actions.** Each action (`KmallocInitCall`, `KmallocCall`, `KzallocCall`, `KfreeCall`, `KreallocCall`) performs one whole call with a requested size from `Requests`.
- **Arguments.** `kfree` and `krealloc` are also called with `NULL`, with freed pointers (double and stale frees) and, for `krealloc`, with a size of 0. `krealloc` gets a freed pointer only when `ReallocStale` is TRUE. Every run keeps it FALSE; with it TRUE, `LiveBlocksExact` fails (the hazard at `kmalloc.c:283`).

### `HeapSpec.tla`: what the heap promises (modelled)

The abstract allocator has no blocks, only `allocs`: pointer → `[req, cap]`.

- **Allocate** either fails or hands out a fresh aligned region that is disjoint from every live one and has at least the requested capacity.
- **Release** removes a live pointer.
- **Resize** does one of three things:
  - keeps the region in place when the size fits;
  - moves to a fresh region;
  - fails, leaving the old region untouched.

`Kmalloc` refines it through the mapping `allocs <- [p ∈ DOMAIN live |-> [req |-> live[p], cap |-> kernel_heap[p-16].size - 16]]`.
Ext4Mount calls this abstract allocator. Ext4Dir and Vfs count allocations on
a heap of `HEAP_SLOTS` instead, because their question is what stays allocated.

### `Ext4Mount.tla`: mount, unmount and inode resolution (partly modelled)

**Allocator and device.**

- **Abstract allocator.** The allocator is the abstract one of `HeapSpec`, seen through object identities. An object is the role it plays for one mount (`fs`, `sb_buffer`, `gdt`, `root`, `info`, `block_buffer`) together with a slot in `Gens`.
- **`Kmalloc`.** It returns NULL for size 0, and may fail any other request.
- **Device reads.** Every device read may fail.

**Steps of `ext4_mount`.** It is modelled as one action per stretch of code between two calls that can fail, each with that call's error path. The order is:

1. `MountAllocFs`
2. `MountAllocSb`
3. `MountReadSb` (read, magic, geometry)
4. `MountAllocGdt`
5. `MountReadGdt`
6. `MountAllocRoot`
7. `MountCreateRoot` (`ext4_create_vfs_node`, with `ext4_read_inode` of inode 2 and the info allocation)

`pc` forces the order, and no other call runs while a mount is in progress. The kernel is single-threaded (spec section 5).

**Client calls.**

- `ext4_unmount`;
- `ext4_read_inode` on a mounted filesystem (`ReadInodeCall`, standing for every node operation that reads an inode);
- the client's own `kfree` of a root node it no longer uses (`ReleaseRoot`).

**`ext4_read_inode`.**

- **Outcomes.** It is an operator returning the set of outcomes (heap after it, status, trap, accesses).
- **`InodeAccess`.** It gives where the code reads: the group and index arithmetic, the descriptor bytes read, the block of the inode table, and the copied byte range.
- **`DescBytes`.** It resolves a byte offset of the in-memory descriptor table against the on-disk layout (`s_desc_size`-byte descriptors) into one of three results:
  - a descriptor and field offset;
  - the zero tail of the last block;
  - bytes past the buffer.
- **Division by zero.** It is the terminal state `pc = "trap"`.
- **Geometry arithmetic.** The arithmetic is exact. The model disks are far from the 32-bit limits, and `1024 << log` is modelled as the x86 32-bit shift.

**`MCExt4Mount`** disks:

| Disk | Why |
|---|---|
| three groups of 64-byte descriptors, 1 KiB blocks, 4 or 16 inodes per group | a group's inode table spans two blocks |
| the same with 4 KiB blocks | |
| one group of 32-byte descriptors | |
| three groups of 32-byte descriptors, 256-byte inodes | the layout of `mkfs.ext4` without the 64bit feature: the descriptor stride and the inode copy go wrong here |
| an empty disk | no groups, so kmalloc(0) |
| a bad magic | |

- **Inodes** are 0, 2, 4, 5, 9 and 13. They cover:
  - an invalid number;
  - the root;
  - group boundaries;
  - a second table block;
  - a number past the last group.
- **Slots.** Two slots allow two mounts at once and remounts after unmount.

The trap branches (a zero divisor in the superblock) are in the model, but no
run loads such a disk; see the hazards at `ext4.c` lines 471 and 477.

### `Ext4File.tla`: extent lookup and file reads (modelled)

It models the three functions `ext4.h` exports for reading a file's contents
(`part_006`, lines 156-363). Each call is one step, `ReadExtentCall`,
`ReadFileBlockCall` or `ReadFileDataCall`, and it records its outcome in
`last`. `heap` holds the scratch buffers still allocated.

- **Entries** are their three 32-bit words. `EiLeaf` and `EeStart` read the
  same words as `ext4_extent_idx_t` or `ext4_extent_t`, as the union does.
  Block numbers stay below 2^16, so the `_hi` halves are zero.
- **Nodes.** A node in the extent buffer is a `View`: its header, its stored
  entries, and `avail`, the number of entries the initialised bytes hold
  (4 for the 60 bytes copied from `i_block`, `(block_size-12)/12` for a node
  read from disk). An entry at or past `avail` is an out-of-bounds read (`oob`).
- **`SelectFrom` / `ScanFrom`** are the index search and the leaf scan as
  recursive operators. **`Walk`** is the depth loop. The child block read may
  fail, a child without the magic fails, and every exit frees the buffer.
- **`DataLoop`** is the block loop of `ext4_read_file_data`. A copy records
  its destination offset, its source (a physical block, or zeros past EOF),
  the offset in the block and the length. `uint64_t` arithmetic is taken
  modulo `2^Width`.
- **Failures.** `kmalloc` and each device read may fail (`faults`).

The reference is `RefPhys(f, b)`. It is the physical block of the leaf extent
covering `b`, collected from the whole tree (`LeafExtents`), independently of
the walk. `Content(f, b)` is what the caller's buffer should receive.

`MCExt4File.tla` has 1 KiB blocks, `Width` 20 and six inodes:

1. the spec's example, `{0, 10, 500}`;
2. a two-level tree, with an index whose entries point to two leaf blocks;
3. a file with a hole at block 1;
4. an inode without the extents flag;
5. a root with a bad magic;
6. a full root of four extents.

Logical blocks run over 0..10. Offsets cover a block's first byte, its middle
and its last byte, a block boundary and EOF. Sizes are 0, 1, 50, one block and
three blocks.

### `Keyboard.tla`: the IRQ1 handler against `ps2_keyboard_get_char` (partly modelled)

There are two actors, and the user who types.

- **The handler.** `KeyboardInterrupt` is one run of `keyboard_handler`:
  - it reads the next byte the keyboard sent;
  - a shift release clears the shift bit;
  - then it calls `kb_buffer_add`.

  It is one step because it runs through an interrupt gate and the PIC holds IRQ1 until the EOI.
- **The caller.** `ps2_keyboard_get_char` is split where the handler can come between two of its accesses to `kb_buffer`:
  - `GetCharWait` is the spin on `ps2_keyboard_available`;
  - `BufferGetRead` is `kb_buffer_get` up to the tail advance;
  - `BufferGetDecrement` is the store of `count - 1`;
  - `ConvertScancode` is `ps2_scancode_to_ascii` and the loop test.
- **The non-atomic decrement.** `count` is a plain `size_t`, so a build may store the value loaded at line 258 minus one, or reload it. `BufferGetDecrement` allows both.
- **Data abstraction.** The ring holds event numbers, so properties can say which byte was read. A scancode is a key code plus the release bit. The keys are left shift and the A key (`Ascii` holds the two table entries used); other keys add no new control flow.
- **Ghost variables.** `sent`, `accepted`, `consumed` and `out` record each byte's path.

`MCKeyboard` has a 2-slot ring, so the full-ring drop happens. It has 4 bytes from the keyboard, enough to press and release shift around a letter.

**Fairness.** `FairSpec` adds weak fairness to `KeyboardInterrupt`: the controller raises IRQ1 while a byte waits. It also adds weak fairness to the caller: a caller inside `ps2_keyboard_get_char` keeps running, because nothing else runs in the main context. The user is not fair and may stop typing. Deadlock checking is off for the keyboard runs: once the user stops and the ring is empty, the caller spins in `GetCharWait` forever, as the code does.

### `PS2Mouse.tla`, `DriverRegistry.tla`, `Drivers.tla`: the driver registry and the mouse (modelled / partly modelled)

- **`DriverRegistry`.** `device_driver_register`, `device_driver_unregister` and `device_driver_find` over one slot sequence per class and the drivers' `state` fields:
  - register takes a slot before the probe;
  - a failed probe leaves the driver in its slot in state ERROR;
  - unregister removes the first slot holding the driver, shifts the rest and marks it UNLOADED.
- **`PS2Mouse`.** Covers the following:
  - `ps2_mouse_init` as steps:
    1. `InitStart`: the controller setup that clears the state and enables IRQ12 (lines 321-338), while the device may still be streaming.
    2. `InitReset`: RESET. The device drops its packet, stops reporting and queues its answers. `Replies(r)` gives them for the check `r` at which the init stops: ACK, self-test, ID, the two probes' ACKs and IDs, then DEFAULT's, ENABLE's, the sample rate's and the resolution's ACKs.
    3. `InitReply`: one step per answer. Each answer raises IRQ12, so an installed `mouse_handler` runs `ps2_mouse_interrupt` on it. The poll then times out and reads port 0x60's last byte again, so the init's course is the same either way. The probes' verdicts set `has_scroll_wheel`, `has_5_buttons` and `mouse_packet_size` when their ID is read.
    4. `InitEnd`: the return. After a success the device reports and `mouse_handler` is installed.
  - `ps2_mouse_remove_driver`, which sends DISABLE. Its ACK goes to the handler too.
  - `ps2_mouse_interrupt` and `process_mouse_packet`, including the int8 movement conversion, the overflow bits and the clamp.

  The device streams each packet one byte at a time. Each byte is a step in which IRQ12 runs the handler. The registration of `mouse_handler` and the IRQ12 enable bit are never undone. NAK retries are left out: the answers are ACKs or the error byte 0xFC.
- **`Drivers`.** Composes the two with `INSTANCE`:
  - registering the mouse starts `ps2_mouse_init` as its probe (`device_driver_register_begin`: slot taken, INITIALIZING). `MouseProbeStep` and `MouseProbeReturn` are the probe's steps and its return (`device_driver_probe_returned`). No other register or unregister call runs meanwhile, but the device's bytes arrive between any two steps;
  - unregistering it runs the remove callback;
  - ext4's probe (`ext4_init`) succeeds or fails;
  - a driver without a probe is READY at once.

  As in the code, a driver may be registered while it is registered.

`MCDrivers` has four drivers:
- the mouse, `input_a` (with a probe) and `input_b` (without one), which compete for two input slots, so the class-full path is taken;
- ext4, alone in the storage class.

A standard mouse sends two packets. Each is drawn from buttons {0, 1} and movements {0, 200}. 200 is sent as byte 0xC8, which has the always-1 bit set, so a misaligned movement byte would pass the first-byte check.

### `MCKmalloc.tla`: model values for TLC

| Definition | Value | Why |
|---|---|---|
| `MCHeapSize` | 112 | Seven header slots: room for three allocations, splits, merges and out-of-memory failures. |
| `MCRequests` | `{0, 1, 17, 40}` | 0 is the error path. 1 and 17 round to one and two 16-byte units. 40 is large enough to fill most of the arena. |
| `SizeBits` in the main runs | 16 | No request comes near the wrap. |

A 96-byte arena leaves too little room for splits (703 states). A 128-byte
arena gives 630k states and takes over three minutes.

### `MinStd.tla`: the string functions path handling uses

`strspn`, `strcspn`, `strrchr` and `strtok_r` of `minstd.c` on strings kept as
sequences of one-character strings. A pointer is a 1-based index and NULL is 0.
`strtok_r` returns the token and the new `*saveptr`. `Tokens` is the loop
`while ((t = strtok_r(rest, "/", &rest)))`. `Fields`, the maximal runs of
non-delimiters, is the reference that the Vfs properties resolve paths with.

### `Ext4Dir.tla`: directory scans and VFS nodes of the EXT4 reader (modelled)

The image is a constant: `Image[fs][ino]` is `[mode, size, blocks]`, and a
directory block maps entry offsets to `[inode, rec_len, name, stale]`. A
*stale* entry is a deleted one whose space the previous entry's `rec_len` took
over: its bytes are still in the block, but the chain steps over it.

A call threads a context `c = [heap, io, fault, made]` through pure operators:
- `heap` counts live allocations, and `CanAlloc` fails when `HEAP_SLOTS` are used;
- `io` counts down to the device read that fails;
- `fault` records that a kmalloc or device read failed;
- `made` counts the nodes `ext4_finddir` built.

Operators:
- `ScanName` and `FindInBlocks` are the two loops of `ext4_find_dir_entry`.
- `ScanIndex` and `ReaddirBlocks` are those of `ext4_readdir`. `entry_idx` runs on across blocks.
- `ext4_create_vfs_node` reads the inode, allocates the info and maps the mode to a VFS type.
- `ext4_finddir` allocates the node and frees it if creation fails.
- `ext4_read` returns 0 at EOF, the clipped count, or -1.

### `Vfs.tla`: the VFS over EXT4 (partly modelled)

State: `rootn` (`root_node`), `mtab`, `fdt`, `heap` and `created`. A
`vfs_node` is a record `[fs, ino, type, size, mp]`, stored where it is
referenced. A node `ext4_finddir` returns that the caller drops is not kept,
but its two allocations stay on the heap. A call is one step, because the
kernel is single-threaded.

Actions, each with every early return of the C function:
- `vfs_mount`, `vfs_unmount`, `vfs_stat` (a lookup);
- `vfs_open`, `vfs_close`, `vfs_read`, `vfs_lseek`;
- `Readdir` (`vfs_readdir`);
- `vfs_mkdir`, which stands for `vfs_rmdir`, `vfs_create` and `vfs_unlink`. These differ only in the missing ext4 operation they look for.

`vfs_normalize_path` and `vfs_lookup` follow the C through `strtok_r`, `strrchr`,
the length checks and the `mount_point` step. `U` reduces `size_t`/`uint64_t`
arithmetic modulo `2^Width`.

The reference `RefResolve` walks the image by `Fields` of the path. It applies
"." and "..", takes the live entries of each directory (`Live`), and enters
the filesystem mounted at each prefix.

### `MCVfs.tla`

Blocks are 36 bytes, so three 12-byte entries fit in each.
- fs1's root has two blocks: `.`, `..`, `a` in the first; a deleted entry, `f` (whose `rec_len` of 24 took over a stale `g`) in the second.
- `a` holds `b`.
- fs2's root holds `h`.

The paths cover:
- a two-level path, relative (`a/b`);
- a name that exists only as a stale entry;
- a walk through a file;
- `..` and `.`;
- a relative path;
- repeated slashes.

The absolute `/a/b` and a path too long for `MAX_PATH_LENGTH` = 8 are left out
of the pass run. `/a/b` takes the same finddir steps as `a/b`, and a long path
adds only the early return of `vfs_normalize_path`. `Indices` = {3}: index 3
is the end of `a` and an entry of the root's second block, so one index
exercises both the hit across blocks and the -1 past the last entry. These
trims keep the run within its time limit with TLC's coverage on. Most of the
20,203 states are descriptor positions: after a failed read, each retry
moves the position down by one.

`HEAP_SLOTS` = 9 leaves room for two leaked nodes after the filesystem's own
four allocations, so every lookup eventually runs out of memory.

### `Format.tla`: `kvsnprintf` and `int_to_string` (modelled)

Pure operators on character sequences (a character is a one-letter string).
`Digits` fills from the least significant end as `tmp` is filled backwards;
`Padded` adds the sign and then the padding before it (so `%05d` of -42 is
`00-42`, as the code produces) and copies while `out_len < size - 1`. `Fmt`
is the `for` loop of `kvsnprintf`: a regular character is copied, a directive
is parsed by `Directive` (the `0` flag), `WidthFrom` (the width digits) and
`LengthMod` (`l`, `ll`), and `Converted` is the `switch`; `Put` appends while
`out_idx < size - 1`. A read past the format's end meets NUL, one outcome of
that read. `RefSnprintf` is the reference: what C's `snprintf` makes of the
directives `kmain` uses, numbers printed by TLC's `ToString`.

### `Serial.tla`: the serial driver and the 16550 (partly modelled)

The UART is the environment, as its datasheet describes it: `Outb` routes
offsets 0 and 1 to the divisor latches while DLAB is set, to the transmit
FIFO and IER otherwise; FCR's clear bits empty the FIFOs; a byte into a full
FIFO is lost; `Lsr` has the data-ready and THRE bits; in loopback, `Shift`
moves transmitted bytes to the receiver. `SerialInitWrites` is
`serial_init`'s seven writes in the code's order. `CanWrite` and `CanRead` are
the wait loops of `serial_write_char` and `serial_read_char`: the loop's exit
condition is the guard of the step that writes or reads.

### `Console.tla`: `kmain`, `kprintf` and the UART (partly modelled)

State: `uart`, `wire` (what the UART has sent), `init` (`serial_init`'s
writes still to do), `out` (the characters the running call has still to
write), `prog` (the calls `kmain` has still to make), `said` (every call's
text, in order), `typed`, and `io_initialized`.

- `Kmain(b)` is `kmain`'s call sequence for a bootloader answer `b`: the base
  revision (else `kerr` and `hcf`), the bootloader info, the framebuffer
  (else `kerr` and `hcf`), the framebuffer line, and the echo loop. Plain text
  is shortened to one letter per run (`"Initializing GDT... "` is `"G"`);
  directives, arguments and newlines are kept.
- `IoInit` is `io_init`: unless `io_initialized`, it queues `serial_init`'s
  writes and the banner, which goes out raw through `serial_write_string`.
- `Kprintf` and `KerrCall` format the whole buffer in one step (formatting
  touches no shared state) and queue `kputs` of it; `kputchar` adds `\r`
  after each `\n` (the code writes LF then CR, not the `\r\n` its comment
  says). `kerr` first queues `"[ERROR] "`.
- `InitWrite` is one port write of `serial_init`; `WriteChar` writes one
  character once THRE is set; `Echo` is one turn of the echo loop.
- `Transmit` (the UART sending a byte) and `Type` (the terminal sending a
  key, at most `MAX_TYPED` times) are the environment.

Fairness: `WF_vars(Kernel)`, because the CPU runs only `kmain` (the UART's
interrupts stay off and nothing is scheduled), and `WF_vars(Transmit)`,
because the UART empties its FIFO at the line's rate. The terminal is not
fair: it need not type.

### `MCConsole.tla`

Three bootloader answers: an unsupported base revision, no framebuffer, and a
full boot whose bootloader name and version (`Limine 10.0.3`) do not fit the
buffer. `BUF_SIZE` = 14 stands for the 1024 bytes: it is the size at which the
shortened framebuffer line (`F640x480,32P\n`, 13 characters) just fits and
the bootloader line is cut, as a 1010-character name would be in the code.
Two UARTs: the power-on state (all zero, FIFO off, so a key typed before
`serial_init` is held in a one-byte receiver and then cleared by FCR) and one
the firmware already programmed. Keys `\r` (echoed with `\n`) and `k`, at
most 2 of them; FIFOs of depth 2. `CHECK_DEADLOCK FALSE`: `kmain` ends in
`hcf`'s `hlt` loop or waiting for a key.

## 3. Runs

| Run | Cfg | Checks | Result |
|---|---|---|---|
| `kmalloc_safety` | `MCKmalloc.cfg` | `TypeOK`, `HeapTiled`, `LiveBlocksExact`, `HeapUsedAccurate`, `NoSilentHeapChange`, `HeapRefinement` | pass (about 36.6k distinct states) |

What the properties say:

- **`HeapTiled`**: the walk from offset 0 passes valid headers of size ≥ 16 and ends exactly at the end of the arena. This is what every later `find_free_block`, `merge_blocks` and `kmalloc_stats` relies on.
- **`LiveBlocksExact`**: the client's live pointers are exactly the used blocks on the walk, and each block holds the bytes asked for. This rules out a double hand-out and a block smaller than the request.
- **`HeapUsedAccurate`**: `kmalloc_stats` reports used and free bytes equal to the sums over the walk. `heap_used` is charged and credited in two different functions.
- **`NoSilentHeapChange`**: a step that changes the heap after initialisation changes what the client holds. A `kfree` of a stale or double-freed pointer, or a failing `krealloc`, must leave the heap unchanged.
- **`HeapRefinement`**: every behaviour is one of `HeapSpec`'s.
- **`FreeNeighboursMerged`**: spec section 8's coalescing property. No run checks it. With `MCKmalloc.cfg`'s constants it is violated by a `kmalloc`, then a `krealloc` that moves and frees the left block, then a `kfree` of the right one, which leaves two adjacent free blocks. Its violation run was given up for `drivers_mouse_answers`: two `kfree` calls in a unit test show this bug, but hardly the mouse race.

Each property of the passing run has a mutant in `PROJECT.json` that breaks
it. The mutants are:

- returning the header address;
- splitting without the minimum remainder;
- rounding down;
- crediting the merged size;
- dropping the double-free check;
- merging into a used neighbour.

| Run | Cfg | Checks | Result |
|---|---|---|---|
| `ext4_mount_safety` | `MCExt4Mount.cfg` | `TypeOK`, `MountAllOrNothing`, `InodeLocated` | pass (3,958 distinct states) |

What the Ext4Mount properties say:

- **`MountAllOrNothing`**: between calls, the heap holds exactly three things:
  - the fs handle, descriptor table and root info of every mount not yet unmounted;
  - the caller's root nodes;
  - no scratch buffer.

  This is spec section 5's "freed on every exit path", over every combination of allocation and read failures.
- **`InodeLocated`**: on disks with 64-byte descriptors, inode n is read from its own group's descriptor fields, at the block and offset where byte `((n-1) % ipg) * inode_size` of that group's table lies. It is not claimed for 32-byte descriptors. On the three-group disk with 32-byte descriptors, the 64-byte stride and the hi offset 40 read another group's fields for every inode, group 0's included (group 0's hi is group 1's lo). Without the scope, TLC reports this at the first read of that disk.
- **`ReadInodeInBounds`** (in `Ext4Mount`, not checked by a run): every byte read or written lies inside its buffer. On the disk with 256-byte inodes, the memcpy into the 128-byte `ext4_inode_t` (line 142) violates it at the first read.

| Run | Cfg | Checks | Result |
|---|---|---|---|
| `ext4_file_read` | `MCExt4File.cfg` | `TypeOK`, `ScratchFreed`, `BlockLookupCorrect`, `ReadFileDataCorrect`, `ExtentReadsInBounds` | pass (545 distinct states) |

What the Ext4File properties say:

- **`ScratchFreed`**: every path of the three functions frees the buffer it allocated. This includes the error exits inside the depth loop and the block loop.
- **`BlockLookupCorrect`**: when nothing fails, the lookup succeeds exactly for the blocks some leaf extent covers, and returns `ee_start + (b - ee_block)`. The block read zero-fills past `ceil(size / block_size)`.
- **`ReadFileDataCorrect`**: a successful read returns `min(size, i_size - offset)` bytes, or 0 at EOF. The copies tile the buffer from 0. Each copy takes file byte `offset + dst` from the right block, at the right offset.
- **`ExtentReadsInBounds`**: the walk reads only the entries the buffer holds.

The keyboard, the mouse and the registry:

| Run | Cfg | Checks | Result |
|---|---|---|---|
| `keyboard_getchar` | `MCKeyboard.cfg` | `TypeOK`, `NoPhantomScancode`, `GetCharReturns` (under `FairSpec`) | pass (4293 distinct states) |
| `keyboard_count_race` | `MCKeyboard_count_race.cfg` | `EveryKeyRead` (under `FairSpec`) | violation, in 12 steps. The caller loads `count` = 1. Two bytes arrive and the handler stores one (`count` = 2). The caller stores 0. The second byte stays in the ring, unread forever. |
| `keyboard_stuck_shift` | `MCKeyboard_stuck_shift.cfg` | `CaseFollowsShift` | violation in 14 steps. Shift and A are pressed, and shift is released. The handler clears the shift bit when the release arrives. The caller converts shift, setting the bit, and the handler's next run clears it again. The caller then converts A with the bit clear and returns "a" for a shifted key. The opposite order, a press converted after its release was handled, leaves shift stuck on. |
| `drivers_mouse` | `MCDrivers.cfg` | `TypeOK`, `LoadedDriversFound`, `ReportingOnlyWhileLoaded` | pass (427,682 distinct states, about 25 seconds) |
| `drivers_mouse_answers` | `MCDrivers_reinit.cfg` | `PacketsAligned` | violation in 33 steps, with the device sending no packet at all (`MaxPackets` = 0). The first init succeeds and installs `mouse_handler`. The mouse is registered again, and the second init's RESET answers ACK (0xFA), 0xAA and 0x00. The handler takes all three and processes them as a packet. |

What these properties say:

- **`NoPhantomScancode`**: `kb_buffer_get` returns only bytes the handler stored, each at most once, however the handler interleaves with the count update.
- **`GetCharReturns`** (liveness): a caller that found a key waiting leaves `ps2_keyboard_get_char`.
- **`EveryKeyRead`** (liveness): every byte stored is eventually returned to a caller that keeps calling. It is violated by the lost update.
- **`CaseFollowsShift`**: a returned letter is upper case exactly when shift was held when it was typed. It is violated by the order of the set and the clear, and also by a shift press dropped on a full ring.
- **`PacketsAligned`**: every packet `process_mouse_packet` handles is one packet of the device, whole. It is violated: the device's answers to commands reach the installed handler. With packets allowed, the shortest trace is a remove in the middle of a packet, whose DISABLE ACK completes that packet.
- **`LoadedDriversFound`**: a driver that is INITIALIZING, READY or ERROR is found by `device_driver_find`. The converse does not hold: register, register again and unregister leave a driver UNLOADED that is still found. The run slots went to races a unit test cannot reach, so no run shows that violation.
- **`ReportingOnlyWhileLoaded`**: the mouse streams only while its driver is INITIALIZING or READY. Every path out of those states stops the device first: the RESET of a failing re-init, and the DISABLE of an unregister. `mouse_handler` and IRQ12 are never turned off.

The mutants:
- a full-ring check off by one;
- a `kb_buffer_get` that never decrements;
- the `get_char` loop without its `available()` test;
- a class-full check off by one;
- an unregister that drops the last slot instead of shifting;
- a remove that leaves reporting on.

The VFS over EXT4:

| Run | Cfg | Checks | Result |
|---|---|---|---|
| `vfs_ext4` | `MCVfs.cfg` | `TypeOK`, `LookupResolvesTree`, `ReaddirEnumerates`, `ScratchFreed` | pass (20,203 distinct states, about 1.5 minutes; under 4 with coverage) |
| `vfs_mount_lost` | `MCVfs_mount.cfg` | `MountedTreeVisible` | violation in three calls: mount fs1 at `/`, mount fs2 at `/a`, and a lookup of `/a` returns fs1's directory |
| `vfs_leak_read` | `MCVfs_leak_read.cfg` | `ReadOnlyPositionInFile` | violation with no device failure: the lookups of earlier calls and of `open("/f")` leak two allocations each, and the read's buffer cannot be allocated; `-1` moves the position from 0 to `2^Width - 1` |

What these properties say. Lookups and readdirs are judged in every state, for
every path, index and failing read:

- **`LookupResolvesTree`**: a lookup that no failure cut short, and that crosses no mount, returns the inode the directory tree leads to, or NULL. This covers normalisation, the `rec_len` chain over every block, and the type check.
- **`ReaddirEnumerates`**: `vfs_readdir(p, i)` returns the i-th live entry across blocks, or -1 past the last one.
- **`ScratchFreed`**: between calls the heap holds only the mounted filesystems and two allocations per node `ext4_finddir` built. Every directory, block and extent buffer is freed on every path. The leak itself is counted in `created`.
- **`MountedTreeVisible`**: the same lookup property, through mounts. It is violated: the mount is recorded on a throwaway node, and `root_node`'s `mount_point` is never followed.
- **`ReadOnlyPositionInFile`**: a read-only descriptor's position never passes the end of its file. It is violated by the `-1` of a failed read.

The mutants:
- kmalloc succeeds on a full heap;
- the entry scan steps a fixed 12 bytes instead of `rec_len`, and finds the stale `g`;
- readdir restarts the entry count in each block;
- `ext4_find_dir_entry` skips freeing after a failed block read.

The pass run includes IoFails 2, so the second device read of any call may
fail. The bounds are `MAX_OPEN_FILES` = 1, `MAX_MOUNTS` = 2 and `Width` = 6.
One descriptor is enough: the descriptors share nothing but the table scan.
In this run only paths that normalise to `/` name a directory. So at most one
mount-table entry is used: after it, `root_node`'s type is 10, and
`vfs_mount`'s type check refuses the next mount. `vfs_mount_lost` has fs2 and
`/a`, and there the mount succeeds.

The runs retired to make room for other runs are now hazards:
- the `size_t` wrap in `kmalloc`'s rounding (`kmalloc.c:141`);
- merging with the right neighbour only (`kmalloc.c:221`), with `FreeNeighboursMerged`;
- 256-byte inodes copied into a 128-byte `ext4_inode_t` (`part_006:142`), with `ReadInodeInBounds`;
- the 64-byte descriptor stride (`part_006:113`), with `InodeLocated` without its scope;
- double registration of a driver (`part_001:65`), with the converse of `LoadedDriversFound`.

Each of these bugs takes one or a few calls, and a unit test reaches it. The
disks and the re-registration that reach them are in the pass runs, where
the properties that hold are checked.

The console:

| Run | Cfg | Checks | Result |
|---|---|---|---|
| `console` | `MCConsole.cfg` | `TypeOK`, `BufferFormatted`, `WireFaithful`, `OutputDelivered`, `EchoDrains` | pass (3,985 distinct states, about 30 seconds) |

What these properties say:

- **`TypeOK`**: with the type of every variable, each buffer holds at most `BUF_SIZE - 1` characters, so its NUL fits.
- **`BufferFormatted`**: every buffer `kvsnprintf` fills is what `snprintf` makes of the same format and arguments, including the cut at the buffer's size.
- **`WireFaithful`**: the line carries a prefix of the kernel's output, in call order, with the banner raw, `
` after each `
`, the `[ERROR] ` prefixes and the echoes, while keys arrive at any time: no divisor byte leaks to the line, and no byte is lost in a full FIFO.
- **`OutputDelivered`** (liveness): the line eventually carries everything the kernel wrote.
- **`EchoDrains`** (liveness): in the echo loop, every key in the receiver is eventually read.

The mutants:
- `Put` copying while `out_idx < size` (no room for the NUL);
- the digits in reverse order;
- LCR's 8N1 written before the divisor, which clears DLAB too early;
- the THRE wait testing the data-ready bit;
- `serial_received` masking bit 1 instead of bit 0.

The heap and the EXT4 reader assume no fairness: they are sequential, and
callers need not call them at all. The keyboard and the console state
liveness, under the fairness described with `Keyboard.tla` and `Console.tla`.

## 4. Plan for the remaining parts

The modules are listed in order of importance.

1. **`Ext4Mount`** (done, except the node type mapping of `create_vfs_node`):
   - `ext4_mount`/`ext4_unmount` over `HeapSpec`'s allocator;
   - a block device whose reads may fail;
   - superblock fields drawn from small sets, including `blocks_per_group = 0`, `s_log_block_size ≥ 22` and `s_desc_size ∈ {0, 32, 64}`.

   Properties:
   - every failing path frees exactly what it allocated;
   - a failed mount leaves no dangling root (modelled, but no run states it; see the hazard at line 529);
   - `read_inode` reads the descriptor of the inode's own group. This is checked for 64-byte descriptors. It fails for 32-byte descriptors on disks with more than one group (the 64-byte stride at line 113).
2. **`Ext4File`** (done): the extent walk, the block read and the data loop are checked against the extent mapping. Not yet covered: trees whose child `eh_depth` disagrees with the root, and block numbers of 2^16 or more, where the union's `_hi` halves matter.
3. (merged into 2.)
4. **`Ext4Dir`** (done for well-formed blocks): the record walks of `find_dir_entry` and `readdir`, including deleted and shadowed entries. Corrupt `rec_len` values remain an input-validation hazard.
5. **`Vfs`** (done): the fd and mount tables and `vfs_lookup` over `ext4_finddir`. The mount is lost, a failed read moves the position back, and every `finddir` leaks. Next would be `vfs_rename`, `vfs_link` and `vfs_symlink`, which repeat `vfs_mkdir`'s leak twice.
6. **`Keyboard`** (done for shift and letters): the count race and the stuck shift are found. Next would be the lock keys, whose LED command polls the data port while IRQ1 can take the ACK. That needs the controller's output buffer as a shared variable.
7. **`PS2Mouse`** (done without byte loss): the init's exchange is a sequence of steps, and the device's answers reach the installed handler. Next would be NAK retries, and lost bytes.
8. **`DriverRegistry`** (done), composed with the mouse and ext4 in `Drivers`.
9. **`Console`** (done for `kmain`'s output and echo). Next would be a timed terminal that types faster than the echo loop answers: with a `\r` echoed as two bytes, a paste overruns the receive FIFO, which nothing reads LSR to notice.

## 5. Not modelled

- **GDT/IDT/TSS setup and the interrupt stubs.** Straight-line code writing descriptor tables, with no state machine a model checker adds to. `Console` leaves `gdt_init` and the framebuffer `memset` out of `kmain`: neither touches the console.
- **`serial_write_hex`, `serial_write_int`, `ksnprintf` and `kdbg`.** Nothing calls them. `ksnprintf` is `kvsnprintf` unchanged; `kdbg` is `kerr` with another prefix. `serial_write_int(INT64_MIN)` prints only `-`, because the negation overflows.
- **The block device.** The repository has only its interface. It will appear as a read that may fail.
- **`kmalloc_aligned`.** It is declared but never defined.
- **`ps2_keyboard_init`, the keyboard command and LED exchanges, the ctrl/alt/lock keys and the E0 prefix.** The handler drops the E0 prefix. The rest is polled port I/O whose interesting part, the contest for port 0x60 with IRQ1, is listed as a hazard.
- **The mouse's sample rate, resolution and callback, and byte loss.** Nothing in the code depends on the first three. A lost byte misaligns packets by the PS/2 protocol's own design.
- **`device_driver_enumerate` and `device_driver_init`.** The first only reads the registry. The second only clears it, which the static initialiser already does.
- **`vfs_write` and `vfs_fstat`.** For ext4 they change nothing: `ext4_write` returns 0, so the position does not move, and `ext4_stat` only fills the caller's structure.
- **`vfs_rename`, `vfs_link` and `vfs_symlink`.** They look up one or two parents and then fail, because ext4 provides no such operations. Their only effect is the leak `vfs_mkdir` already shows.
- **The edge cases of `kvsnprintf` and `int_to_string` that `kmain` never reaches.** `Format` models them, but `kmain`'s formats never trigger them:
  - a width of 65 or more overflows `tmp[65]`;
  - a format ending in `%` reads past the terminating NUL.

  `%05d` puts the zeros before the sign, and `Format` does the same. A unit test with one format string reaches each of these.
