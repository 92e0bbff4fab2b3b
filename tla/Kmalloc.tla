------------------------------ MODULE Kmalloc ------------------------------
(***************************************************************************)
(* The kernel heap of src/kernel/src/mm/kmalloc.c: a static arena carved   *)
(* into blocks, each starting with an alloc_header_t {size, magic, used}.  *)
(* The free list is implicit: a block's successor starts size bytes later. *)
(*                                                                         *)
(* The arena is modelled at header granularity: kernel_heap maps every     *)
(* 16-byte aligned offset to the header record stored there (the memset in *)
(* kmalloc_init makes every record zero).  Records that are not at a block *)
(* boundary are stale headers of merged-away blocks; they matter because   *)
(* kfree and krealloc read the record in front of any pointer they get.    *)
(*                                                                         *)
(* Every operation is an operator from a heap record to a heap record (and *)
(* a returned pointer), so krealloc is built from kmalloc and kfree exactly *)
(* as the C code calls them.  The client that calls the allocator is       *)
(* modelled by what it holds: live maps each pointer it owns to the size   *)
(* it asked for, freed is the set of pointers it has given back and may    *)
(* wrongly pass again.  The client never writes payload bytes.             *)
(***************************************************************************)
EXTENDS Integers, SequencesExt, TLC

CONSTANTS
  HeapSize,     \* KERNEL_HEAP_SIZE in bytes, a multiple of 16
  SizeBits,     \* width of size_t; arithmetic on sizes is modulo 2^SizeBits
  Requests,     \* the byte counts the client passes to kmalloc/kzalloc/krealloc
  ReallocStale, \* whether the client may pass an already freed pointer to krealloc
  NULL          \* the null pointer

ASSUME HeapSize > 0 /\ HeapSize % 16 = 0
ASSUME SizeBits \in 5..30 /\ HeapSize < 2^SizeBits
ASSUME Requests \subseteq 0..(2^SizeBits - 1)
ASSUME ReallocStale \in BOOLEAN

SizeMod == 2^SizeBits

\* sizeof(alloc_header_t) on x86_64: size_t + uint32_t + bool, padded to 16.
HeaderSize == 16
MIN_ALLOC_SIZE == HeaderSize + 16
ALLOC_MAGIC == "0xABCD1234"
NO_MAGIC == "0x00000000"

\* Offsets at which a header can be stored, and the payload pointers.
Addrs == {a * HeaderSize : a \in 0..(HeapSize \div HeaderSize - 1)}
Ptrs == {a + HeaderSize : a \in Addrs}

\* No walk over the arena visits more blocks than this without looping.
Fuel == HeapSize \div HeaderSize + 1
\* The value a search returns when the walk never leaves a block (size 0):
\* the C loop spins forever and the call never returns.
Hang == -1

ZeroHeader == [size |-> 0, magic |-> NO_MAGIC, used |-> FALSE]
Header(s, u) == [size |-> s, magic |-> ALLOC_MAGIC, used |-> u]

VARIABLES heap, live, freed
vars == <<heap, live, freed>>

(***************************************************************************)
(* Walking the implicit block list from the start of the arena.            *)
(***************************************************************************)
RECURSIVE WalkFrom(_, _, _)
WalkFrom(mem, cur, fuel) ==
  IF cur >= HeapSize \/ fuel = 0 THEN <<>>
  ELSE <<cur>> \o WalkFrom(mem, cur + mem[cur].size, fuel - 1)

\* The block starts reached from offset 0, in address order.
Blocks(mem) == WalkFrom(mem, 0, Fuel)
BlockSet(mem) == ToSet(Blocks(mem))
UsedBlocks(mem) == {b \in BlockSet(mem) : mem[b].used}

(***************************************************************************)
(* kmalloc_init                                                            *)
(***************************************************************************)
KmallocInit(h) ==
  IF h.heap_initialized THEN h
  ELSE [kernel_heap |-> [a \in Addrs |->
                           IF a = 0 THEN Header(HeapSize, FALSE) ELSE ZeroHeader],
        heap_initialized |-> TRUE,
        heap_used |-> 0]

(***************************************************************************)
(* find_free_block: first fit, stopping at a corrupted header.             *)
(***************************************************************************)
RECURSIVE FindFrom(_, _, _, _)
FindFrom(mem, cur, size, fuel) ==
  IF fuel = 0 THEN Hang
  ELSE IF cur >= HeapSize THEN NULL
  ELSE IF mem[cur].magic # ALLOC_MAGIC THEN NULL
  ELSE IF ~mem[cur].used /\ mem[cur].size >= size THEN cur
  ELSE FindFrom(mem, cur + mem[cur].size, size, fuel - 1)

find_free_block(mem, size) == FindFrom(mem, 0, size, Fuel)

(***************************************************************************)
(* split_block.  The EXCEPT clauses are applied in the C order, so a      *)
(* split with size = 0 rewrites the same header twice.                     *)
(***************************************************************************)
SplitIgnoringMinimum(mem, block, size) ==
  IF mem[block].size >= size
  THEN [mem EXCEPT ![block + size] = Header(mem[block].size - size, FALSE),
                   ![block].size = size,
                   ![block].used = TRUE]
  ELSE [mem EXCEPT ![block].used = TRUE]

split_block(mem, block, size) ==
  IF mem[block].size >= (size + MIN_ALLOC_SIZE) % SizeMod
  THEN [mem EXCEPT ![block + size] = Header(mem[block].size - size, FALSE),
                   ![block].size = size,
                   ![block].used = TRUE]
  ELSE [mem EXCEPT ![block].used = TRUE]

(***************************************************************************)
(* kmalloc(size): returns <<new heap, pointer>>.  (size + 15) & ~15 is     *)
(* computed in size_t, so it wraps for sizes near 2^SizeBits.              *)
(***************************************************************************)
AlignDown16(size) == size - (size % 16)

AlignUp16(size) == LET s == (size + 15) % SizeMod IN s - (s % 16)

KmallocReturnsHeader(h, size) ==
  IF size = 0 THEN <<h, NULL>>
  ELSE
    LET h1    == KmallocInit(h)
        total == (AlignUp16(size) + HeaderSize) % SizeMod
        block == find_free_block(h1.kernel_heap, total)
    IN  IF block \in {NULL, Hang} THEN <<h1, block>>
        ELSE LET mem == split_block(h1.kernel_heap, block, total)
             IN  <<[h1 EXCEPT !.kernel_heap = mem,
                              !.heap_used = (@ + mem[block].size) % SizeMod],
                   block>>

kmalloc(h, size) ==
  IF size = 0 THEN <<h, NULL>>
  ELSE
    LET h1    == KmallocInit(h)
        total == (AlignUp16(size) + HeaderSize) % SizeMod
        block == find_free_block(h1.kernel_heap, total)
    IN  IF block \in {NULL, Hang} THEN <<h1, block>>
        ELSE LET mem == split_block(h1.kernel_heap, block, total)
             IN  <<[h1 EXCEPT !.kernel_heap = mem,
                              !.heap_used = (@ + mem[block].size) % SizeMod],
                   block + HeaderSize>>

(***************************************************************************)
(* validate_block and merge_blocks                                         *)
(***************************************************************************)
validate_block(mem, header) ==
  /\ header \in Addrs
  /\ mem[header].magic = ALLOC_MAGIC
  /\ mem[header].size >= HeaderSize
  /\ header + mem[header].size <= HeapSize

MergeIgnoringUse(mem, block) ==
  LET next == block + mem[block].size
  IN  IF next >= HeapSize \/ ~validate_block(mem, next)
      THEN mem
      ELSE [mem EXCEPT ![block].size = @ + mem[next].size,
                       ![next].magic = NO_MAGIC]

merge_blocks(mem, block) ==
  LET next == block + mem[block].size
  IN  IF next >= HeapSize \/ ~validate_block(mem, next) \/ mem[next].used
      THEN mem
      ELSE [mem EXCEPT ![block].size = @ + mem[next].size,
                       ![next].magic = NO_MAGIC]

(***************************************************************************)
(* kfree(ptr)                                                              *)
(***************************************************************************)
KfreeNoDoubleFreeCheck(h, ptr) ==
  LET header == ptr - HeaderSize
  IN  IF ptr = NULL \/ ~h.heap_initialized \/ ~validate_block(h.kernel_heap, header)
      THEN h
      ELSE [h EXCEPT
              !.kernel_heap = merge_blocks([@ EXCEPT ![header].used = FALSE], header),
              !.heap_used = (@ - h.kernel_heap[header].size) % SizeMod]

KfreeChargeAfterMerge(h, ptr) ==
  LET header == ptr - HeaderSize
      mem    == merge_blocks([h.kernel_heap EXCEPT ![header].used = FALSE], header)
  IN  IF ptr = NULL \/ ~h.heap_initialized \/ ~validate_block(h.kernel_heap, header)
         \/ ~h.kernel_heap[header].used
      THEN h
      ELSE [h EXCEPT !.kernel_heap = mem,
                     !.heap_used = (@ - mem[header].size) % SizeMod]

kfree(h, ptr) ==
  LET header == ptr - HeaderSize
  IN  IF ptr = NULL \/ ~h.heap_initialized \/ ~validate_block(h.kernel_heap, header)
         \/ ~h.kernel_heap[header].used
      THEN h
      ELSE [h EXCEPT
              !.kernel_heap = merge_blocks([@ EXCEPT ![header].used = FALSE], header),
              !.heap_used = (@ - h.kernel_heap[header].size) % SizeMod]

(***************************************************************************)
(* memcpy and memset on the payload, as they act on header records.  A     *)
(* byte range that covers only the first k bytes of a record clears just   *)
(* those bytes: size is bytes 0..7, magic bytes 8..11, used byte 12.       *)
(***************************************************************************)
ClearLowBytes(x, k) == IF k >= 4 THEN 0 ELSE x - (x % (2^(8 * k)))

ClearPrefix(rec, k) ==
  [size  |-> IF k >= 8 THEN 0 ELSE ClearLowBytes(rec.size, k),
   magic |-> IF k > 8 THEN NO_MAGIC ELSE rec.magic,
   used  |-> IF k > 12 THEN FALSE ELSE rec.used]

\* memset(ptr, 0, n)
ZeroPayload(mem, ptr, n) ==
  [a \in Addrs |-> IF a >= ptr /\ a < ptr + n
                   THEN ClearPrefix(mem[a], ptr + n - a)
                   ELSE mem[a]]

\* memcpy(dst, src, n) for 16-aligned dst, src and n
CopyPayload(mem, dst, src, n) ==
  [a \in Addrs |-> IF a >= dst /\ a < dst + n THEN mem[src + (a - dst)] ELSE mem[a]]

(***************************************************************************)
(* kzalloc(size) and krealloc(ptr, size)                                   *)
(***************************************************************************)
kzalloc(h, size) ==
  LET r == kmalloc(h, size)
  IN  IF r[2] \in {NULL, Hang} THEN r
      ELSE <<[r[1] EXCEPT !.kernel_heap = ZeroPayload(@, r[2], size)], r[2]>>

krealloc(h, ptr, size) ==
  LET header == ptr - HeaderSize
      curr   == h.kernel_heap[header].size - HeaderSize
      r      == kmalloc(h, size)
  IN  IF ptr = NULL THEN kmalloc(h, size)
      ELSE IF size = 0 THEN <<kfree(h, ptr), NULL>>
      ELSE IF ~validate_block(h.kernel_heap, header) THEN <<h, NULL>>
      ELSE IF size <= curr THEN <<h, ptr>>
      ELSE IF r[2] \in {NULL, Hang} THEN r
      ELSE <<kfree([r[1] EXCEPT !.kernel_heap = CopyPayload(@, r[2], ptr, curr)], ptr),
             r[2]>>

\* kmalloc_stats: status -1 before kmalloc_init, else the three counters.
kmalloc_stats(h) ==
  IF ~h.heap_initialized THEN [status |-> -1]
  ELSE [status |-> 0, total_mem |-> HeapSize, used_mem |-> h.heap_used,
        free_mem |-> (HeapSize - h.heap_used) % SizeMod]

(***************************************************************************)
(* The client's calls.  A call whose walk never ends (Hang) never returns, *)
(* so it is no step at all.                                                *)
(***************************************************************************)
Init ==
  /\ heap = [kernel_heap |-> [a \in Addrs |-> ZeroHeader],
             heap_initialized |-> FALSE,
             heap_used |-> 0]
  /\ live = <<>>
  /\ freed = {}

\* The client's bookkeeping after a call returned ret in place of old.
Hold(ptr, ret, size) ==
  IF ret = NULL THEN live
  ELSE (ret :> size) @@ [p \in DOMAIN live \ {ptr} |-> live[p]]

KmallocInitCall ==
  /\ heap' = KmallocInit(heap)
  /\ UNCHANGED <<live, freed>>

\* The client's side of a call that returns a fresh pointer r[2] for n bytes.
AllocReturn(r, n) ==
  /\ r[2] # Hang
  /\ heap' = r[1]
  /\ live' = Hold(NULL, r[2], n)
  /\ freed' = freed \ {r[2]}

KmallocCall == \E n \in Requests : AllocReturn(kmalloc(heap, n), n)
KzallocCall == \E n \in Requests : AllocReturn(kzalloc(heap, n), n)

KfreeCall ==
  \E p \in {NULL} \cup DOMAIN live \cup freed :
    /\ heap' = kfree(heap, p)
    /\ live' = [q \in DOMAIN live \ {p} |-> live[q]]
    /\ freed' = IF p \in DOMAIN live THEN freed \cup {p} ELSE freed

KreallocCall ==
  \E p \in {NULL} \cup DOMAIN live \cup (IF ReallocStale THEN freed ELSE {}),
    n \in Requests :
    LET r == krealloc(heap, p, n) IN
    /\ r[2] # Hang
    /\ heap' = r[1]
    /\ IF p # NULL /\ n = 0
       THEN /\ live' = [q \in DOMAIN live \ {p} |-> live[q]]
            /\ freed' = freed \cup {p}
       ELSE /\ live' = Hold(p, r[2], n)
            /\ freed' = (freed \cup (IF r[2] \notin {NULL, p} /\ p # NULL THEN {p} ELSE {}))
                          \ {r[2]}

Next ==
  \/ KmallocInitCall
  \/ KmallocCall
  \/ KzallocCall
  \/ KfreeCall
  \/ KreallocCall

Spec == Init /\ [][Next]_vars

(***************************************************************************)
(* Properties                                                              *)
(***************************************************************************)
TypeOK ==
  /\ heap.kernel_heap \in [Addrs -> [size : 0..(SizeMod - 1),
                                     magic : {ALLOC_MAGIC, NO_MAGIC},
                                     used : BOOLEAN]]
  /\ heap.heap_initialized \in BOOLEAN
  /\ heap.heap_used \in 0..(SizeMod - 1)
  /\ DOMAIN live \subseteq Ptrs
  /\ \A p \in DOMAIN live : live[p] \in Requests
  /\ freed \subseteq Ptrs

\* The spec's arena invariant: walking the headers from the start of the
\* arena visits blocks with a valid magic and a sane size that end exactly
\* at the end of the arena (kmalloc_init, split_block and merge_blocks must
\* all preserve it).
HeapTiled ==
  heap.heap_initialized =>
    LET mem == heap.kernel_heap
        w   == Blocks(mem)
    IN  /\ Len(w) > 0
        /\ \A i \in 1..Len(w) : mem[w[i]].magic = ALLOC_MAGIC /\ mem[w[i]].size >= HeaderSize
        /\ w[Len(w)] + mem[w[Len(w)]].size = HeapSize

\* Every pointer the client holds is the payload of a distinct used block on
\* the block list, large enough for what was asked, and every used block is
\* held by the client: allocations never overlap (blocks tile the arena) and
\* kmalloc/krealloc/kfree never lose or double-issue a block.
LiveBlocksExact ==
  heap.heap_initialized =>
    /\ {p - HeaderSize : p \in DOMAIN live} = UsedBlocks(heap.kernel_heap)
    /\ \A p \in DOMAIN live : heap.kernel_heap[p - HeaderSize].size - HeaderSize >= live[p]

\* What kmalloc_stats reports is the arena's real state: used_mem is the
\* total size of the used blocks and free_mem that of the free ones, across
\* every split, merge, failed call and rejected free.
HeapUsedAccurate ==
  heap.heap_initialized =>
    LET st  == kmalloc_stats(heap)
        mem == heap.kernel_heap
        Total(S) == MapThenSumSet(LAMBDA b : mem[b].size, S)
    IN  /\ st.used_mem = Total(UsedBlocks(mem))
        /\ st.free_mem = Total(BlockSet(mem) \ UsedBlocks(mem))

\* The allocator's memory changes only in a step that grants or takes back
\* a client allocation, or in the one initialization: a double free or a
\* free of a stale pointer, which kfree reports and ignores, changes nothing.
NoSilentHeapChange ==
  [][heap' # heap => (live' # live \/ ~heap.heap_initialized)]_vars

\* The heap implements its contract (HeapSpec): seen through the pointers
\* the client holds and the blocks behind them, every kmalloc, kzalloc,
\* kfree and krealloc is a step of the abstract allocator, so live regions
\* stay disjoint and as large as requested in every behaviour.
Abstract == INSTANCE HeapSpec WITH
  allocs <- [p \in DOMAIN live |->
               [req |-> live[p],
                cap |-> heap.kernel_heap[p - HeaderSize].size - HeaderSize]]

HeapRefinement == Abstract!Spec

\* Spec section 8: freeing two adjacent blocks leaves one free block spanning
\* both, so no two neighbouring blocks on the list are both free.  merge_blocks
\* looks only at the block after the freed one, and with MCKmalloc's
\* constants this fails after a kmalloc, a krealloc that moves and frees the
\* left block, and a kfree of the right one.
FreeNeighboursMerged ==
  heap.heap_initialized =>
    LET mem == heap.kernel_heap
        w   == Blocks(mem)
    IN  \A i \in 1..(Len(w) - 1) : ~(~mem[w[i]].used /\ ~mem[w[i + 1]].used)
====
