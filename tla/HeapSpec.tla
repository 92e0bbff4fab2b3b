------------------------------ MODULE HeapSpec ------------------------------
(***************************************************************************)
(* What the kernel heap promises its callers (spec.md section 4.1), with   *)
(* no blocks, headers or lists: a set of live allocations, each a region   *)
(* [ptr, ptr + cap) of the arena holding at least the bytes asked for, the *)
(* regions pairwise disjoint.  An allocation may fail at any time (out of  *)
(* memory); freeing something that is not live changes nothing; a resize   *)
(* either keeps the region, moves to a fresh one, or fails and keeps the   *)
(* old one.                                                                *)
(***************************************************************************)
EXTENDS Integers, TLC

CONSTANTS
  HeapSize,   \* arena size in bytes
  Requests,   \* the byte counts callers ask for
  NULL

\* allocs maps each live pointer to [req |-> bytes asked, cap |-> bytes usable]
VARIABLE allocs

\* Payloads are 16-byte aligned and sized in 16-byte steps (the arena is
\* aligned(16) and kmalloc rounds every request up to 16).
Aligned == {a \in 0..HeapSize : a % 16 = 0}

\* [p, p + cp) and [q, q + cq) share no byte.
Apart(p, cp, q, cq) == cp = 0 \/ cq = 0 \/ p + cp <= q \/ q + cq <= p

\* A region that fits in the arena and meets no other live allocation.
Fresh(p, cap, others) ==
  /\ p + cap <= HeapSize
  /\ p \notin others
  /\ \A q \in others : Apart(p, cap, q, allocs[q].cap)

Init == allocs = <<>>

\* kmalloc / kzalloc: fail, or hand out a fresh region of at least n bytes.
Allocate ==
  \E n \in Requests \ {0} :
    \/ UNCHANGED allocs
    \/ \E p \in Aligned, cap \in Aligned :
         /\ cap >= n
         /\ Fresh(p, cap, DOMAIN allocs)
         /\ allocs' = (p :> [req |-> n, cap |-> cap]) @@ allocs

\* kfree: a live pointer is released, anything else is ignored.
Release ==
  \E p \in DOMAIN allocs :
    allocs' = [q \in DOMAIN allocs \ {p} |-> allocs[q]]

\* krealloc of a live pointer to n > 0 bytes.
Resize ==
  \E p \in DOMAIN allocs, n \in Requests \ {0} :
    LET others == DOMAIN allocs \ {p} IN
    \/ /\ n <= allocs[p].cap
       /\ allocs' = [allocs EXCEPT ![p].req = n]
    \/ /\ n > allocs[p].cap
       /\ \/ UNCHANGED allocs
          \/ \E q \in Aligned, cap \in Aligned :
               /\ cap >= n
               /\ Fresh(q, cap, DOMAIN allocs)
               /\ allocs' = (q :> [req |-> n, cap |-> cap])
                              @@ [r \in others |-> allocs[r]]

Next == Allocate \/ Release \/ Resize

Spec == Init /\ [][Next]_allocs

\* The promise callers rely on: live regions are disjoint, inside the arena
\* and at least as large as what was asked.
Disjoint ==
  /\ \A p \in DOMAIN allocs : allocs[p].cap >= allocs[p].req
  /\ \A p, q \in DOMAIN allocs :
       p # q => Apart(p, allocs[p].cap, q, allocs[q].cap)
====
