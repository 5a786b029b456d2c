--------------------------- MODULE BlockAllocator ---------------------------
(***************************************************************************)
(* What a heap promises its clients: a block, once handed out, keeps its   *)
(* place and its extent until its holder gives it back, is large enough    *)
(* for the request, and never shares a granule with another block.         *)
(***************************************************************************)
EXTENDS Integers

CONSTANTS
  Places,      \* where a block may start
  Granule      \* bytes per granule

VARIABLE blocks      \* start of each block held |-> its last granule and request

Overlap(p, b, q, d) == p <= d.last /\ q <= b.last

Allocate ==
  \E p \in Places \ DOMAIN blocks :
    /\ DOMAIN blocks' = DOMAIN blocks \cup {p}
    /\ \A q \in DOMAIN blocks :
         blocks'[q] = blocks[q] /\ ~Overlap(p, blocks'[p], q, blocks[q])
    /\ (blocks'[p].last - p + 1) * Granule >= blocks'[p].bytes

Release ==
  \E p \in DOMAIN blocks : blocks' = [q \in DOMAIN blocks \ {p} |-> blocks[q]]

Init == blocks = [p \in {} |-> 0]
Next == Allocate \/ Release
Spec == Init /\ [][Next]_blocks

=============================================================================
