------------------------------ MODULE HeapCheck ------------------------------
(***************************************************************************)
(* What the heap's users rely on, stated of HeapCore: the heap's own       *)
(* validator, the accounting, and the refinement of BlockAllocator.  Then  *)
(* clients that free a block twice.                                        *)
(***************************************************************************)
EXTENDS HeapCore, FiniteSetsExt

\* check_invariants of one segment: the walk from chunk a to the epilogue.
CheckChunk(i, a) ==
  LET next == a + size[a] IN
  /\ size[a] >= MIN_CHUNK
  /\ next <= Epilogue(i)
  /\ next < Epilogue(i) =>
       IF inuse[a] THEN previnuse[next]
       ELSE prevsize[next] = size[a] /\ inuse[next] /\ ~previnuse[next]
  /\ next = Epilogue(i) /\ ~inuse[a] =>
       prevsize[next] = size[a] /\ ~previnuse[next]

check_invariants ==
  \A i \in Segments :
    LET Walk[a \in Addr] ==
          IF a >= Epilogue(i) THEN a = Epilogue(i)
          ELSE CheckChunk(i, a) /\ Walk[a + size[a]]
    IN  /\ size[Base(i)] = PROLOGUE_SIZE /\ inuse[Base(i)] /\ previnuse[Base(i)]
        /\ Walk[First(i)]
        /\ size[Epilogue(i)] = EPILOGUE_SIZE /\ inuse[Epilogue(i)]

\* The counters: free_bytes is the size of all free chunks, alloc_count the
\* number of blocks held.
Counted ==
  /\ free_bytes = MapThenSumSet(LAMBDA h : size[h], {h \in heads : ~inuse[h]})
  /\ alloc_count = Cardinality(DOMAIN live)

\* With every block given back each segment is one free chunk again.
Coalesced ==
  DOMAIN live = {} => \A i \in Segments : size[First(i)] = Epilogue(i) - First(i)

\* Whenever no call is in progress, failed and refused ones included, the heap
\* passes its own validator (heap.rs:259, the check the host tests run after
\* every phase), its counters are exact, and freeing in any order has coalesced
\* completely (tests/allocator, free_out_of_order_recoalesces).
SoundAtRest == pc = "idle" => check_invariants /\ Counted /\ Coalesced

\* The heap implements BlockAllocator: a block is the payload of its chunk.
Abstract == INSTANCE BlockAllocator WITH
  Places <- Addr,
  Granule <- CHUNK_ALIGN,
  blocks <- [p \in DOMAIN live |->
               [last |-> p + size[p - HEADER_SIZE] - 1 - HEADER_SIZE,
                bytes |-> live[p]]]
ImplementsBlockAllocator == Abstract!Spec

-----------------------------------------------------------------------------
(* Clients that free a block twice, the second time after its memory was   *)
(* handed out again: the address is now inside another block, and its      *)
(* holder has written to it.  (A second free before that is among the      *)
(* FreeInputs of HeapCore.)                                                *)

\* What lies at a cannot be a chunk of its segment: a size below MIN_CHUNK, a
\* predecessor before the segment, an end behind it.
NoHeader(a) ==
  \/ ~inuse[a] \/ size[a] < MIN_CHUNK
  \/ ~previnuse[a] /\ ~PrevInSegment(a)
  \/ previnuse[a] /\ a + size[a] > Epilogue(Owner(a))

DoubleFree(a) ==
  LET ptr == (a + HEADER_SIZE) * CHUNK_ALIGN
  IN  dealloc_refuse(ptr) \/ dealloc_enter(ptr)

HeldCells == UNION {p .. LastCell(p, live[p]) : p \in DOMAIN live}
Held      == {a \in HeldCells : WellPlaced((a + HEADER_SIZE) * CHUNK_ALIGN)}

MisuseNext == Next \/ \E a \in Held : NoHeader(a) /\ DoubleFree(a)
MisuseSpec == Init /\ [][MisuseNext]_vars /\ WF_vars(CallStep)

LateFreeNext == Next \/ \E a \in Held : DoubleFree(a)
LateFreeSpec == Init /\ [][LateFreeNext]_vars

\* Only a free of a block held by a client gets past the early returns of
\* dealloc (heap.rs:167, "Bounds, alignment and double-free violations are
\* counted and ignored (no memory is touched)").
DoubleFreeIgnored ==
  [][pc = "idle" /\ pc' = "forward" => c' + HEADER_SIZE \in DOMAIN live]_vars

=============================================================================
