----------------------------- MODULE MCHeapCheck ----------------------------
(* Three regions for the heap, for a table of two segments: 6 and 2        *)
(* granules of chunks, and a third that never fits beside them.            *)
EXTENDS HeapCheck

MCRegions == {[base |-> 16, end |-> 144], [base |-> 150, end |-> 224],
              [base |-> 225, end |-> 304]}
MCLayouts == {[size |-> 0, align |-> 8], [size |-> 17, align |-> 16],
              [size |-> 48, align |-> 1], [size |-> 8, align |-> 32]}
MCBogusPtrs == {0, 33, 16, 144, 320}
MCPayloads == {[prev_size |-> 9, size |-> 2, inuse |-> TRUE, previnuse |-> FALSE],
               [prev_size |-> 2, size |-> 9, inuse |-> TRUE, previnuse |-> TRUE]}
LooksLikeHeader ==
  {[prev_size |-> 0, size |-> 2, inuse |-> TRUE, previnuse |-> TRUE]}
=============================================================================
