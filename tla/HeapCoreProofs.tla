--------------------------- MODULE HeapCoreProofs ---------------------------
(***************************************************************************)
(* The inductive invariant of HeapCore, that alloc, dealloc, init_region   *)
(* and the writes of clients keep it, and the theorems that follow from    *)
(* it, for every address space, set of disjoint regions, set of layouts    *)
(* and payload contents.                                                   *)
(***************************************************************************)
EXTENDS HeapCore, TLAPS

\* Installed segments come from regions, leave room for a chunk, and are
\* pairwise disjoint.
SegmentsOK ==
  /\ \A i \in Segments :
       /\ \E r \in Regions :
            segments[i] = [base |-> RegionBase(r), end |-> RegionEnd(r)]
       /\ Base(i) + 4 <= segments[i].end
       /\ segments[i].end <= MaxAddr + 1
  /\ \A i, j \in Segments :
       i # j => segments[i].end <= Base(j) \/ segments[j].end <= Base(i)

\* Every chunk but the first of a segment starts where another one ends.
Preceded ==
  \A h \in heads : \/ \E i \in Segments : h = First(i)
                   \/ \E g \in heads : g + ChunkLen(g) = h

\* A freed address is in some segment, looks free and is in no block.
FreedOK ==
  \A a \in freed :
    /\ ~inuse[a]
    /\ \E i \in Segments : First(i) <= a /\ a < Epilogue(i)
    /\ \A h \in heads :
         inuse[h] /\ ~Freeing(h) => a < h \/ h + ChunkLen(h) <= a

\* The walk of alloc stands on a chunk or on the epilogue, and no chunk it has
\* passed fits.
Passed(h) ==
  \E i \in Segments :
    /\ First(i) <= h /\ h < Epilogue(i)
    /\ i < seg_idx \/ (i = seg_idx /\ h < chunk)
WalkOK ==
  pc = "walk" =>
    /\ outcome = "none"
    /\ seg_idx \in 0 .. seg_count
    /\ seg_idx < seg_count =>
         /\ chunk = Epilogue(seg_idx) \/ chunk \in heads
         /\ First(seg_idx) <= chunk /\ chunk <= Epilogue(seg_idx)
    /\ \A h \in heads : Passed(h) => inuse[h] \/ size[h] < Needed(request)

\* The span dealloc merges is a chunk whose predecessor is in use; it reaches
\* up to n and covers the chunk being freed.
ForwardOK ==
  pc = "forward" =>
    /\ seg_idx \in Segments
    /\ span \in heads
    /\ span + span_size = n
    /\ First(seg_idx) <= span /\ n <= Epilogue(seg_idx)
    /\ previnuse[span]
    /\ span <= c /\ c < n
    /\ c # span => ~inuse[c]

IInv ==
  /\ TypeOK /\ SegmentsOK /\ Tiling /\ Preceded /\ BoundaryTags /\ LiveBlocks
  /\ FreedOK /\ WalkOK /\ ForwardOK
-----------------------------------------------------------------------------
LEMMA NeededProperties ==
  ASSUME NEW b \in Nat
  PROVE  /\ Needed(b) \in Nat
         /\ Needed(b) >= MIN_CHUNK
         /\ ((b + CHUNK_ALIGN - 1) \div CHUNK_ALIGN) \in Nat
         /\ ((b + CHUNK_ALIGN - 1) \div CHUNK_ALIGN) + 1 <= Needed(b)
BY DEF Needed, MIN_CHUNK, CHUNK_ALIGN, HEADER_SIZE

LEMMA RegionProperties ==
  ASSUME NEW r \in Regions
  PROVE  /\ RegionBase(r) \in Nat
         /\ RegionEnd(r) \in Nat
         /\ RegionEnd(r) <= MaxAddr + 1
BY ConstantAssumption DEF RegionBase, RegionEnd, CHUNK_ALIGN

LEMMA PointerOfChunk ==
  ASSUME NEW a \in Nat
  PROVE  /\ ChunkOf((a + HEADER_SIZE) * CHUNK_ALIGN) = a
         /\ ((a + HEADER_SIZE) * CHUNK_ALIGN) % CHUNK_ALIGN = 0
BY DEF ChunkOf, HEADER_SIZE, CHUNK_ALIGN
-----------------------------------------------------------------------------
USE DEF MIN_CHUNK, PROLOGUE_SIZE, EPILOGUE_SIZE, HEADER_SIZE,
        Base, Epilogue, First, Segments, Addr

\* The invariants of memory, as opposed to those of the call in progress.
Structure ==
  SegmentsOK /\ Tiling /\ Preceded /\ BoundaryTags /\ LiveBlocks /\ FreedOK

LEMMA InitIInv == Init => IInv
<1> SUFFICES ASSUME Init PROVE IInv
  BY Zenon
<1>1. TypeOK
  BY ConstantAssumption DEF Init, TypeOK, NoSegment
<1>2. Segments = {}
  BY DEF Init
<1>3. SegmentsOK /\ Tiling /\ Preceded /\ BoundaryTags /\ FreedOK /\ WalkOK
      /\ ForwardOK
  BY Zenon, <1>2 DEF Init, SegmentsOK, Tiling, Preceded, BoundaryTags, FreedOK, WalkOK, ForwardOK
<1>4. LiveBlocks
  BY Zenon DEF Init, LiveBlocks
<1> QED
  BY Zenon, <1>1, <1>3, <1>4 DEF IInv

LEMMA SegmentFacts ==
  ASSUME TypeOK, SegmentsOK
  PROVE  /\ seg_count \in Nat /\ MAX_SEGMENTS \in Nat /\ MaxAddr \in Nat
         /\ seg_count <= MAX_SEGMENTS
         /\ \A i \in Segments :
              /\ i \in Int /\ 0 <= i /\ i < seg_count
              /\ segments[i].base \in Nat /\ segments[i].end \in Nat
              /\ segments[i].base + 4 <= segments[i].end
              /\ segments[i].end <= MaxAddr + 1
         /\ \A i, j \in Segments :
              i # j => \/ segments[i].end <= segments[j].base
                       \/ segments[j].end <= segments[i].base
<1>1. /\ seg_count \in Nat /\ MAX_SEGMENTS \in Nat /\ MaxAddr \in Nat
      /\ seg_count <= MAX_SEGMENTS
  BY ConstantAssumption DEF TypeOK
<1>2. \A i \in Segments : i \in Int /\ 0 <= i /\ i < seg_count
  BY <1>1
<1>3. ASSUME NEW i \in Segments
      PROVE  /\ segments[i].base \in Nat /\ segments[i].end \in Nat
             /\ segments[i].base + 4 <= segments[i].end
             /\ segments[i].end <= MaxAddr + 1
  <2>1. segments[i] \in [base : Nat, end : Nat]
    BY <1>1 DEF TypeOK
  <2> QED BY Zenon, <2>1 DEF SegmentsOK
<1> QED
  BY Zenon, <1>1, <1>2, <1>3 DEF SegmentsOK

LEMMA HeadFacts ==
  ASSUME TypeOK, Tiling
  PROVE  /\ \A h \in heads :
              /\ h \in Nat /\ h \in Addr /\ size[h] \in Nat /\ ChunkLen(h) \in Nat
              /\ inuse[h] \in BOOLEAN
              /\ ChunkLen(h) >= 2
              /\ ~Freeing(h) => ChunkLen(h) = size[h]
              /\ pc # "forward" => ChunkLen(h) = size[h]
              /\ \E i \in Segments :
                   /\ First(i) <= h
                   /\ h + ChunkLen(h) <= Epilogue(i)
                   /\ h + ChunkLen(h) = Epilogue(i) \/ h + ChunkLen(h) \in heads
         /\ \A g, h \in heads : g < h => g + ChunkLen(g) <= h
<1>1. ASSUME NEW h \in heads
      PROVE  h \in Nat /\ h \in Addr /\ size[h] \in Nat /\ inuse[h] \in BOOLEAN
  BY ConstantAssumption DEF TypeOK
<1>2. ASSUME NEW h \in heads PROVE ChunkLen(h) \in Nat
  BY Zenon, <1>1 DEF ChunkLen, TypeOK
<1> QED
  BY Zenon, <1>1, <1>2 DEF Tiling, ChunkLen, Freeing

\* A step that changes neither memory nor the auxiliary variables, and is no
\* step of a merge, keeps the structure.
LEMMA StructureUnchanged ==
  ASSUME Structure, pc # "forward", pc' # "forward",
         UNCHANGED <<segments, seg_count, tags, ghosts>>
  PROVE  Structure'
BY DEF Structure, SegmentsOK, Tiling, Preceded, BoundaryTags, LiveBlocks, FreedOK,
       Freeing, ChunkLen, tags, ghosts

LEMMA AllocRefuseStep ==
  ASSUME IInv, NEW l \in Layouts, alloc_refuse(l)
  PROVE  IInv'
<1> USE DEF IInv
<1>1. TypeOK' /\ WalkOK' /\ ForwardOK'
  BY Zenon DEF alloc_refuse, TypeOK, WalkOK, ForwardOK, Passed, tags, counts, walk, merge, ghosts
<1>2. Structure'
  BY Zenon, StructureUnchanged DEF Structure, alloc_refuse, tags, ghosts
<1> QED BY Zenon, <1>1, <1>2 DEF Structure

LEMMA AllocEnterStep ==
  ASSUME IInv, NEW l \in Layouts, alloc_enter(l)
  PROVE  IInv'
<1> USE DEF IInv
<1>1. TypeOK'
  <2>1. chunk' \in Nat
    BY SegmentFacts DEF alloc_enter, WalkStart
  <2>2. request' \in Nat /\ seg_idx' \in 0 .. MAX_SEGMENTS
    BY ConstantAssumption DEF alloc_enter
  <2> QED
    BY Zenon, <2>1, <2>2 DEF alloc_enter, TypeOK, tags, counts, merge, ghosts
<1>2. WalkOK'
  <2>1. (seg_idx < seg_count => chunk = First(seg_idx) /\ chunk \in heads)'
    BY SegmentFacts DEF alloc_enter, Tiling, WalkStart, ghosts
  <2>2. (\A h \in heads : ~Passed(h))'
    <3>1. /\ seg_idx' = 0 /\ heads' = heads /\ heads \subseteq Nat
          /\ segments' = segments /\ seg_count' = seg_count
      BY Zenon, HeadFacts DEF alloc_enter, ghosts
    <3>2. ASSUME NEW h \in heads, Passed(h)' PROVE FALSE
      <4>1. PICK i \in Segments : /\ First(i) <= h
                                  /\ i < 0 \/ (i = 0 /\ h < chunk')
        BY Zenon, <3>1, <3>2 DEF Passed
      <4>2. i = 0 /\ h < chunk' /\ 0 < seg_count
        BY <4>1, SegmentFacts
      <4> QED BY <2>1, <3>1, <4>1, <4>2, SegmentFacts
    <3> QED BY Zenon, <3>1, <3>2
  <2>3. (seg_idx \in 0 .. seg_count)'
    BY SegmentFacts DEF alloc_enter
  <2> QED BY <2>1, <2>2, <2>3, SegmentFacts DEF alloc_enter, WalkOK
<1>3. Structure' /\ ForwardOK'
  BY Zenon, StructureUnchanged DEF Structure, alloc_enter, ForwardOK, tags, ghosts
<1> QED BY Zenon, <1>1, <1>2, <1>3 DEF Structure

LEMMA AllocSkipStep ==
  ASSUME IInv, alloc_skip
  PROVE  IInv'
<1> USE DEF IInv
<1>0. /\ chunk \in heads /\ chunk \in Nat /\ size[chunk] \in Nat /\ size[chunk] >= 2
      /\ seg_idx \in Segments /\ ChunkLen(chunk) = size[chunk]
      /\ First(seg_idx) <= chunk /\ chunk < Epilogue(seg_idx)
  <2>1. /\ pc = "walk" /\ seg_idx < seg_count /\ chunk < Epilogue(seg_idx)
        /\ size[chunk] >= 2
    BY Zenon DEF alloc_skip, OnChunk
  <2>2. seg_idx \in Segments
    BY <2>1, SegmentFacts DEF WalkOK
  <2>3. chunk \in heads /\ First(seg_idx) <= chunk
    BY <2>1, <2>2, SegmentFacts DEF WalkOK, TypeOK
  <2> QED BY Zenon, <2>1, <2>2, <2>3, HeadFacts
<1>1. PICK i \in Segments :
        /\ First(i) <= chunk
        /\ chunk + size[chunk] <= Epilogue(i)
        /\ chunk + size[chunk] = Epilogue(i) \/ chunk + size[chunk] \in heads
  BY Zenon, <1>0, HeadFacts
<1>2. i = seg_idx
  BY <1>0, <1>1, SegmentFacts
<1>3. TypeOK'
  <2>1. chunk' \in Nat
    BY <1>0 DEF alloc_skip
  <2> QED
    BY Zenon, <2>1 DEF alloc_skip, TypeOK, tags, counts, walk, merge, ghosts
<1>4. WalkOK'
  <2>1. ASSUME NEW h \in heads, Passed(h)' PROVE Passed(h) \/ h = chunk
    <3>1. ~(chunk < h /\ h < chunk + size[chunk])
      BY <1>0, HeadFacts
    <3>2. h \in Nat /\ chunk' = chunk + size[chunk] /\ seg_idx' = seg_idx
          /\ Segments' = Segments /\ segments' = segments
      BY Zenon, HeadFacts DEF alloc_skip
    <3>3. PICK j \in Segments : /\ First(j) <= h /\ h < Epilogue(j)
                                /\ j < seg_idx \/ (j = seg_idx /\ h < chunk + size[chunk])
      BY <2>1, <3>2, Zenon DEF Passed
    <3>4. CASE j < seg_idx BY Zenon, <3>3, <3>4 DEF Passed
    <3>5. CASE j = seg_idx /\ h < chunk
      BY Zenon, <3>3, <3>5 DEF Passed
    <3>6. h < chunk + size[chunk] => h < chunk \/ h = chunk
      BY <1>0, <3>1, <3>2
    <3> QED BY Zenon, <3>3, <3>4, <3>5, <3>6
  <2>2. ~Fits /\ pc = "walk" /\ pc' = "walk"
    BY Zenon DEF alloc_skip, OnChunk
  <2>3. \A h \in heads : Passed(h)' => inuse[h] \/ size[h] < Needed(request)
    <3>1. ASSUME NEW h \in heads, Passed(h)' PROVE inuse[h] \/ size[h] < Needed(request)
      <4>1. CASE Passed(h) BY Zenon, <4>1, <2>2 DEF WalkOK
      <4>2. CASE h = chunk
        <5>1. request \in Nat /\ inuse[h] \in BOOLEAN
          BY Zenon, HeadFacts DEF TypeOK
        <5> QED BY <4>2, <5>1, <2>2, <1>0, NeededProperties DEF Fits
      <4> QED BY Zenon, <4>1, <4>2, <3>1, <2>1
    <3> QED BY Zenon, <3>1
  <2>4. (seg_idx \in 0 .. seg_count)' /\ First(seg_idx)' <= chunk' /\ chunk' <= Epilogue(seg_idx)'
        /\ (chunk = Epilogue(seg_idx) \/ chunk \in heads)'
    BY <1>0, <1>1, <1>2, SegmentFacts DEF alloc_skip, ghosts
  <2> QED BY Zenon, <2>3, <2>4 DEF alloc_skip, WalkOK, tags, ghosts
<1>5. Structure' /\ ForwardOK'
  BY Zenon, StructureUnchanged DEF Structure, alloc_skip, OnChunk, ForwardOK, tags, ghosts
<1> QED BY Zenon, <1>3, <1>4, <1>5 DEF Structure

LEMMA AllocNextSegmentStep ==
  ASSUME IInv, alloc_next_segment
  PROVE  IInv'
<1> USE DEF IInv
<1>1. seg_idx \in Segments /\ chunk = Epilogue(seg_idx)
  <2>1. seg_idx \in Segments /\ (chunk = Epilogue(seg_idx) \/ chunk \in heads)
        /\ chunk <= Epilogue(seg_idx)
    BY SegmentFacts DEF alloc_next_segment, WalkOK
  <2>2. chunk \in heads => size[chunk] >= 2 /\ size[chunk] \in Nat
    BY Zenon, HeadFacts DEF alloc_next_segment
  <2> QED
    BY <2>1, <2>2, SegmentFacts, HeadFacts DEF alloc_next_segment
<1>2. TypeOK'
  <2>1. chunk' \in Nat /\ seg_idx' \in 0 .. MAX_SEGMENTS
    BY <1>1, SegmentFacts DEF alloc_next_segment, WalkStart
  <2> QED
    BY Zenon, <2>1 DEF alloc_next_segment, TypeOK, tags, counts, merge, ghosts
<1>3. WalkOK'
  <2>1. (seg_idx < seg_count => chunk = First(seg_idx) /\ chunk \in heads)'
    BY <1>1, SegmentFacts DEF alloc_next_segment, Tiling, WalkStart, ghosts
  <2>2. ASSUME NEW h \in heads, Passed(h)' PROVE Passed(h)
    <3>1. h \in Nat /\ seg_idx' = seg_idx + 1 /\ Segments' = Segments
          /\ segments' = segments /\ seg_count' = seg_count
      BY Zenon, HeadFacts DEF alloc_next_segment
    <3>2. PICK i \in Segments : /\ First(i) <= h /\ h < Epilogue(i)
                                /\ i < seg_idx' \/ (i = seg_idx' /\ h < chunk')
      BY Zenon, <2>2, <3>1 DEF Passed
    <3>3. i < seg_idx'
      BY <2>1, <3>1, <3>2, SegmentFacts
    <3>4. i < seg_idx \/ i = seg_idx
      BY <1>1, <3>1, <3>3, SegmentFacts
    <3> QED BY Zenon, <1>1, <3>2, <3>4 DEF Passed
  <2>3. (seg_idx \in 0 .. seg_count)'
    BY <1>1, SegmentFacts DEF alloc_next_segment
  <2>4. (\A h \in heads : Passed(h) => inuse[h] \/ size[h] < Needed(request))'
    BY Zenon, <2>2 DEF WalkOK, alloc_next_segment, tags, ghosts
  <2> QED BY <2>1, <2>3, <2>4, <1>1, SegmentFacts DEF alloc_next_segment, WalkOK
<1>4. Structure' /\ ForwardOK'
  BY Zenon, StructureUnchanged DEF Structure, alloc_next_segment, ForwardOK, tags, ghosts
<1> QED BY Zenon, <1>2, <1>3, <1>4 DEF Structure

LEMMA AllocOomStep ==
  ASSUME IInv, alloc_oom
  PROVE  IInv'
<1> USE DEF IInv
<1>1. TypeOK' /\ WalkOK' /\ ForwardOK'
  <2>1. request' \in Nat /\ seg_idx' \in 0 .. MAX_SEGMENTS /\ chunk' \in Nat
    BY ConstantAssumption DEF alloc_oom
  <2> QED
    BY Zenon, <2>1 DEF alloc_oom, TypeOK, WalkOK, ForwardOK, tags, counts, merge, ghosts
<1>2. Structure'
  BY Zenon, StructureUnchanged DEF Structure, alloc_oom, tags, ghosts
<1> QED BY Zenon, <1>1, <1>2 DEF Structure

LEMMA DeallocRefuseStep ==
  ASSUME IInv, NEW p \in FreeInputs, dealloc_refuse(p)
  PROVE  IInv'
<1> USE DEF IInv
<1>1. TypeOK' /\ WalkOK' /\ ForwardOK'
  BY Zenon DEF dealloc_refuse, Refuse, TypeOK, WalkOK, ForwardOK,
     tags, counts, walk, merge, ghosts
<1>2. Structure'
  BY Zenon, StructureUnchanged DEF Structure, dealloc_refuse, Refuse, tags, ghosts
<1> QED BY Zenon, <1>1, <1>2 DEF Structure

-----------------------------------------------------------------------------
\* Fences lie in no chunk, the end of a chunk is a cell, and two chunks do not
\* end at the same address.
LEMMA ApartFacts ==
  ASSUME TypeOK, SegmentsOK, Tiling
  PROVE  /\ \A h \in heads : \A i \in Segments :
              /\ Base(i) < h \/ h + ChunkLen(h) <= Base(i)
              /\ Epilogue(i) < h \/ h + ChunkLen(h) <= Epilogue(i)
              /\ h + ChunkLen(h) # Base(i)
              /\ h + ChunkLen(h) # First(i)
         /\ \A h \in heads : h + ChunkLen(h) \in Addr
         /\ \A g, h \in heads : g + ChunkLen(g) = h + ChunkLen(h) => g = h
         /\ \A i \in Segments : Base(i) \in Addr /\ Epilogue(i) \in Addr
<1>1. ASSUME NEW h \in heads
      PROVE  /\ h + ChunkLen(h) \in Addr
             /\ \A i \in Segments :
                  /\ Base(i) < h \/ h + ChunkLen(h) <= Base(i)
                  /\ Epilogue(i) < h \/ h + ChunkLen(h) <= Epilogue(i)
                  /\ h + ChunkLen(h) # Base(i)
                  /\ h + ChunkLen(h) # First(i)
  <2>1. h \in Nat /\ ChunkLen(h) \in Nat /\ ChunkLen(h) >= 2
    BY Zenon, HeadFacts
  <2>2. PICK i \in Segments : First(i) <= h /\ h + ChunkLen(h) <= Epilogue(i)
    BY Zenon, HeadFacts
  <2>3. h + ChunkLen(h) \in Addr
    BY <2>1, <2>2, SegmentFacts
  <2>4. ASSUME NEW j \in Segments
        PROVE /\ Base(j) < h \/ h + ChunkLen(h) <= Base(j)
              /\ Epilogue(j) < h \/ h + ChunkLen(h) <= Epilogue(j)
              /\ h + ChunkLen(h) # Base(j)
              /\ h + ChunkLen(h) # First(j)
    <3>1. CASE i = j BY <3>1, <2>1, <2>2, SegmentFacts
    <3>2. CASE i # j BY <3>2, <2>1, <2>2, SegmentFacts
    <3> QED BY Zenon, <3>1, <3>2
  <2> QED BY Zenon, <2>3, <2>4
<1>2. ASSUME NEW g \in heads, NEW h \in heads, g + ChunkLen(g) = h + ChunkLen(h)
      PROVE  g = h
  BY <1>2, HeadFacts
<1>3. \A i \in Segments : Base(i) \in Addr /\ Epilogue(i) \in Addr
  BY SegmentFacts
<1> QED BY Zenon, <1>1, <1>2, <1>3

\* Where the walk stands when it finds a chunk that fits.
LEMMA FoundFacts ==
  ASSUME IInv, OnChunk, Fits
  PROVE  /\ pc = "walk" /\ chunk \in heads /\ chunk \in Addr /\ chunk \in Nat
         /\ inuse[chunk] = FALSE
         /\ size[chunk] \in Nat /\ size[chunk] >= 2
         /\ \A h \in heads : ChunkLen(h) = size[h] /\ ~Freeing(h)
         /\ request \in Nat /\ Needed(request) \in Nat /\ Needed(request) >= 2
         /\ size[chunk] >= Needed(request)
<1> USE DEF IInv
<1>1. /\ pc = "walk" /\ seg_idx < seg_count /\ chunk < Epilogue(seg_idx)
      /\ size[chunk] >= 2
  BY Zenon DEF OnChunk
<1>2. seg_idx \in Segments
  BY <1>1, SegmentFacts DEF WalkOK
<1>3. chunk \in heads
  BY <1>1, <1>2, SegmentFacts DEF WalkOK, TypeOK
<1>4. request \in Nat
  BY Zenon DEF TypeOK
<1> QED
  BY Zenon, <1>1, <1>3, <1>4, HeadFacts, NeededProperties DEF Fits, Freeing

LEMMA AllocTakeStep ==
  ASSUME IInv, alloc_take
  PROVE  IInv'
<1> USE DEF IInv
<1> DEFINE k == chunk
           e == k + size[k]
<1>0. /\ OnChunk /\ Fits
      /\ segments' = segments /\ seg_count' = seg_count /\ heads' = heads
      /\ size' = size /\ prevsize' = prevsize
      /\ inuse' = [inuse EXCEPT ![k] = TRUE]
      /\ previnuse' = [previnuse EXCEPT ![e] = TRUE]
      /\ pc' = "idle"
      /\ freed' = freed \ (k .. k + size[k] - 1)
      /\ live' = [p \in DOMAIN live \cup {k + 1} |-> IF p = k + 1 THEN request ELSE live[p]]
  <2>1. live' = [p \in DOMAIN live \cup {k + 1} |-> IF p = k + 1 THEN request ELSE live[p]]
    BY Zenon DEF alloc_take, Splits, HandOut
  <2>2. /\ OnChunk /\ Fits /\ pc' = "idle"
        /\ inuse' = [inuse EXCEPT ![k] = TRUE]
        /\ previnuse' = [previnuse EXCEPT ![e] = TRUE]
        /\ freed' = freed \ (k .. k + size[k] - 1)
    BY Zenon DEF alloc_take, Splits, HandOut
  <2>3. /\ segments' = segments /\ seg_count' = seg_count /\ heads' = heads
        /\ size' = size /\ prevsize' = prevsize
    BY Zenon DEF alloc_take, Splits, HandOut
  <2> QED BY Zenon, <2>1, <2>2, <2>3
<1>1. /\ pc = "walk" /\ k \in heads /\ k \in Addr /\ k \in Nat /\ inuse[k] = FALSE
      /\ size[k] \in Nat /\ size[k] >= 2 /\ request \in Nat
      /\ \A h \in heads : ChunkLen(h) = size[h] /\ ~Freeing(h)
      /\ size[k] >= Needed(request)
  BY <1>0, FoundFacts, Zenon
<1>2. e \in Addr /\ e \in Nat /\ k + 1 \in Addr
  <2>1. e \in Addr
    BY Zenon, <1>1, ApartFacts
  <2> QED BY <1>1, <2>1, ConstantAssumption
<1>3. \A h \in heads : ChunkLen(h)' = size[h] /\ ~Freeing(h)'
  BY Zenon, <1>0 DEF ChunkLen, Freeing
<1>4. inuse \in [Addr -> BOOLEAN] /\ previnuse \in [Addr -> BOOLEAN]
  BY Zenon DEF TypeOK
<1>5. TypeOK'
  <2>1. inuse' \in [Addr -> BOOLEAN] /\ previnuse' \in [Addr -> BOOLEAN]
    BY <1>0, <1>4, Zenon
  <2>2. free_bytes' \in Int /\ alloc_count' \in Int /\ request' \in Nat
        /\ seg_idx' \in 0 .. MAX_SEGMENTS /\ chunk' \in Nat
    BY <1>1, ConstantAssumption DEF alloc_take, Splits, HandOut, TypeOK
  <2>3. freed' \in SUBSET Addr
    BY <1>0, Zenon DEF TypeOK
  <2>4. DOMAIN live' \in SUBSET Addr /\ \A p \in DOMAIN live' : live'[p] \in Nat
    BY Zenon, <1>0, <1>1, <1>2 DEF TypeOK
  <2> QED
    BY <1>0, <2>1, <2>2, <2>3, <2>4, Zenon DEF alloc_take, Splits, HandOut, TypeOK, merge
<1>6. SegmentsOK'
  BY Zenon, <1>0 DEF SegmentsOK
<1>7. Tiling' /\ Preceded'
  <2>1. \A h \in heads : ChunkLen(h)' = ChunkLen(h)
    BY Zenon, <1>1, <1>3
  <2>2. Tiling' BY Zenon, <1>0, <2>1 DEF Tiling
  <2>3. Preceded' BY Zenon, <1>0, <2>1 DEF Preceded
  <2> QED BY Zenon, <2>2, <2>3
<1>8. BoundaryTags'
  <2>1. ASSUME NEW i \in Segments
        PROVE  /\ size'[Base(i)] = 1 /\ inuse'[Base(i)] /\ previnuse'[Base(i)]
               /\ size'[Epilogue(i)] = 1 /\ inuse'[Epilogue(i)]
               /\ previnuse'[First(i)]
    <3>1. First(i) \in Addr /\ Base(i) \in Addr /\ Epilogue(i) \in Addr
      BY Zenon, ApartFacts, HeadFacts DEF Tiling
    <3> QED BY <1>0, <1>4, <3>1 DEF BoundaryTags
  <2>2. ASSUME NEW h \in heads
        PROVE  LET next == h + size[h] IN
               /\ previnuse'[next] = inuse'[h]
               /\ ~inuse'[h] => prevsize[next] = size[h] /\ inuse'[next]
    <3>1. h + size[h] \in Addr /\ h \in Addr
      BY Zenon, <1>1, ApartFacts, HeadFacts
    <3>2. CASE h = k
      BY <1>0, <1>1, <1>2, <1>4, <3>2, Zenon
    <3>3. CASE h # k
      <4>1. h + size[h] # e
        BY <1>1, <3>3, ApartFacts, Zenon
      <4>2. inuse'[h] = inuse[h] /\ previnuse'[h + size[h]] = previnuse[h + size[h]]
        BY Zenon, <1>0, <1>4, <3>1, <3>3, <4>1
      <4>3. inuse[h + size[h]] => inuse'[h + size[h]]
        BY Zenon, <1>0, <1>4, <3>1
      <4> QED BY <1>1, <4>2, <4>3, Zenon DEF BoundaryTags
    <3> QED BY Zenon, <3>2, <3>3
  <2>3. segments' = segments /\ seg_count' = seg_count /\ heads' = heads
        /\ size' = size /\ prevsize' = prevsize
    BY Zenon, <1>0
  <2> QED BY Zenon, <2>1, <2>2, <2>3 DEF BoundaryTags
<1>9. LiveBlocks'
  <2>1. DOMAIN live = {h + 1 : h \in {g \in heads : inuse[g]}}
    BY <1>1, Zenon DEF LiveBlocks
  <2>2. \A g \in heads : inuse'[g] <=> inuse[g] \/ g = k
    BY Zenon, <1>0, <1>4, HeadFacts
  <2>3. DOMAIN live' = {h + 1 : h \in {g \in heads : inuse'[g]}}
    BY Zenon, <1>0, <1>1, <2>1, <2>2
  <2>4. ASSUME NEW p \in DOMAIN live' PROVE size[p - 1] >= Needed(live'[p])
    <3>1. CASE p = k + 1
      <4>1. p - 1 = k BY <1>1, <3>1
      <4> QED BY Zenon, <1>0, <1>1, <3>1, <4>1
    <3>2. CASE p # k + 1 BY Zenon, <1>0, <3>2 DEF LiveBlocks
    <3> QED BY Zenon, <3>1, <3>2
  <2> QED BY <1>0, <1>3, <2>3, <2>4, Zenon DEF LiveBlocks
<1>10. FreedOK'
  <2>1. ASSUME NEW a \in freed'
        PROVE  /\ ~inuse'[a]
               /\ \E i \in Segments : First(i) <= a /\ a < Epilogue(i)
               /\ \A h \in heads : inuse'[h] => a < h \/ h + size[h] <= a
    <3>1. a \in freed /\ a \in Addr /\ a \in Nat /\ (a < k \/ e <= a) /\ a # k
      <4>1. a \in freed /\ a \notin k .. k + size[k] - 1 BY Zenon, <1>0
      <4>2. a \in Addr /\ a \in Nat BY <4>1, ConstantAssumption DEF TypeOK
      <4> QED BY <1>1, <1>2, <4>1, <4>2
    <3>2. ~inuse'[a]
      BY Zenon, <1>0, <1>4, <3>1 DEF FreedOK
    <3>3. \A h \in heads : inuse'[h] => h = k \/ inuse[h]
      BY Zenon, <1>0, <1>4, HeadFacts
    <3> QED BY <1>1, <3>1, <3>2, <3>3, Zenon DEF FreedOK
  <2> QED BY Zenon, <1>0, <1>3, <2>1 DEF FreedOK
<1>11. WalkOK' /\ ForwardOK'
  BY Zenon, <1>0 DEF WalkOK, ForwardOK
<1> QED
  BY Zenon, <1>5, <1>6, <1>7, <1>8, <1>9, <1>10, <1>11

LEMMA AllocSplitStep ==
  ASSUME IInv, alloc_split
  PROVE  IInv'
<1> USE DEF IInv
<1> DEFINE k == chunk
           e == k + size[k]
           nd == Needed(request)
           r == k + nd
           rest == size[k] - nd
<1>0. /\ OnChunk /\ Fits /\ pc' = "idle" /\ rest >= 2
      /\ segments' = segments /\ seg_count' = seg_count
      /\ heads' = heads \cup {r}
      /\ prevsize' = [prevsize EXCEPT ![r] = nd, ![e] = rest]
      /\ size' = [size EXCEPT ![r] = rest, ![k] = nd]
      /\ inuse' = [inuse EXCEPT ![r] = FALSE, ![k] = TRUE]
      /\ previnuse' = [previnuse EXCEPT ![r] = TRUE]
      /\ freed' = freed \ (k .. k + nd - 1)
      /\ live' = [p \in DOMAIN live \cup {k + 1} |-> IF p = k + 1 THEN request ELSE live[p]]
  <2>1. live' = [p \in DOMAIN live \cup {k + 1} |-> IF p = k + 1 THEN request ELSE live[p]]
    BY Zenon DEF alloc_split, Splits, HandOut
  <2>2. /\ OnChunk /\ Fits /\ pc' = "idle" /\ rest >= 2
        /\ heads' = heads \cup {r}
        /\ prevsize' = [prevsize EXCEPT ![r] = nd, ![e] = rest]
        /\ size' = [size EXCEPT ![r] = rest, ![k] = nd]
        /\ inuse' = [inuse EXCEPT ![r] = FALSE, ![k] = TRUE]
        /\ previnuse' = [previnuse EXCEPT ![r] = TRUE]
        /\ freed' = freed \ (k .. k + nd - 1)
    BY Zenon DEF alloc_split, Splits, HandOut
  <2>3. segments' = segments /\ seg_count' = seg_count
    BY Zenon DEF alloc_split, Splits, HandOut
  <2> QED BY Zenon, <2>1, <2>2, <2>3
<1>1. /\ pc = "walk" /\ k \in heads /\ k \in Addr /\ k \in Nat /\ inuse[k] = FALSE
      /\ size[k] \in Nat /\ size[k] >= 2 /\ request \in Nat
      /\ \A h \in heads : ChunkLen(h) = size[h] /\ ~Freeing(h)
      /\ nd \in Nat /\ nd >= 2
  BY <1>0, FoundFacts, Zenon
<1> HIDE DEF nd
<1>2. /\ e \in Addr /\ r \in Addr /\ e \in Nat /\ r \in Nat /\ k + 1 \in Addr
      /\ k < r /\ r < e /\ rest \in Nat /\ r + rest = e
      /\ rest >= 2
  <2>1. e \in Addr
    BY Zenon, <1>1, ApartFacts
  <2> QED BY <1>0, <1>1, <2>1, ConstantAssumption
<1> HIDE DEF r, e, rest
<1>3. /\ prevsize \in [Addr -> Nat] /\ size \in [Addr -> Nat]
      /\ inuse \in [Addr -> BOOLEAN] /\ previnuse \in [Addr -> BOOLEAN]
  BY Zenon DEF TypeOK
<1>4. ASSUME NEW h \in heads
      PROVE  /\ h \in Nat /\ size[h] \in Nat
             /\ h = k \/ h + size[h] <= k \/ e <= h
  <2>1. h \in Nat /\ size[h] \in Nat BY Zenon, HeadFacts
  <2>2. h < k => h + size[h] <= k BY Zenon, <1>1, HeadFacts
  <2>3. k < h => e <= h BY Zenon, <1>1, HeadFacts DEF e
  <2> QED BY <1>1, <2>1, <2>2, <2>3
<1>5. /\ r \notin heads
      /\ \A h \in heads : h + size[h] # r /\ (h # k => h + size[h] # e)
  BY <1>1, <1>2, <1>4, ApartFacts, HeadFacts DEF e
<1>6. \A i \in Segments : Base(i) \notin {k, r, e} /\ Epilogue(i) \notin {k, r}
  BY <1>1, <1>2, ApartFacts, SegmentFacts DEF e
<1>7. /\ size'[k] = nd /\ inuse'[k] = TRUE /\ size'[r] = rest /\ inuse'[r] = FALSE
      /\ previnuse'[r] = TRUE /\ previnuse'[e] = previnuse[e] /\ inuse'[e] = inuse[e]
      /\ prevsize'[e] = rest
  <2>1. size'[k] = nd /\ inuse'[k] = TRUE
    BY Zenon, <1>0, <1>1, <1>3
  <2>2. size'[r] = rest /\ inuse'[r] = FALSE /\ previnuse'[r] = TRUE
    BY <1>0, <1>1, <1>2, <1>3
  <2>3. e # r /\ e # k /\ e \in Addr
    BY <1>1, <1>2
  <2>4. previnuse'[e] = previnuse[e] /\ inuse'[e] = inuse[e]
    BY Zenon, <1>0, <1>3, <2>3
  <2>5. prevsize'[e] = rest
    BY Zenon, <1>0, <1>3, <2>3
  <2> QED BY Zenon, <2>1, <2>2, <2>4, <2>5
<1>8. ASSUME NEW h \in heads, h # k
      PROVE  size'[h] = size[h] /\ inuse'[h] = inuse[h]
  BY Zenon, <1>0, <1>2, <1>3, <1>5, <1>8, HeadFacts
<1>9. /\ \A h \in heads' : ChunkLen(h)' = size'[h] /\ ~Freeing(h)'
  BY Zenon, <1>0 DEF ChunkLen, Freeing
<1>10. TypeOK'
  <2>1. /\ prevsize' \in [Addr -> Nat] /\ size' \in [Addr -> Nat]
        /\ inuse' \in [Addr -> BOOLEAN] /\ previnuse' \in [Addr -> BOOLEAN]
    BY <1>0, <1>1, <1>2, <1>3, Zenon
  <2>2. free_bytes' \in Int /\ alloc_count' \in Int /\ request' \in Nat
        /\ seg_idx' \in 0 .. MAX_SEGMENTS /\ chunk' \in Nat
    BY <1>1, ConstantAssumption DEF alloc_split, Splits, HandOut, TypeOK, nd
  <2>3. freed' \in SUBSET Addr /\ heads' \in SUBSET Addr
    BY <1>0, <1>2, Zenon DEF TypeOK
  <2>4. DOMAIN live' \in SUBSET Addr /\ \A p \in DOMAIN live' : live'[p] \in Nat
    BY Zenon, <1>0, <1>1, <1>2 DEF TypeOK
  <2> QED
    BY <1>0, <2>1, <2>2, <2>3, <2>4, Zenon DEF alloc_split, Splits, HandOut, TypeOK, merge
<1>11. SegmentsOK'
  BY Zenon, <1>0 DEF SegmentsOK
<1>12. Tiling'
  <2>1. \A i \in Segments : First(i) \in heads'
    BY Zenon, <1>0 DEF Tiling
  <2>2. ASSUME NEW h \in heads'
        PROVE  /\ size'[h] >= 2
               /\ \E i \in Segments :
                    /\ First(i) <= h
                    /\ h + size'[h] <= Epilogue(i)
                    /\ h + size'[h] = Epilogue(i) \/ h + size'[h] \in heads'
    <3>1. PICK i \in Segments :
            First(i) <= k /\ e <= Epilogue(i) /\ (e = Epilogue(i) \/ e \in heads)
      BY Zenon, <1>1, HeadFacts DEF e
    <3>0. heads' = heads \cup {r} BY Zenon, <1>0
    <3>2. CASE h = k
      <4>1. k + size'[k] = r BY Zenon, <1>7 DEF r
      <4>2. First(i) <= k /\ r <= Epilogue(i)
        BY <1>2, <3>1, SegmentFacts
      <4> QED BY Zenon, <3>0, <1>1, <1>7, <3>2, <4>1, <4>2
    <3>3. CASE h = r
      <4>1. r + size'[r] = e BY Zenon, <1>7, <1>2
      <4>2. First(i) <= r
        BY <1>1, <1>2, <3>1, SegmentFacts
      <4> QED BY Zenon, <3>0, <1>2, <1>7, <3>1, <3>3, <4>1, <4>2
    <3>4. CASE h \in heads /\ h # k
      <4>1. size'[h] = size[h] BY Zenon, <1>8, <3>4
      <4> QED BY Zenon, <3>0, <1>1, <3>4, <4>1, HeadFacts
    <3> QED BY <1>0, <3>2, <3>3, <3>4, Zenon
  <2>3. ASSUME NEW g \in heads', NEW h \in heads', g < h PROVE g + size'[g] <= h
    <3>1. CASE g = k
      <4>1. g + size'[g] = r BY Zenon, <1>7, <3>1 DEF r
      <4>2. h = r \/ (h \in Nat /\ e <= h)
        BY <1>0, <1>1, <1>4, <2>3, <3>1, HeadFacts
      <4> QED BY <1>2, <4>1, <4>2
    <3>2. CASE g = r
      <4>1. g + size'[g] = e BY Zenon, <1>2, <1>7, <3>2
      <4>2. h \in heads /\ h # k /\ k < h
        BY <1>0, <1>1, <1>2, <2>3, <3>2, HeadFacts
      <4>3. k + size[k] <= h BY Zenon, <1>1, <4>2, HeadFacts
      <4> QED BY <4>1, <4>3, Zenon DEF e
    <3>3. CASE g \in heads /\ g # k
      <4>1. size'[g] = size[g] BY Zenon, <1>8, <3>3
      <4>2. CASE h = r
        BY <1>1, <1>2, <1>4, <2>3, <3>3, <4>1, <4>2, HeadFacts
      <4>3. CASE h \in heads
        BY Zenon, <1>1, <2>3, <3>3, <4>1, <4>3, HeadFacts
      <4> QED BY Zenon, <1>0, <4>2, <4>3
    <3> QED BY Zenon, <1>0, <3>1, <3>2, <3>3
  <2>4. segments' = segments /\ seg_count' = seg_count
    BY Zenon, <1>0
  <2> QED BY Zenon, <1>9, <2>1, <2>2, <2>3, <2>4 DEF Tiling
<1>13. Preceded'
  <2>1. ASSUME NEW h \in heads'
        PROVE  (\E i \in Segments : h = First(i)) \/ \E g \in heads' : g + size'[g] = h
    <3>1. CASE h = r
      BY Zenon, <1>0, <1>1, <1>7, <3>1 DEF r
    <3>2. CASE h \in heads /\ \E i \in Segments : h = First(i)
      BY Zenon, <3>2
    <3>3. ASSUME h \in heads, NEW g \in heads, g + size[g] = h
          PROVE  \E f \in heads' : f + size'[f] = h
      <4>1. CASE g = k
        BY Zenon, <1>0, <1>2, <1>7, <3>3, <4>1 DEF e
      <4>2. CASE g # k
        BY <1>0, <1>8, <3>3, <4>2, Zenon
      <4> QED BY Zenon, <4>1, <4>2
    <3> QED BY <1>0, <1>1, <3>1, <3>2, <3>3, Zenon DEF Preceded
  <2>2. segments' = segments /\ seg_count' = seg_count
    BY Zenon, <1>0
  <2> QED BY Zenon, <1>9, <2>1, <2>2 DEF Preceded
<1>14. BoundaryTags'
  <2>1. ASSUME NEW i \in Segments
        PROVE  /\ size'[Base(i)] = 1 /\ inuse'[Base(i)] /\ previnuse'[Base(i)]
               /\ size'[Epilogue(i)] = 1 /\ inuse'[Epilogue(i)]
               /\ previnuse'[First(i)]
    <3>1. First(i) \in Addr /\ Base(i) \in Addr /\ Epilogue(i) \in Addr
      BY Zenon, ApartFacts, HeadFacts DEF Tiling
    <3>2. Base(i) \notin {k, r} /\ Epilogue(i) \notin {k, r}
      BY Zenon, <1>6
    <3> QED BY <1>0, <1>3, <3>1, <3>2, SMTT(20) DEF BoundaryTags
  <2>2. ASSUME NEW h \in heads'
        PROVE  LET next == h + size'[h] IN
               /\ previnuse'[next] = inuse'[h]
               /\ ~inuse'[h] => prevsize'[next] = size'[h] /\ inuse'[next]
    <3>1. CASE h = k
      <4>1. h + size'[h] = r BY Zenon, <1>7, <3>1 DEF r
      <4> QED BY <1>7, <3>1, <4>1, Zenon
    <3>2. CASE h = r
      <4>1. h + size'[h] = e BY Zenon, <1>2, <1>7, <3>2
      <4>2. previnuse[e] = inuse[k] /\ inuse[e]
        BY Zenon, <1>1 DEF BoundaryTags, e
      <4> QED BY <1>1, <1>7, <3>2, <4>1, <4>2, Zenon
    <3>3. CASE h \in heads /\ h # k
      <4> DEFINE x == h + size[h]
      <4>1. size'[h] = size[h] /\ inuse'[h] = inuse[h]
        BY Zenon, <1>8, <3>3
      <4>2. x \in Addr /\ x # r /\ x # e
        BY Zenon, <1>1, <1>5, <3>3, ApartFacts
      <4>3. previnuse[x] = inuse[h] /\ (~inuse[h] => prevsize[x] = size[h] /\ inuse[x])
        BY Zenon, <1>1, <3>3 DEF BoundaryTags
      <4> HIDE DEF x
      <4>4. previnuse'[x] = previnuse[x] /\ prevsize'[x] = prevsize[x]
            /\ (inuse[x] => inuse'[x])
        BY Zenon, <1>0, <1>3, <4>2
      <4>5. h + size'[h] = x
        BY Zenon, <4>1 DEF x
      <4> QED BY Zenon, <4>1, <4>3, <4>4, <4>5
    <3> QED BY <1>0, <3>1, <3>2, <3>3, Zenon
  <2>3. segments' = segments /\ seg_count' = seg_count
    BY Zenon, <1>0
  <2> QED BY <2>1, <2>2, <2>3, SMTT(20) DEF BoundaryTags
<1>15. LiveBlocks'
  <2>1. DOMAIN live = {h + 1 : h \in {g \in heads : inuse[g]}}
    BY <1>1, Zenon DEF LiveBlocks
  <2>2. \A g \in heads' : inuse'[g] <=> g = k \/ (g \in heads /\ inuse[g])
    BY <1>0, <1>1, <1>2, <1>5, <1>7, <1>8, Zenon
  <2>3. DOMAIN live' = {h + 1 : h \in {g \in heads' : inuse'[g]}}
    <3>1. {g \in heads' : inuse'[g]} = {g \in heads : inuse[g]} \cup {k}
      BY <1>0, <1>1, <2>2, Zenon
    <3> QED BY <1>0, <2>1, <3>1, Zenon
  <2>4. ASSUME NEW p \in DOMAIN live' PROVE size'[p - 1] >= Needed(live'[p])
    <3>1. CASE p = k + 1
      <4>1. p - 1 = k BY <1>1, <3>1
      <4> QED BY <1>0, <1>1, <1>7, <3>1, <4>1 DEF nd
    <3>2. CASE p # k + 1
      <4>1. p \in DOMAIN live /\ live'[p] = live[p] BY Zenon, <1>0, <3>2
      <4>2. PICK h \in heads : inuse[h] /\ p = h + 1 BY Zenon, <2>1, <4>1
      <4>3. h # k /\ p - 1 = h BY <1>1, <4>2, HeadFacts
      <4>4. size'[p - 1] = size[p - 1] BY Zenon, <1>8, <4>3
      <4> QED BY Zenon, <4>1, <4>4 DEF LiveBlocks
    <3> QED BY Zenon, <3>1, <3>2
  <2> QED BY Zenon, <1>9, <2>3, <2>4 DEF LiveBlocks
<1>16. FreedOK'
  <2>1. ASSUME NEW a \in freed'
        PROVE  /\ ~inuse'[a]
               /\ \E i \in Segments : First(i) <= a /\ a < Epilogue(i)
               /\ \A h \in heads' : inuse'[h] => a < h \/ h + size'[h] <= a
    <3>1. a \in freed /\ a \in Addr /\ a \in Nat /\ (a < k \/ r <= a) /\ a # k
      <4>1. a \in freed /\ a \notin k .. k + nd - 1 BY Zenon, <1>0
      <4>2. a \in Addr /\ a \in Nat BY <4>1, ConstantAssumption DEF TypeOK
      <4> QED BY <1>1, <1>2, <4>1, <4>2 DEF r
    <3>2. ~inuse'[a]
      BY Zenon, <1>0, <1>3, <3>1 DEF FreedOK
    <3>3. ASSUME NEW h \in heads', inuse'[h] PROVE a < h \/ h + size'[h] <= a
      <4>1. CASE h = k
        <5>1. h + size'[h] = r BY Zenon, <1>7, <4>1 DEF r
        <5> QED BY Zenon, <3>1, <4>1, <5>1
      <4>2. CASE h # k
        <5>1. h \in heads BY <1>0, <1>7, <3>3, <4>2, SMTT(20)
        <5> QED BY Zenon, <1>1, <1>8, <3>1, <3>3, <4>2, <5>1 DEF FreedOK
      <4> QED BY Zenon, <4>1, <4>2
    <3> QED BY Zenon, <3>1, <3>2, <3>3 DEF FreedOK
  <2>2. segments' = segments /\ seg_count' = seg_count
    BY Zenon, <1>0
  <2> QED BY Zenon, <1>9, <2>1, <2>2 DEF FreedOK
<1>17. WalkOK' /\ ForwardOK'
  BY Zenon, <1>0 DEF WalkOK, ForwardOK
<1> QED
  BY Zenon, <1>10, <1>11, <1>12, <1>13, <1>14, <1>15, <1>16, <1>17

-----------------------------------------------------------------------------
(* dealloc, step by step.                                                  *)

\* Only a block a client holds passes the checks of dealloc.
LEMMA DeallocTarget ==
  ASSUME IInv, pc = "idle", NEW p \in FreeInputs, WellPlaced(p), inuse[ChunkOf(p)]
  PROVE  /\ ChunkOf(p) \in heads
         /\ Owner(ChunkOf(p)) \in Segments
         /\ First(Owner(ChunkOf(p))) <= ChunkOf(p)
         /\ ChunkOf(p) < Epilogue(Owner(ChunkOf(p)))
<1> USE DEF IInv
<1> DEFINE a == ChunkOf(p)
<1>1. PICK i \in Segments : First(i) <= a /\ a < Epilogue(i)
  BY Zenon DEF WellPlaced, Owners
<1>2. a \in heads
  <2>1. CASE p \in BogusPtrs
    <3>1. PICK r \in Regions : segments[i] = [base |-> RegionBase(r), end |-> RegionEnd(r)]
      BY Zenon, <1>1 DEF SegmentsOK
    <3>2. p \in Nat /\ (p \div 16) \in Nat /\ a = (p \div 16) - 1
      BY <2>1, ConstantAssumption DEF ChunkOf, CHUNK_ALIGN
    <3>3. (p \div 16) \in RegionBase(r) + 2 .. RegionEnd(r) - 1
      BY <1>1, <3>1, <3>2, RegionProperties
    <3> QED BY Zenon, <2>1, <3>3, BogusAssumption DEF WellPlaced, CHUNK_ALIGN
  <2>2. CASE p \in {(x + HEADER_SIZE) * CHUNK_ALIGN : x \in freed}
    <3>1. PICK x \in freed : p = (x + HEADER_SIZE) * CHUNK_ALIGN
      BY Zenon, <2>2
    <3>2. x \in Nat BY ConstantAssumption DEF TypeOK
    <3>3. a = x BY Zenon, <3>1, <3>2, PointerOfChunk
    <3> QED BY Zenon, <3>3 DEF FreedOK
  <2>3. CASE p \in {q * CHUNK_ALIGN : q \in DOMAIN live}
    <3>1. PICK q \in DOMAIN live : p = q * CHUNK_ALIGN
      BY Zenon, <2>3
    <3>2. PICK h \in heads : q = h + 1
      BY Zenon DEF LiveBlocks
    <3>3. h \in Nat BY Zenon, HeadFacts
    <3>4. a = h BY Zenon, <3>1, <3>2, <3>3, PointerOfChunk
    <3> QED BY Zenon, <3>4
  <2> QED BY Zenon, <2>1, <2>2, <2>3 DEF FreeInputs
<1>3. Owner(a) \in Segments /\ First(Owner(a)) <= a /\ a < Epilogue(Owner(a))
  <2> DEFINE Os == Owners(a)
  <2>1. \A j \in Os : j \in Segments /\ First(j) <= a /\ a < Epilogue(j)
    BY Zenon DEF Owners
  <2>2. \A j \in Os : j = i
    BY <1>1, <1>2, <2>1, HeadFacts, SegmentFacts
  <2>3. i \in Os BY Zenon, <1>1 DEF Owners
  <2>4. \E j \in Os : \A m \in Os : j <= m
    BY <2>2, <2>3, SegmentFacts
  <2>5. Owner(a) \in Os
    BY Zenon, <2>4 DEF Owner
  <2> QED BY Zenon, <2>1, <2>5
<1> QED BY Zenon, <1>2, <1>3

\* Chunk x disappears into the span that ends where it starts: the step both
\* directions of coalescing take.
LEMMA MergeStep ==
  ASSUME IInv, NEW g \in heads, NEW x \in heads, g + ChunkLen(g) = x,
         \A h \in heads : h # g => ~Freeing(h),
         segments' = segments, seg_count' = seg_count, freed' = freed,
         heads' = heads \ {x}, pc' = "forward",
         span' = g, span_size' = ChunkLen(g) + size[x],
         size' = [size EXCEPT ![x] = 0],
         inuse' = [inuse EXCEPT ![x] = FALSE],
         previnuse' = [previnuse EXCEPT ![x] = FALSE],
         prevsize' = prevsize
  PROVE  Tiling' /\ Preceded' /\ BoundaryTags' /\ FreedOK'
<1> USE DEF IInv
<1> DEFINE e == x + size[x]
<1>1. /\ g \in Nat /\ x \in Nat /\ g < x /\ x \in Addr
      /\ ChunkLen(g) \in Nat /\ ChunkLen(g) >= 2
      /\ ChunkLen(x) = size[x] /\ size[x] \in Nat /\ size[x] >= 2
      /\ e \in Nat /\ x < e
  <2>1. /\ g \in Nat /\ x \in Nat /\ x \in Addr
        /\ ChunkLen(g) \in Nat /\ ChunkLen(g) >= 2
        /\ size[x] \in Nat /\ ChunkLen(x) >= 2
    BY Zenon, HeadFacts
  <2>2. g < x BY <2>1
  <2>3. ChunkLen(x) = size[x] BY <2>2, <2>1, HeadFacts
  <2> QED BY <2>1, <2>2, <2>3
<1>2. ASSUME NEW h \in heads, h # g, h # x
      PROVE  /\ h \in Nat /\ h \in Addr /\ ~Freeing(h) /\ ~Freeing(h)' /\ size[h] \in Nat
             /\ ChunkLen(h) = size[h] /\ size'[h] = size[h] /\ ChunkLen(h)' = size[h]
             /\ inuse'[h] = inuse[h]
  <2>1. h \in Nat /\ h \in Addr /\ ~Freeing(h) /\ size[h] \in Nat /\ ChunkLen(h) = size[h]
    BY Zenon, <1>2, HeadFacts
  <2>2. size'[h] = size[h] /\ inuse'[h] = inuse[h]
    BY Zenon, <1>2, <2>1 DEF TypeOK
  <2>3. ~Freeing(h)'
    BY Zenon, <1>2 DEF Freeing
  <2> QED BY <2>1, <2>2, <2>3, Zenon DEF ChunkLen
<1>3. Freeing(g)' /\ ChunkLen(g)' = ChunkLen(g) + size[x] /\ g + (ChunkLen(g) + size[x]) = e
  BY <1>1 DEF Freeing, ChunkLen
<1>4. g \in heads' /\ heads' \subseteq heads /\ x \notin heads'
  BY <1>1
<1>5. \A h \in heads : h # g => h + ChunkLen(h) # x
  BY Zenon, ApartFacts
<1>6. Tiling'
  <2>1. \A i \in Segments : First(i) \in heads'
    BY Zenon, ApartFacts DEF Tiling
  <2>2. ASSUME NEW h \in heads'
        PROVE  /\ ChunkLen(h)' >= 2
               /\ \E i \in Segments :
                    /\ First(i) <= h
                    /\ h + ChunkLen(h)' <= Epilogue(i)
                    /\ h + ChunkLen(h)' = Epilogue(i) \/ h + ChunkLen(h)' \in heads'
    <3>1. CASE h = g
      <4>1. PICK i \in Segments : First(i) <= g /\ x <= Epilogue(i)
        BY Zenon, HeadFacts
      <4>2. PICK j \in Segments :
              First(j) <= x /\ e <= Epilogue(j) /\ (e = Epilogue(j) \/ e \in heads)
        BY Zenon, <1>1, HeadFacts
      <4>3. i = j
        BY <1>1, <4>1, <4>2, SegmentFacts
      <4>4. e \in heads => e \in heads'
        BY <1>1
      <4>5. h + ChunkLen(h)' = e BY Zenon, <1>3, <3>1
      <4>6. ChunkLen(h)' >= 2 BY <1>1, <1>3, <3>1
      <4> HIDE DEF e
      <4> QED BY Zenon, <3>1, <4>1, <4>2, <4>3, <4>4, <4>5, <4>6
    <3>2. CASE h # g
      <4>1. h \in heads /\ h # x /\ ChunkLen(h)' = ChunkLen(h)
        BY Zenon, <1>2, <1>4, <3>2
      <4>2. h + ChunkLen(h) # x BY Zenon, <1>5, <3>2, <4>1
      <4> QED BY Zenon, <4>1, <4>2, HeadFacts
    <3> QED BY Zenon, <3>1, <3>2
  <2>3. ASSUME NEW f \in heads', NEW h \in heads', f < h PROVE f + ChunkLen(f)' <= h
    <3>1. f \in heads /\ h \in heads /\ h # x /\ f # x BY Zenon, <1>4
    <3>2. CASE f = g
      <4>1. x <= h BY Zenon, <2>3, <3>1, <3>2, HeadFacts
      <4>2. x < h BY <1>1, <3>1, <4>1, HeadFacts
      <4>3. e <= h BY Zenon, <1>1, <3>1, <4>2, HeadFacts
      <4> QED BY Zenon, <1>3, <3>2, <4>3
    <3>3. CASE f # g
      BY Zenon, <1>2, <2>3, <3>1, <3>3, HeadFacts
    <3> QED BY Zenon, <3>2, <3>3
  <2> QED BY Zenon, <2>1, <2>2, <2>3 DEF Tiling
<1>7. Preceded'
  <2>1. ASSUME NEW h \in heads'
        PROVE  \/ \E i \in Segments : h = First(i)
               \/ \E f \in heads' : f + ChunkLen(f)' = h
    <3>1. ASSUME NEW f \in heads, f + ChunkLen(f) = h
          PROVE  \E d \in heads' : d + ChunkLen(d)' = h
      <4>1. CASE f = x BY Zenon, <1>1, <1>3, <1>4, <3>1, <4>1
      <4>2. CASE f = g BY Zenon, <1>4, <3>1, <4>2
      <4>3. CASE f # x /\ f # g
        <5>1. f \in heads' /\ f + ChunkLen(f)' = h BY Zenon, <1>2, <3>1, <4>3
        <5> QED BY Zenon, <5>1
      <4> QED BY Zenon, <4>1, <4>2, <4>3
    <3> QED BY Zenon, <1>4, <3>1 DEF Preceded
  <2> QED BY Zenon, <2>1 DEF Preceded
<1>8. BoundaryTags'
  <2>1. ASSUME NEW i \in Segments
        PROVE  /\ size'[Base(i)] = 1 /\ inuse'[Base(i)] /\ previnuse'[Base(i)]
               /\ size'[Epilogue(i)] = 1 /\ inuse'[Epilogue(i)]
               /\ previnuse'[First(i)]
    <3>1. First(i) \in Addr /\ Base(i) \in Addr /\ Epilogue(i) \in Addr
      BY Zenon, ApartFacts, HeadFacts DEF Tiling
    <3>2. Base(i) # x /\ First(i) # x
      BY Zenon, ApartFacts
    <3>3. Epilogue(i) # x
      BY <1>1, ApartFacts, SegmentFacts
    <3>4. /\ size'[Base(i)] = size[Base(i)] /\ inuse'[Base(i)] = inuse[Base(i)]
          /\ previnuse'[Base(i)] = previnuse[Base(i)]
      BY Zenon, <3>1, <3>2 DEF TypeOK
    <3>5. /\ size'[Epilogue(i)] = size[Epilogue(i)] /\ inuse'[Epilogue(i)] = inuse[Epilogue(i)]
          /\ previnuse'[First(i)] = previnuse[First(i)]
      BY Zenon, <3>1, <3>2, <3>3 DEF TypeOK
    <3> QED BY <3>4, <3>5, Zenon DEF BoundaryTags
  <2>2. ASSUME NEW h \in heads', ~Freeing(h)'
        PROVE  LET next == h + size'[h] IN
               /\ previnuse'[next] = inuse'[h]
               /\ ~inuse'[h] => prevsize'[next] = size'[h] /\ inuse'[next]
    <3> DEFINE y == h + size[h]
    <3>1. h \in heads /\ h # g /\ h # x
      BY Zenon, <1>3, <1>4, <2>2
    <3>2. size'[h] = size[h] /\ inuse'[h] = inuse[h] /\ ~Freeing(h) /\ ChunkLen(h) = size[h]
      BY Zenon, <1>2, <3>1
    <3>3. y # x /\ y \in Addr
      BY Zenon, <1>5, <3>1, <3>2, ApartFacts
    <3>4. previnuse[y] = inuse[h] /\ (~inuse[h] => prevsize[y] = size[h] /\ inuse[y])
      BY Zenon, <3>1, <3>2 DEF BoundaryTags
    <3> HIDE DEF y
    <3>5. previnuse'[y] = previnuse[y] /\ inuse'[y] = inuse[y]
      BY Zenon, <3>3 DEF TypeOK
    <3>6. h + size'[h] = y
      BY Zenon, <3>2 DEF y
    <3> QED BY <3>2, <3>4, <3>5, <3>6, Zenon
  <2>3. (\A i \in Segments :
           /\ size[Base(i)] = 1 /\ inuse[Base(i)] /\ previnuse[Base(i)]
           /\ size[Epilogue(i)] = 1 /\ inuse[Epilogue(i)]
           /\ previnuse[First(i)])'
    BY Zenon, <2>1
  <2> QED BY <2>2, <2>3, Zenon DEF BoundaryTags
<1>9. FreedOK'
  <2>1. ASSUME NEW a \in freed
        PROVE  /\ ~inuse'[a]
               /\ \E i \in Segments : First(i) <= a /\ a < Epilogue(i)
               /\ \A h \in heads' : inuse'[h] /\ ~Freeing(h)' => a < h \/ h + ChunkLen(h)' <= a
    <3>1. a \in Addr /\ ~inuse[a] BY Zenon DEF TypeOK, FreedOK
    <3>2. ~inuse'[a] BY Zenon, <3>1 DEF TypeOK
    <3>3. ASSUME NEW h \in heads', inuse'[h], ~Freeing(h)'
          PROVE  a < h \/ h + ChunkLen(h)' <= a
      <4>1. h \in heads /\ h # g /\ h # x BY Zenon, <1>3, <1>4, <3>3
      <4>2. inuse[h] /\ ~Freeing(h) /\ ChunkLen(h)' = ChunkLen(h) BY Zenon, <1>2, <3>3, <4>1
      <4> QED BY Zenon, <4>1, <4>2 DEF FreedOK
    <3> QED BY Zenon, <3>2, <3>3 DEF FreedOK
  <2> QED BY Zenon, <2>1 DEF FreedOK
<1> QED BY Zenon, <1>6, <1>7, <1>8, <1>9

\* The footer of a free predecessor leads to it, and its own predecessor is in
\* use.
LEMMA FreePredecessor ==
  ASSUME IInv, pc # "forward", NEW a \in heads, ~previnuse[a]
  PROVE  /\ PrevAddr(a) \in heads
         /\ PrevAddr(a) + ChunkLen(PrevAddr(a)) = a
         /\ ~inuse[PrevAddr(a)] /\ previnuse[PrevAddr(a)]
<1> USE DEF IInv
<1>1. \A h \in heads : /\ h \in Nat /\ size[h] \in Nat /\ ChunkLen(h) = size[h]
                       /\ ~Freeing(h) /\ inuse[h] \in BOOLEAN
  BY Zenon, HeadFacts DEF Freeing
<1>2. PICK g \in heads : g + size[g] = a
  BY <1>1 DEF Preceded, BoundaryTags
<1>3. ~inuse[g] /\ prevsize[a] = size[g]
  BY Zenon, <1>1, <1>2 DEF BoundaryTags
<1>4. PrevAddr(a) = g
  BY <1>1, <1>2, <1>3 DEF PrevAddr
<1>5. previnuse[g]
  <2>1. CASE \E i \in Segments : g = First(i)
    BY <2>1 DEF BoundaryTags
  <2>2. ASSUME NEW f \in heads, f + size[f] = g PROVE previnuse[g]
    <3>1. previnuse[g] = inuse[f] /\ (~inuse[f] => inuse[g])
      BY Zenon, <1>1, <2>2 DEF BoundaryTags
    <3> QED BY Zenon, <1>3, <3>1
  <2> QED BY Zenon, <1>1, <2>1, <2>2 DEF Preceded
<1> QED BY Zenon, <1>1, <1>2, <1>3, <1>4, <1>5

LEMMA DeallocEnterStep ==
  ASSUME IInv, NEW p \in FreeInputs, dealloc_enter(p)
  PROVE  IInv'
<1> USE DEF IInv
<1> DEFINE a == ChunkOf(p)
           g == PrevAddr(a)
           e == a + size[a]
<1>0. /\ pc = "idle" /\ WellPlaced(p) /\ inuse[a] /\ size[a] >= 2 /\ pc' = "forward"
      /\ c' = a /\ n' = e /\ seg_idx' = Owner(a)
      /\ segments' = segments /\ seg_count' = seg_count /\ freed' = freed
      /\ live' = [q \in DOMAIN live \ {a + 1} |-> live[q]]
  BY Zenon DEF dealloc_enter, Neutralise, PrevInSegment
<1>1. /\ a \in heads /\ Owner(a) \in Segments
      /\ First(Owner(a)) <= a /\ a < Epilogue(Owner(a))
  BY Zenon, <1>0, DeallocTarget
<1> HIDE DEF a
<1>2. /\ \A h \in heads : /\ h \in Nat /\ h \in Addr /\ size[h] \in Nat
                          /\ ChunkLen(h) = size[h] /\ size[h] >= 2 /\ ~Freeing(h)
      /\ e \in Nat
  BY <1>0, <1>1, HeadFacts DEF Freeing
<1>3. e <= Epilogue(Owner(a))
  <2>1. PICK i \in Segments : First(i) <= a /\ e <= Epilogue(i)
    BY Zenon, <1>1, <1>2, HeadFacts
  <2>2. i = Owner(a)
    BY <1>1, <1>2, <2>1, SegmentFacts
  <2> QED BY Zenon, <2>1, <2>2
<1>4. /\ segments' \in [0 .. MAX_SEGMENTS - 1 -> [base : Nat, end : Nat]]
      /\ seg_count' \in 0 .. MAX_SEGMENTS /\ SegmentsOK' /\ WalkOK'
      /\ seg_idx' \in 0 .. MAX_SEGMENTS /\ c' \in Nat /\ n' \in Nat /\ c_size' \in Nat
      /\ DOMAIN live' \in SUBSET Addr /\ \A q \in DOMAIN live' : live'[q] \in Nat
  <2>1. segments' \in [0 .. MAX_SEGMENTS - 1 -> [base : Nat, end : Nat]]
        /\ seg_count' \in 0 .. MAX_SEGMENTS
    BY Zenon, <1>0 DEF TypeOK
  <2>2. SegmentsOK' /\ WalkOK' BY Zenon, <1>0 DEF SegmentsOK, WalkOK
  <2>3. seg_idx' \in 0 .. MAX_SEGMENTS /\ c' \in Nat /\ n' \in Nat
    BY <1>0, <1>1, <1>2, SegmentFacts
  <2>4. c_size' \in Nat
    BY Zenon, <1>1, <1>2 DEF dealloc_enter, Neutralise, PrevInSegment, a
  <2>5. DOMAIN live' \in SUBSET Addr /\ \A q \in DOMAIN live' : live'[q] \in Nat
    BY Zenon, <1>0 DEF TypeOK
  <2> QED BY Zenon, <2>1, <2>2, <2>3, <2>4, <2>5
<1>5. DOMAIN live' = {h + 1 : h \in {f \in heads : inuse[f] /\ f # a}}
  <2>1. DOMAIN live = {h + 1 : h \in {f \in heads : inuse[f]}}
    BY Zenon, <1>2 DEF LiveBlocks
  <2>2. DOMAIN live' = DOMAIN live \ {a + 1}
    BY Zenon, <1>0
  <2>3. \A h \in heads : h + 1 = a + 1 => h = a
    BY <1>1, <1>2
  <2> QED BY Zenon, <2>1, <2>2, <2>3
<1>6. CASE previnuse[a] /\ span' = a /\ span_size' = size[a] /\ UNCHANGED <<tags, heads>>
  <2>1. /\ prevsize' = prevsize /\ size' = size /\ inuse' = inuse
        /\ previnuse' = previnuse /\ heads' = heads /\ span' = a /\ span_size' = size[a]
    BY Zenon, <1>6 DEF tags
  <2>2. \A h \in heads : /\ ChunkLen(h)' = size[h]
                         /\ Freeing(h)' <=> h = a
    BY Zenon, <1>0, <1>1, <2>1 DEF ChunkLen, Freeing
  <2>3. TypeOK'
    <3>1. span' \in Nat /\ span_size' \in Nat BY Zenon, <1>1, <1>2, <2>1
    <3> QED BY <1>0, <1>4, <2>1, <3>1, Zenon
            DEF dealloc_enter, Neutralise, PrevInSegment, TypeOK, counts
  <2>4. \A h \in heads : ChunkLen(h)' = ChunkLen(h)
    BY Zenon, <1>2, <2>2
  <2>5. Tiling' /\ Preceded'
    <3>1. Tiling' BY Zenon, <1>0, <2>1, <2>4 DEF Tiling
    <3>2. Preceded' BY Zenon, <1>0, <2>1, <2>4 DEF Preceded
    <3> QED BY Zenon, <3>1, <3>2
  <2>6. BoundaryTags'
    <3>1. segments' = segments /\ seg_count' = seg_count BY <1>0, SMTT(20)
    <3> QED BY Zenon, <1>2, <2>1, <3>1 DEF BoundaryTags
  <2>7. LiveBlocks'
    <3>1. {f \in heads : inuse[f] /\ f # a} = {f \in heads' : inuse'[f] /\ ~Freeing(f)'}
      BY Zenon, <2>1, <2>2
    <3>2. \A q \in DOMAIN live' : q \in DOMAIN live /\ live'[q] = live[q]
      BY Zenon, <1>0
    <3> QED BY Zenon, <1>5, <2>1, <3>1, <3>2 DEF LiveBlocks
  <2>8. FreedOK'
    <3>1. segments' = segments /\ seg_count' = seg_count /\ freed' = freed BY Zenon, <1>0
    <3> QED BY <1>2, <2>1, <2>2, <3>1, Zenon DEF FreedOK
  <2>9. ForwardOK'
    <3>1. a <= e /\ a < e BY <1>1, <1>2
    <3>2. segments' = segments /\ seg_count' = seg_count /\ c' = a /\ n' = e
          /\ seg_idx' = Owner(a) BY Zenon, <1>0
    <3>3. a \in Nat /\ previnuse[a] /\ e = a + size[a] BY Zenon, <1>1, <1>2, <1>6
    <3> HIDE DEF e
    <3> QED BY <1>1, <1>3, <2>1, <3>1, <3>2, <3>3 DEF ForwardOK
  <2> QED BY Zenon, <1>4, <2>3, <2>5, <2>6, <2>7, <2>8, <2>9
<1>7. CASE /\ ~previnuse[a] /\ span' = g /\ span_size' = size[g] + size[a]
           /\ size' = [size EXCEPT ![a] = 0]
           /\ inuse' = [inuse EXCEPT ![a] = FALSE]
           /\ previnuse' = [previnuse EXCEPT ![a] = FALSE]
           /\ prevsize' = prevsize
           /\ heads' = heads \ {a}
  <2>1. /\ g \in heads /\ g + size[g] = a /\ ~inuse[g] /\ previnuse[g]
    BY Zenon, <1>0, <1>1, <1>2, <1>7, FreePredecessor
  <2> HIDE DEF g
  <2>2. Tiling' /\ Preceded' /\ BoundaryTags' /\ FreedOK'
    BY <1>0, <1>1, <1>2, <1>7, <2>1, MergeStep, Zenon
  <2>3. TypeOK'
    <3>1. span' \in Nat /\ span_size' \in Nat BY <1>1, <1>2, <1>7, <2>1
    <3>2. /\ size' \in [Addr -> Nat] /\ inuse' \in [Addr -> BOOLEAN]
          /\ previnuse' \in [Addr -> BOOLEAN] /\ prevsize' \in [Addr -> Nat]
          /\ heads' \in SUBSET Addr
      BY <1>7, Zenon DEF TypeOK
    <3> QED BY <1>0, <1>4, <3>1, <3>2, Zenon
            DEF dealloc_enter, Neutralise, PrevInSegment, TypeOK, counts
  <2>4. LiveBlocks'
    <3>1. ASSUME NEW f \in heads, f # a
          PROVE  inuse'[f] = inuse[f] /\ size'[f] = size[f] /\ (Freeing(f)' <=> f = g)
      BY Zenon, <1>0, <1>2, <1>7, <3>1 DEF Freeing, TypeOK
    <3>2. {f \in heads : inuse[f] /\ f # a} = {f \in heads' : inuse'[f] /\ ~Freeing(f)'}
      BY Zenon, <1>7, <2>1, <3>1
    <3>3. ASSUME NEW q \in DOMAIN live' PROVE size'[q - 1] >= Needed(live'[q])
      <4>1. PICK h \in heads : h # a /\ q = h + 1 BY Zenon, <1>5
      <4>2. q - 1 = h BY <1>2, <4>1
      <4>3. q \in DOMAIN live /\ live'[q] = live[q] BY Zenon, <1>0
      <4> QED BY Zenon, <3>1, <4>1, <4>2, <4>3 DEF LiveBlocks
    <3> QED BY Zenon, <1>5, <3>2, <3>3 DEF LiveBlocks
  <2>5. ForwardOK'
    <3>1. First(Owner(a)) <= g
      <4>1. PICK i \in Segments : First(i) <= g /\ a <= Epilogue(i)
        BY Zenon, <1>2, <2>1, HeadFacts
      <4>2. i = Owner(a)
        <5>1. g < a /\ g \in Nat /\ a \in Nat BY <1>1, <1>2, <2>1
        <5> QED BY <1>1, <4>1, <5>1, SegmentFacts
      <4> QED BY Zenon, <4>1, <4>2
    <3>2. g < a /\ g \in Nat /\ a \in Nat /\ a < e /\ g + (size[g] + size[a]) = e
      BY <1>1, <1>2, <2>1
    <3>3. previnuse'[g] /\ ~inuse'[a] /\ g \in heads' /\ span' = g
          /\ span_size' = size[g] + size[a]
      BY Zenon, <1>1, <1>2, <1>7, <2>1, <3>2 DEF TypeOK
    <3>4. segments' = segments /\ seg_count' = seg_count /\ c' = a /\ n' = e
          /\ seg_idx' = Owner(a) BY Zenon, <1>0
    <3> HIDE DEF e
    <3>5. Segments' = Segments /\ First(seg_idx)' = First(Owner(a))
          /\ Epilogue(seg_idx)' = Epilogue(Owner(a))
      BY Zenon, <3>4
    <3>6. /\ seg_idx' \in Segments' /\ span' \in heads' /\ span' + span_size' = n'
          /\ First(seg_idx)' <= span' /\ n' <= Epilogue(seg_idx)'
          /\ span' <= c' /\ c' < n'
      BY <1>1, <1>3, <3>1, <3>2, <3>3, <3>4, <3>5
    <3> QED BY Zenon, <3>3, <3>4, <3>6 DEF ForwardOK
  <2> QED BY Zenon, <1>4, <2>2, <2>3, <2>4, <2>5
<1> QED BY Zenon, <1>6, <1>7 DEF dealloc_enter, Neutralise, PrevInSegment, a, g

\* What n stands on while dealloc merges: the next chunk or the epilogue.
LEMMA ForwardFacts ==
  ASSUME IInv, pc = "forward"
  PROVE  /\ span \in heads /\ span \in Nat /\ span_size \in Nat /\ span_size >= 2
         /\ n \in Nat /\ n \in Addr /\ ChunkLen(span) = span_size /\ span + span_size = n
         /\ n <= Epilogue(seg_idx) /\ seg_idx \in Segments
         /\ n = Epilogue(seg_idx) \/ n \in heads
         /\ \A h \in heads : h # span => /\ ~Freeing(h) /\ ChunkLen(h) = size[h]
                                         /\ size[h] >= 2
<1> USE DEF IInv
<1>1. span \in heads /\ span + span_size = n /\ n <= Epilogue(seg_idx)
      /\ seg_idx \in Segments /\ First(seg_idx) <= span
  BY Zenon DEF ForwardOK
<1>2. ChunkLen(span) = span_size BY Zenon DEF ChunkLen, Freeing
<1>3. span \in Nat /\ span_size \in Nat /\ span_size >= 2 /\ n \in Nat
  BY <1>1, <1>2, HeadFacts
<1>4. PICK i \in Segments : First(i) <= span /\ n <= Epilogue(i)
                            /\ (n = Epilogue(i) \/ n \in heads)
  BY Zenon, <1>1, <1>2, HeadFacts
<1>5. i = seg_idx
  BY <1>1, <1>3, <1>4, SegmentFacts
<1>6. n \in Addr BY Zenon, <1>1, <1>2, ApartFacts
<1>7. \A h \in heads : h # span => ~Freeing(h) /\ ChunkLen(h) = size[h] /\ size[h] >= 2
  BY Zenon, HeadFacts DEF Freeing
<1> QED BY Zenon, <1>1, <1>2, <1>3, <1>4, <1>5, <1>6, <1>7

LEMMA DeallocAbsorbStep ==
  ASSUME IInv, dealloc_absorb
  PROVE  IInv'
<1> USE DEF IInv
<1>0. /\ pc = "forward" /\ pc' = "forward"
      /\ n < Epilogue(seg_idx) /\ ~inuse[n] /\ size[n] >= 2
      /\ size' = [size EXCEPT ![n] = 0]
      /\ inuse' = [inuse EXCEPT ![n] = FALSE]
      /\ previnuse' = [previnuse EXCEPT ![n] = FALSE]
      /\ span_size' = span_size + size[n] /\ n' = n + size[n]
      /\ heads' = heads \ {n}
      /\ segments' = segments /\ seg_count' = seg_count /\ prevsize' = prevsize
      /\ seg_idx' = seg_idx /\ c' = c /\ span' = span /\ live' = live /\ freed' = freed
  BY Zenon DEF dealloc_absorb, Neutralise, Absorbable, walk
<1>1. /\ span \in heads /\ span \in Nat /\ span_size \in Nat /\ span_size >= 2
      /\ n \in Nat /\ n \in Addr /\ ChunkLen(span) = span_size /\ span + span_size = n
      /\ seg_idx \in Segments
      /\ \A h \in heads : h # span => ~Freeing(h) /\ ChunkLen(h) = size[h]
  BY Zenon, <1>0, ForwardFacts
<1>2. n \in heads /\ n # span /\ span < n
  BY <1>0, <1>1, ForwardFacts, SegmentFacts
<1>3. size[n] \in Nat /\ n + size[n] \in Nat BY <1>1, <1>2, HeadFacts
<1>4. Tiling' /\ Preceded' /\ BoundaryTags' /\ FreedOK'
  BY <1>0, <1>1, <1>2, MergeStep, Zenon
<1>5. TypeOK'
  <2>1. /\ size' \in [Addr -> Nat] /\ inuse' \in [Addr -> BOOLEAN]
        /\ previnuse' \in [Addr -> BOOLEAN] /\ heads' \in SUBSET Addr
    BY <1>0, Zenon DEF TypeOK
  <2>2. span_size' \in Nat /\ n' \in Nat BY <1>0, <1>1, <1>3
  <2> QED BY Zenon, <2>1, <2>2 DEF dealloc_absorb, Neutralise, TypeOK, counts, walk
<1>6. SegmentsOK' /\ WalkOK' BY <1>0, SMTT(20) DEF SegmentsOK, WalkOK
<1>7. LiveBlocks'
  <2>1. ASSUME NEW f \in heads, f # n
        PROVE  inuse'[f] = inuse[f] /\ size'[f] = size[f] /\ (Freeing(f)' <=> Freeing(f))
    <3>1. f \in Addr BY Zenon, HeadFacts
    <3> QED BY Zenon, <1>0, <2>1, <3>1 DEF Freeing, TypeOK
  <2>2. {f \in heads : inuse[f] /\ ~Freeing(f)} = {f \in heads' : inuse'[f] /\ ~Freeing(f)'}
    BY Zenon, <1>0, <2>1
  <2>3. ASSUME NEW q \in DOMAIN live PROVE size'[q - 1] >= Needed(live[q])
    <3>1. PICK h \in heads : inuse[h] /\ q = h + 1 BY Zenon DEF LiveBlocks
    <3>2. h # n /\ q - 1 = h BY <1>0, <3>1, HeadFacts
    <3> QED BY Zenon, <2>1, <3>2 DEF LiveBlocks
  <2> QED BY Zenon, <1>0, <2>2, <2>3 DEF LiveBlocks
<1>8. ForwardOK'
  <2>1. PICK i \in Segments : First(i) <= n /\ n + size[n] <= Epilogue(i)
    BY Zenon, <1>1, <1>2, HeadFacts
  <2>2. i = seg_idx
    <3>1. First(seg_idx) <= span BY Zenon, <1>0 DEF ForwardOK
    <3> QED BY <1>0, <1>1, <1>2, <1>3, <2>1, <3>1, SegmentFacts
  <2>3. /\ First(seg_idx) <= span /\ previnuse[span] /\ span <= c /\ c < n
        /\ (c # span => ~inuse[c]) /\ c \in Nat
    BY Zenon, <1>0 DEF ForwardOK, TypeOK
  <2>4. c < n + size[n] /\ span + (span_size + size[n]) = n + size[n]
    BY <1>0, <1>1, <1>3, <2>3
  <2>5. span \in Addr /\ previnuse'[span] = previnuse[span] /\ span \in heads'
    BY <1>0, <1>1, <1>2, HeadFacts, Zenon DEF TypeOK
  <2>6. c # span => ~inuse'[c]
    <3>1. c \in Addr BY <1>1, <2>3, ConstantAssumption
    <3> QED BY Zenon, <1>0, <2>3, <3>1 DEF TypeOK
  <2> QED BY <1>0, <1>1, <2>1, <2>2, <2>3, <2>4, <2>5, <2>6, SMTT(20) DEF ForwardOK
<1> QED BY Zenon, <1>4, <1>5, <1>6, <1>7, <1>8

\* The walk of dealloc never passes the epilogue.
LEMMA DeallocOverrunStep ==
  ASSUME IInv PROVE ~dealloc_overrun
<1> SUFFICES ASSUME dealloc_overrun PROVE FALSE
  BY Zenon
<1>1. pc = "forward" /\ n > Epilogue(seg_idx)
  BY Zenon DEF dealloc_overrun
<1>2. n \in Nat /\ n <= Epilogue(seg_idx) /\ seg_idx \in Segments
  BY Zenon, <1>1, ForwardFacts
<1> QED BY <1>1, <1>2, SegmentFacts DEF IInv

LEMMA DeallocFinishStep ==
  ASSUME IInv, dealloc_finish
  PROVE  IInv'
<1> USE DEF IInv
<1>0. /\ pc = "forward" /\ pc' = "idle" /\ ~Absorbable
      /\ prevsize' = [prevsize EXCEPT ![n] = span_size]
      /\ size' = [size EXCEPT ![span] = span_size]
      /\ inuse' = [inuse EXCEPT ![span] = FALSE]
      /\ previnuse' = [previnuse EXCEPT ![n] = FALSE]
      /\ freed' = freed \cup {c}
      /\ segments' = segments /\ seg_count' = seg_count
      /\ heads' = heads /\ live' = live
  BY Zenon DEF dealloc_finish
<1>1. /\ span \in heads /\ span \in Nat /\ span_size \in Nat /\ span_size >= 2
      /\ n \in Nat /\ n \in Addr /\ ChunkLen(span) = span_size /\ span + span_size = n
      /\ seg_idx \in Segments /\ span \in Addr /\ n # span
      /\ \A h \in heads : h # span => ~Freeing(h) /\ ChunkLen(h) = size[h]
  <2>1. /\ span \in heads /\ span \in Nat /\ span_size \in Nat /\ span_size >= 2
        /\ n \in Nat /\ n \in Addr /\ ChunkLen(span) = span_size /\ span + span_size = n
        /\ seg_idx \in Segments
        /\ \A h \in heads : h # span => ~Freeing(h) /\ ChunkLen(h) = size[h]
    BY Zenon, <1>0, ForwardFacts
  <2> QED BY <2>1, HeadFacts
<1>2. inuse[n]
  <2>1. CASE n = Epilogue(seg_idx) BY <1>1, <2>1 DEF BoundaryTags
  <2>2. CASE n # Epilogue(seg_idx)
    <3>1. n \in heads /\ size[n] >= 2 /\ n < Epilogue(seg_idx)
      BY <1>0, <1>1, <2>2, ForwardFacts, SegmentFacts
    <3> QED BY Zenon, <1>0, <3>1 DEF Absorbable
  <2> QED BY Zenon, <2>1, <2>2
<1>3. ASSUME NEW h \in heads, h # span
      PROVE  /\ size'[h] = size[h] /\ inuse'[h] = inuse[h]
  BY Zenon, <1>0, <1>3, HeadFacts DEF TypeOK
<1>4. /\ size'[span] = span_size /\ inuse'[span] = FALSE /\ previnuse'[n] = FALSE
      /\ prevsize'[n] = span_size /\ inuse'[n] = inuse[n] /\ previnuse'[span] = previnuse[span]
  BY <1>0, <1>1, Zenon DEF TypeOK
<1>5. \A h \in heads : ~Freeing(h)' /\ ChunkLen(h)' = size'[h] /\ ChunkLen(h)' = ChunkLen(h)
  BY Zenon, <1>0, <1>1, <1>3, <1>4 DEF ChunkLen, Freeing
<1>6. /\ First(seg_idx) <= span /\ n <= Epilogue(seg_idx) /\ previnuse[span] /\ span <= c /\ c < n
      /\ (c # span => ~inuse[c]) /\ c \in Nat
  BY Zenon, <1>0 DEF ForwardOK, TypeOK
<1>7. c \in Addr BY <1>1, <1>6, ConstantAssumption
<1>8. TypeOK'
  <2>1. /\ prevsize' \in [Addr -> Nat] /\ size' \in [Addr -> Nat]
        /\ inuse' \in [Addr -> BOOLEAN] /\ previnuse' \in [Addr -> BOOLEAN]
        /\ freed' \in SUBSET Addr
    BY Zenon, <1>0, <1>1, <1>7 DEF TypeOK
  <2>2. free_bytes' \in Int /\ alloc_count' \in Int /\ seg_idx' \in 0 .. MAX_SEGMENTS
    BY ConstantAssumption, SMTT(20) DEF dealloc_finish, TypeOK
  <2> QED BY Zenon, <2>1, <2>2 DEF dealloc_finish, TypeOK
<1>9. SegmentsOK' /\ WalkOK' /\ ForwardOK'
  BY Zenon, <1>0 DEF SegmentsOK, WalkOK, ForwardOK
<1>10. Tiling' /\ Preceded'
  <2>1. segments' = segments /\ seg_count' = seg_count /\ heads' = heads BY Zenon, <1>0
  <2>2. \A h \in heads : ChunkLen(h)' = ChunkLen(h) BY Zenon, <1>5
  <2>3. Tiling' BY Zenon, <2>1, <2>2 DEF Tiling
  <2>4. Preceded' BY <2>1, <2>2, SMTT(20) DEF Preceded
  <2> QED BY Zenon, <2>3, <2>4
<1>11. BoundaryTags'
  <2>1. ASSUME NEW i \in Segments
        PROVE  /\ size'[Base(i)] = 1 /\ inuse'[Base(i)] /\ previnuse'[Base(i)]
               /\ size'[Epilogue(i)] = 1 /\ inuse'[Epilogue(i)]
               /\ previnuse'[First(i)]
    <3>1. First(i) \in Addr /\ Base(i) \in Addr /\ Epilogue(i) \in Addr
      BY Zenon, ApartFacts, HeadFacts DEF Tiling
    <3>2. Base(i) # n /\ First(i) # n
      BY Zenon, <1>1, ApartFacts
    <3>3. Base(i) # span /\ Epilogue(i) # span
      BY <1>1, ApartFacts, SegmentFacts
    <3>4. /\ size'[Base(i)] = size[Base(i)] /\ inuse'[Base(i)] = inuse[Base(i)]
          /\ previnuse'[Base(i)] = previnuse[Base(i)]
      BY Zenon, <1>0, <3>1, <3>2, <3>3 DEF TypeOK
    <3>5. /\ size'[Epilogue(i)] = size[Epilogue(i)] /\ inuse'[Epilogue(i)] = inuse[Epilogue(i)]
          /\ previnuse'[First(i)] = previnuse[First(i)]
      BY Zenon, <1>0, <3>1, <3>2, <3>3 DEF TypeOK
    <3>6. /\ size[Base(i)] = 1 /\ inuse[Base(i)] /\ previnuse[Base(i)]
          /\ size[Epilogue(i)] = 1 /\ inuse[Epilogue(i)] /\ previnuse[First(i)]
      BY Zenon DEF BoundaryTags
    <3> QED BY Zenon, <3>4, <3>5, <3>6
  <2>2. ASSUME NEW h \in heads
        PROVE  LET next == h + size'[h] IN
               /\ previnuse'[next] = inuse'[h]
               /\ ~inuse'[h] => prevsize'[next] = size'[h] /\ inuse'[next]
    <3>1. CASE h = span
      <4>1. h + size'[h] = n BY <1>1, <1>4, <3>1, SMTT(20)
      <4> QED BY <1>2, <1>4, <3>1, <4>1, Zenon
    <3>2. CASE h # span
      <4> DEFINE y == h + size[h]
      <4>1. y # n /\ y \in Addr
        BY Zenon, <1>1, <3>2, ApartFacts
      <4>2. previnuse[y] = inuse[h] /\ (~inuse[h] => prevsize[y] = size[h] /\ inuse[y])
        BY Zenon, <1>1, <3>2 DEF BoundaryTags
      <4>3. size'[h] = size[h] /\ inuse'[h] = inuse[h] BY Zenon, <1>3, <3>2
      <4>4. h + size'[h] = y BY Zenon, <4>3
      <4> HIDE DEF y
      <4>5. previnuse'[y] = previnuse[y] /\ prevsize'[y] = prevsize[y]
            /\ (y # span => inuse'[y] = inuse[y])
        BY <1>0, <4>1, Zenon DEF TypeOK
      <4>6. inuse[h] \in BOOLEAN BY Zenon, HeadFacts
      <4> QED BY Zenon, <1>6, <4>2, <4>3, <4>4, <4>5, <4>6
    <3> QED BY Zenon, <3>1, <3>2
  <2>3. segments' = segments /\ seg_count' = seg_count /\ heads' = heads BY Zenon, <1>0
  <2>4. Segments' = Segments /\ \A i \in Segments :
          Base(i)' = Base(i) /\ First(i)' = First(i) /\ Epilogue(i)' = Epilogue(i)
    BY Zenon, <2>3
  <2> HIDE DEF Base, First, Epilogue, Segments
  <2> QED BY SMTT(30), <2>1, <2>2, <2>3, <2>4 DEF BoundaryTags
<1>12. LiveBlocks'
  <2>1. {f \in heads : inuse[f] /\ ~Freeing(f)} = {f \in heads' : inuse'[f] /\ ~Freeing(f)'}
    <3>1. Freeing(span) BY Zenon, <1>0 DEF Freeing
    <3> QED BY <1>0, <1>1, <1>3, <1>4, <1>5, <3>1, Zenon
  <2>2. ASSUME NEW q \in DOMAIN live PROVE size'[q - 1] >= Needed(live[q])
    <3>1. PICK h \in heads : ~Freeing(h) /\ q = h + 1 BY Zenon DEF LiveBlocks
    <3>2. h # span /\ q - 1 = h
      <4>1. Freeing(span) BY Zenon, <1>0 DEF Freeing
      <4> QED BY <3>1, <4>1, HeadFacts
    <3> QED BY Zenon, <1>3, <3>2 DEF LiveBlocks
  <2> QED BY Zenon, <1>0, <2>1, <2>2 DEF LiveBlocks
<1>13. FreedOK'
  <2>1. ASSUME NEW a \in freed'
        PROVE  /\ ~inuse'[a]
               /\ \E i \in Segments : First(i) <= a /\ a < Epilogue(i)
               /\ \A h \in heads : inuse'[h] => a < h \/ h + ChunkLen(h) <= a
    <3>1. ASSUME NEW h \in heads, inuse'[h] PROVE h # span /\ inuse[h] /\ ~Freeing(h)
      BY Zenon, <1>1, <1>3, <1>4, <3>1
    <3>2. CASE a \in freed
      <4>1. ~inuse'[a]
        BY Zenon, <1>0, <3>2 DEF FreedOK, TypeOK
      <4> QED BY Zenon, <3>1, <3>2, <4>1 DEF FreedOK
    <3>3. CASE a = c
      <4>1. ~inuse'[c] BY Zenon, <1>0, <1>1, <1>4, <1>6, <1>7 DEF TypeOK
      <4>2. First(seg_idx) <= c /\ c < Epilogue(seg_idx)
        BY <1>1, <1>6, SegmentFacts
      <4>3. ASSUME NEW h \in heads, inuse'[h] PROVE c < h \/ h + ChunkLen(h) <= c
        <5>1. h # span /\ h \in Nat /\ ChunkLen(h) \in Nat BY Zenon, <3>1, <4>3, HeadFacts
        <5>2. CASE h < span
          <6>1. h + ChunkLen(h) <= span BY Zenon, <1>1, <5>2, HeadFacts
          <6> QED BY <1>1, <1>6, <5>1, <6>1
        <5>3. CASE span < h
          <6>1. n <= h BY Zenon, <1>1, <5>3, HeadFacts
          <6> QED BY <1>1, <1>6, <5>1, <6>1
        <5> QED BY <1>1, <5>1, <5>2, <5>3
      <4> QED BY Zenon, <1>1, <3>3, <4>1, <4>2, <4>3
    <3> QED BY Zenon, <1>0, <3>2, <3>3
  <2>2. segments' = segments /\ seg_count' = seg_count /\ heads' = heads BY Zenon, <1>0
  <2> QED BY <1>5, <2>1, <2>2, SMTT(20) DEF FreedOK
<1> QED BY Zenon, <1>8, <1>9, <1>10, <1>11, <1>12, <1>13

-----------------------------------------------------------------------------
(* The writes of clients.                                                  *)

\* The bytes a client may write lie strictly inside the chunk of its block.
LEMMA ExtentInChunk ==
  ASSUME IInv, NEW p \in DOMAIN live, NEW a \in p .. LastCell(p, live[p])
  PROVE  /\ p - 1 \in heads /\ p - 1 \in Nat /\ inuse[p - 1] /\ ~Freeing(p - 1)
         /\ size[p - 1] \in Nat /\ ChunkLen(p - 1) = size[p - 1]
         /\ a \in Nat /\ a \in Addr /\ p - 1 < a /\ a < (p - 1) + size[p - 1]
<1> USE DEF IInv
<1>1. PICK h \in heads : inuse[h] /\ ~Freeing(h) /\ p = h + 1
  BY Zenon DEF LiveBlocks
<1>2. h \in Nat /\ p - 1 = h /\ size[h] \in Nat /\ ChunkLen(h) = size[h] /\ p \in Nat
  BY <1>1, HeadFacts
<1>3. size[h] >= Needed(live[p])
  BY Zenon, <1>2 DEF LiveBlocks
<1>4. live[p] \in Nat BY Zenon DEF TypeOK
<1>5. LastCell(p, live[p]) < h + size[h]
  <2>1. /\ Needed(live[p]) \in Nat
        /\ ((live[p] + CHUNK_ALIGN - 1) \div CHUNK_ALIGN) \in Nat
        /\ ((live[p] + CHUNK_ALIGN - 1) \div CHUNK_ALIGN) + 1 <= Needed(live[p])
    BY Zenon, <1>4, NeededProperties
  <2> DEFINE d == (live[p] + CHUNK_ALIGN - 1) \div CHUNK_ALIGN
  <2>2. LastCell(p, live[p]) = p + d - 1 BY Zenon DEF LastCell
  <2> HIDE DEF d
  <2>3. d \in Nat /\ d + 1 <= Needed(live[p]) BY Zenon, <2>1 DEF d
  <2> QED BY <1>1, <1>2, <1>3, <2>1, <2>2, <2>3
<1>6. LastCell(p, live[p]) \in Int
  <2>1. ((live[p] + CHUNK_ALIGN - 1) \div CHUNK_ALIGN) \in Nat
    BY Zenon, <1>4, NeededProperties
  <2> DEFINE d == (live[p] + CHUNK_ALIGN - 1) \div CHUNK_ALIGN
  <2>2. LastCell(p, live[p]) = p + d - 1 BY Zenon DEF LastCell
  <2> HIDE DEF d
  <2>3. d \in Nat BY Zenon, <2>1 DEF d
  <2> QED BY <1>2, <2>2, <2>3
<1>7. a \in Nat /\ h < a /\ a < h + size[h]
  BY <1>1, <1>2, <1>5, <1>6
<1>8. h + size[h] \in Addr BY Zenon, <1>2, ApartFacts
<1>9. a \in Addr BY <1>2, <1>7, <1>8, ConstantAssumption
<1> QED BY Zenon, <1>1, <1>2, <1>7, <1>9

LEMMA ClientWriteStep ==
  ASSUME IInv, NEW p \in DOMAIN live, NEW a \in p .. LastCell(p, live[p]),
         NEW v \in Payloads, ClientWrite(p, a, v)
  PROVE  IInv'
<1> USE DEF IInv
<1> DEFINE b == p - 1
<1>0. /\ prevsize' = [prevsize EXCEPT ![a] = v.prev_size]
      /\ size' = [size EXCEPT ![a] = v.size]
      /\ inuse' = [inuse EXCEPT ![a] = v.inuse]
      /\ previnuse' = [previnuse EXCEPT ![a] = v.previnuse]
      /\ segments' = segments /\ seg_count' = seg_count /\ pc' = pc
      /\ heads' = heads /\ live' = live /\ freed' = freed
      /\ span' = span /\ span_size' = span_size /\ n' = n /\ c' = c
      /\ seg_idx' = seg_idx /\ chunk' = chunk /\ request' = request /\ outcome' = outcome
  BY Zenon DEF ClientWrite, walk, merge, ghosts
<1>1. /\ b \in heads /\ b \in Nat /\ inuse[b] /\ ~Freeing(b)
      /\ size[b] \in Nat /\ ChunkLen(b) = size[b]
      /\ a \in Nat /\ a \in Addr /\ b < a /\ a < b + size[b]
  BY Zenon, ExtentInChunk
<1> HIDE DEF b
<1>2. \A x \in Addr : x # a => /\ prevsize'[x] = prevsize[x] /\ size'[x] = size[x]
                               /\ inuse'[x] = inuse[x] /\ previnuse'[x] = previnuse[x]
  BY Zenon, <1>0 DEF TypeOK
<1>3. \A h \in heads : h \in Addr /\ h # a
  BY <1>1, HeadFacts
<1>4. \A i \in Segments : /\ Base(i) \in Addr /\ Base(i) # a
                          /\ Epilogue(i) \in Addr /\ Epilogue(i) # a
                          /\ First(i) \in Addr /\ First(i) # a
  <2>1. \A i \in Segments : First(i) \in heads BY Zenon DEF Tiling
  <2> QED BY <1>1, <1>3, <2>1, ApartFacts, SegmentFacts
<1>5. \A h \in heads : h + ChunkLen(h) \in Addr /\ h + ChunkLen(h) # a
  <2>1. ASSUME NEW h \in heads PROVE h + ChunkLen(h) # a
    <3>1. h \in Nat /\ ChunkLen(h) \in Nat BY Zenon, HeadFacts
    <3>2. CASE h < b
      <4>1. h + ChunkLen(h) <= b BY Zenon, <1>1, <3>2, HeadFacts
      <4> QED BY <1>1, <3>1, <4>1
    <3>3. CASE b < h
      <4>1. b + size[b] <= h BY Zenon, <1>1, <3>3, HeadFacts
      <4> QED BY <1>1, <3>1, <4>1
    <3>4. CASE h = b BY <1>1, <3>4
    <3> QED BY <1>1, <3>1, <3>2, <3>3, <3>4
  <2> QED BY Zenon, <2>1, ApartFacts
<1>6. \A x \in freed : x \in Addr /\ x # a
  BY <1>1 DEF FreedOK, TypeOK
<1>7. \A h \in heads : /\ Freeing(h)' <=> Freeing(h)
                       /\ ChunkLen(h)' = ChunkLen(h)
                       /\ size'[h] = size[h] /\ inuse'[h] = inuse[h]
  <2>1. \A h \in heads : size'[h] = size[h] /\ inuse'[h] = inuse[h]
    BY Zenon, <1>2, <1>3
  <2> QED BY Zenon, <1>0, <2>1 DEF Freeing, ChunkLen
<1>8. TypeOK'
  <2>1. /\ prevsize' \in [Addr -> Nat] /\ size' \in [Addr -> Nat]
        /\ inuse' \in [Addr -> BOOLEAN] /\ previnuse' \in [Addr -> BOOLEAN]
    BY <1>0, ConstantAssumption, Zenon DEF TypeOK
  <2> QED BY <2>1, SMTT(20) DEF ClientWrite, TypeOK, counts, walk, merge, ghosts
<1>9. SegmentsOK' BY Zenon, <1>0 DEF SegmentsOK
<1>10. Tiling' /\ Preceded'
  <2>1. segments' = segments /\ seg_count' = seg_count /\ heads' = heads BY Zenon, <1>0
  <2>2. \A h \in heads : ChunkLen(h)' = ChunkLen(h) BY Zenon, <1>7
  <2>3. Tiling' BY Zenon, <2>1, <2>2 DEF Tiling
  <2>4. Preceded' BY Zenon, <2>1, <2>2 DEF Preceded
  <2> QED BY Zenon, <2>3, <2>4
<1>11. BoundaryTags'
  <2>1. ASSUME NEW i \in Segments
        PROVE  /\ size'[Base(i)] = 1 /\ inuse'[Base(i)] /\ previnuse'[Base(i)]
               /\ size'[Epilogue(i)] = 1 /\ inuse'[Epilogue(i)]
               /\ previnuse'[First(i)]
    BY <1>2, <1>4 DEF BoundaryTags
  <2>2. ASSUME NEW h \in heads, ~Freeing(h)
        PROVE  LET next == h + size'[h] IN
               /\ previnuse'[next] = inuse'[h]
               /\ ~inuse'[h] => prevsize'[next] = size'[h] /\ inuse'[next]
    <3> DEFINE y == h + size[h]
    <3>1. ChunkLen(h) = size[h] BY Zenon, <2>2, HeadFacts
    <3>2. y \in Addr /\ y # a BY Zenon, <1>5, <3>1
    <3>3. previnuse[y] = inuse[h] /\ (~inuse[h] => prevsize[y] = size[h] /\ inuse[y])
      BY Zenon, <2>2 DEF BoundaryTags
    <3>4. size'[h] = size[h] /\ inuse'[h] = inuse[h] BY Zenon, <1>7
    <3>5. h + size'[h] = y BY Zenon, <3>4
    <3> HIDE DEF y
    <3> QED BY Zenon, <1>2, <3>2, <3>3, <3>4, <3>5
  <2>3. segments' = segments /\ seg_count' = seg_count /\ heads' = heads BY Zenon, <1>0
  <2> QED BY Zenon, <1>7, <2>1, <2>2, <2>3 DEF BoundaryTags
<1>12. LiveBlocks'
  <2>1. {f \in heads : inuse[f] /\ ~Freeing(f)} = {f \in heads' : inuse'[f] /\ ~Freeing(f)'}
    BY Zenon, <1>0, <1>7
  <2>2. ASSUME NEW q \in DOMAIN live PROVE size'[q - 1] >= Needed(live[q])
    <3>1. PICK h \in heads : ~Freeing(h) /\ q = h + 1 BY Zenon DEF LiveBlocks
    <3>2. q - 1 = h BY <3>1, HeadFacts
    <3> QED BY Zenon, <1>7, <3>2 DEF LiveBlocks
  <2> QED BY Zenon, <1>0, <2>1, <2>2 DEF LiveBlocks
<1>13. FreedOK'
  <2>1. \A x \in freed : inuse'[x] = inuse[x] BY Zenon, <1>2, <1>6
  <2>2. segments' = segments /\ seg_count' = seg_count /\ heads' = heads /\ freed' = freed
    BY Zenon, <1>0
  <2> QED BY Zenon, <1>7, <2>1, <2>2 DEF FreedOK
<1>14. WalkOK'
  <2>1. /\ segments' = segments /\ seg_count' = seg_count /\ heads' = heads
        /\ seg_idx' = seg_idx /\ chunk' = chunk /\ request' = request /\ pc' = pc
        /\ outcome' = outcome
    BY Zenon, <1>0
  <2> QED BY Zenon, <1>7, <2>1 DEF WalkOK, Passed
<1>15. ForwardOK'
  <2>1. CASE pc # "forward" BY Zenon, <1>0, <2>1 DEF ForwardOK
  <2>2. CASE pc = "forward"
    <3>1. span \in heads /\ previnuse'[span] = previnuse[span]
      BY Zenon, <1>2, <1>3, <2>2 DEF ForwardOK
    <3>2. c # a /\ c \in Addr
      <4>1. /\ span \in Nat /\ ChunkLen(span) = span_size /\ span + span_size = n
            /\ n \in Nat /\ n \in Addr
        BY Zenon, <2>2, ForwardFacts
      <4>2. span # b BY Zenon, <1>1, <2>2 DEF Freeing
      <4>3. span <= c /\ c < n /\ c \in Nat BY Zenon, <2>2 DEF ForwardOK, TypeOK
      <4>4. n <= b \/ b + size[b] <= span
        BY <1>1, <3>1, <4>1, <4>2, HeadFacts
      <4>5. c \in Addr BY <4>1, <4>3, ConstantAssumption
      <4> QED BY <1>1, <4>1, <4>3, <4>4, <4>5
    <3>3. inuse'[c] = inuse[c] BY Zenon, <1>2, <3>2
    <3> QED BY Zenon, <1>0, <3>1, <3>3 DEF ForwardOK
  <2> QED BY Zenon, <2>1, <2>2
<1> QED BY Zenon, <1>8, <1>9, <1>10, <1>11, <1>12, <1>13, <1>14, <1>15

-----------------------------------------------------------------------------
LEMMA InitRegionStep ==
  ASSUME IInv, NEW r \in Regions, init_region(r)
  PROVE  IInv'
<1> USE DEF IInv
<1>j. PICK j : j = seg_count
  BY Zenon
<1> DEFINE lo == RegionBase(r)
           hi == RegionEnd(r)
           first == lo + 1
           epi == hi - 1
           fs == hi - lo - 1 - 1
<1>0. /\ pc = "idle" /\ seg_count < MAX_SEGMENTS /\ hi >= lo + 2 + 1 + 1
      /\ [base |-> lo, end |-> hi] \notin Installed
      /\ size' = [size EXCEPT ![lo] = 1, ![first] = fs, ![epi] = 1]
      /\ inuse' = [inuse EXCEPT ![lo] = TRUE, ![first] = FALSE, ![epi] = TRUE]
      /\ previnuse' = [previnuse EXCEPT ![lo] = TRUE, ![first] = TRUE, ![epi] = FALSE]
      /\ prevsize' = [prevsize EXCEPT ![epi] = fs]
      /\ segments' = [segments EXCEPT ![seg_count] = [base |-> lo, end |-> hi]]
      /\ seg_count' = seg_count + 1
      /\ heads' = heads \cup {first}
      /\ pc' = pc /\ live' = live /\ freed' = freed
  BY Zenon DEF init_region, HasSlot, walk
<1>1. /\ lo \in Nat /\ hi \in Nat /\ hi <= MaxAddr + 1 /\ MaxAddr \in Nat
      /\ MAX_SEGMENTS \in Nat /\ j \in Nat /\ j < MAX_SEGMENTS
      /\ hi >= lo + 4
  BY <1>j, <1>0, RegionProperties, SegmentFacts, ConstantAssumption
<1> HIDE DEF lo, hi
<1>2. /\ first \in Nat /\ epi \in Nat /\ fs \in Nat /\ fs >= 2 /\ first + fs = epi
      /\ lo \in Addr /\ first \in Addr /\ epi \in Addr
      /\ lo < first /\ first < epi
  BY <1>1
<1>3. /\ Segments' = Segments \cup {j} /\ j \notin Segments
      /\ segments'[j] = [base |-> lo, end |-> hi]
      /\ \A i \in Segments : segments'[i] = segments[i]
  <2>1. segments \in [0 .. MAX_SEGMENTS - 1 -> [base : Nat, end : Nat]] BY Zenon DEF TypeOK
  <2>2. j \in 0 .. MAX_SEGMENTS - 1 BY <1>1
  <2>3. Segments' = Segments \cup {j} /\ j \notin Segments BY <1>j, <1>0, <1>1
  <2>4. Segments \subseteq 0 .. MAX_SEGMENTS - 1 BY <1>j, <1>1
  <2>5. segments'[j] = [base |-> lo, end |-> hi] BY Zenon, <1>j, <1>0, <2>1, <2>2
  <2>6. ASSUME NEW i \in Segments PROVE segments'[i] = segments[i]
    BY Zenon, <1>j, <1>0, <2>1, <2>3, <2>4
  <2> QED BY Zenon, <2>3, <2>5, <2>6
<1>4. \A i \in Segments : segments[i].end <= lo \/ hi <= Base(i)
  <2>1. ASSUME NEW i \in Segments PROVE segments[i].end <= lo \/ hi <= Base(i)
    <3>1. PICK q \in Regions : segments[i] = [base |-> RegionBase(q), end |-> RegionEnd(q)]
      BY Zenon DEF SegmentsOK
    <3>2. segments[i] # [base |-> lo, end |-> hi] BY Zenon, <1>0 DEF Installed
    <3>3. q # r BY Zenon, <3>1, <3>2 DEF lo, hi
    <3> QED BY <3>1, <3>3, RegionAssumption DEF lo, hi
  <2> QED BY Zenon, <2>1
<1>5. /\ Base(j)' = lo /\ Epilogue(j)' = epi /\ First(j)' = first
      /\ \A i \in Segments : /\ Base(i)' = Base(i) /\ Epilogue(i)' = Epilogue(i)
                             /\ First(i)' = First(i)
  BY <1>1, <1>3
\* A cell of an installed segment keeps its contents.
<1>6. ASSUME NEW x \in Addr, x < lo \/ hi <= x
      PROVE  /\ size'[x] = size[x] /\ inuse'[x] = inuse[x]
             /\ previnuse'[x] = previnuse[x] /\ prevsize'[x] = prevsize[x]
  <2>1. x # lo /\ x # first /\ x # epi BY <1>1, <1>2, <1>6
  <2> HIDE DEF first, epi, fs
  <2> QED BY Zenon, <1>0, <2>1 DEF TypeOK
<1>7. /\ size'[lo] = 1 /\ inuse'[lo] /\ previnuse'[lo]
      /\ size'[epi] = 1 /\ inuse'[epi] /\ previnuse'[epi] = FALSE /\ prevsize'[epi] = fs
      /\ size'[first] = fs /\ inuse'[first] = FALSE /\ previnuse'[first]
  <2>1. lo # first /\ lo # epi /\ first # epi BY <1>2
  <2>2. lo \in Addr /\ first \in Addr /\ epi \in Addr BY Zenon, <1>2
  <2> HIDE DEF first, epi, fs
  <2> QED BY Zenon, <1>0, <2>1, <2>2 DEF TypeOK
<1>8. ASSUME NEW x \in Nat, NEW i \in Segments, Base(i) <= x, x <= Epilogue(i)
      PROVE  x \in Addr /\ (x < lo \/ hi <= x)
  BY <1>1, <1>4, <1>8, SegmentFacts
<1>9. ASSUME NEW h \in heads
      PROVE  /\ h \in Nat /\ h \in Addr /\ size[h] \in Nat /\ ChunkLen(h) = size[h]
             /\ ~Freeing(h) /\ h + size[h] \in Addr
             /\ (h < lo /\ h + size[h] < lo) \/ (hi <= h /\ hi <= h + size[h])
  <2>1. h \in Nat /\ h \in Addr /\ size[h] \in Nat /\ ChunkLen(h) = size[h] /\ ~Freeing(h)
    BY Zenon, <1>0, HeadFacts DEF Freeing
  <2>2. PICK i \in Segments : First(i) <= h /\ h + size[h] <= Epilogue(i)
    BY Zenon, <2>1, HeadFacts
  <2>3. h + size[h] \in Addr BY Zenon, <2>1, ApartFacts
  <2> QED BY <1>1, <1>4, <2>1, <2>2, <2>3, SegmentFacts
<1>10. ASSUME NEW h \in heads
       PROVE  /\ size'[h] = size[h] /\ inuse'[h] = inuse[h]
              /\ previnuse'[h + size[h]] = previnuse[h + size[h]]
              /\ prevsize'[h + size[h]] = prevsize[h + size[h]]
              /\ inuse'[h + size[h]] = inuse[h + size[h]]
  BY Zenon, <1>6, <1>9
<1>11. \A h \in heads' : ~Freeing(h)' /\ ChunkLen(h)' = size'[h]
  BY Zenon, <1>0 DEF Freeing, ChunkLen
<1>12. first \notin heads
  BY <1>1, <1>2, <1>9
<1>13. TypeOK'
  <2>1. segments' \in [0 .. MAX_SEGMENTS - 1 -> [base : Nat, end : Nat]]
    BY <1>j, <1>0, <1>1, Zenon DEF TypeOK
  <2>2. seg_count' \in 0 .. MAX_SEGMENTS BY <1>j, <1>0, <1>1
  <2>3. heads' \in SUBSET Addr BY Zenon, <1>0, <1>2 DEF TypeOK
  <2>4. free_bytes' \in Int
    <3>1. free_bytes' = free_bytes + fs BY Zenon DEF init_region, HasSlot, lo, hi
    <3> QED BY <1>2, <3>1 DEF TypeOK
  <2>5. /\ prevsize' \in [Addr -> Nat] /\ size' \in [Addr -> Nat]
        /\ inuse' \in [Addr -> BOOLEAN] /\ previnuse' \in [Addr -> BOOLEAN]
    <3>1. fs \in Nat BY Zenon, <1>2
    <3> HIDE DEF first, epi, fs
    <3> QED BY <1>0, <3>1, Zenon DEF TypeOK
  <2> QED
    BY <2>1, <2>2, <2>3, <2>4, <2>5, Zenon DEF init_region, HasSlot, TypeOK, walk, merge
<1>14. SegmentsOK'
  <2>1. ASSUME NEW i \in Segments'
        PROVE  /\ \E q \in Regions :
                    segments'[i] = [base |-> RegionBase(q), end |-> RegionEnd(q)]
               /\ segments'[i].base + 4 <= segments'[i].end
               /\ segments'[i].end <= MaxAddr + 1
    <3>1. CASE i = j BY <1>1, <1>3, <3>1 DEF lo, hi
    <3>2. CASE i \in Segments BY Zenon, <1>3, <3>2 DEF SegmentsOK
    <3> QED BY Zenon, <1>3, <3>1, <3>2
  <2>2. ASSUME NEW i \in Segments', NEW k \in Segments', i # k
        PROVE  segments'[i].end <= segments'[k].base \/ segments'[k].end <= segments'[i].base
    <3>1. CASE i = j /\ k \in Segments BY <1>3, <1>4, <3>1
    <3>2. CASE k = j /\ i \in Segments BY <1>3, <1>4, <3>2
    <3>3. CASE i \in Segments /\ k \in Segments BY Zenon, <1>3, <2>2, <3>3 DEF SegmentsOK
    <3> QED BY Zenon, <1>3, <2>2, <3>1, <3>2, <3>3
  <2> QED BY Zenon, <2>1, <2>2 DEF SegmentsOK
<1>15. Tiling'
  <2>1. \A i \in Segments' : First(i)' \in heads'
    BY <1>0, <1>3, <1>5 DEF Tiling
  <2>2. ASSUME NEW h \in heads'
        PROVE  /\ size'[h] >= 2
               /\ \E i \in Segments' :
                    /\ First(i)' <= h
                    /\ h + size'[h] <= Epilogue(i)'
                    /\ h + size'[h] = Epilogue(i)' \/ h + size'[h] \in heads'
    <3>1. CASE h = first
      <4>1. First(j)' = first /\ Epilogue(j)' = epi /\ j \in Segments' BY Zenon, <1>3, <1>5
      <4>2. h + size'[h] = epi /\ size'[h] >= 2 BY Zenon, <1>2, <1>7, <3>1
      <4> HIDE DEF first, epi
      <4> QED BY <1>2, <3>1, <4>1, <4>2
    <3>2. CASE h \in heads
      <4>1. size'[h] = size[h] /\ ChunkLen(h) = size[h] BY Zenon, <1>9, <1>10, <3>2
      <4>2. size[h] >= 2 BY Zenon, <3>2, <4>1, HeadFacts
      <4>3. PICK i \in Segments :
              /\ First(i) <= h
              /\ h + size[h] <= Epilogue(i)
              /\ h + size[h] = Epilogue(i) \/ h + size[h] \in heads
        BY Zenon, <3>2, <4>1, HeadFacts
      <4>4. First(i)' = First(i) /\ Epilogue(i)' = Epilogue(i) /\ i \in Segments'
            /\ heads \subseteq heads'
        BY Zenon, <1>0, <1>3, <1>5
      <4> QED BY Zenon, <4>1, <4>2, <4>3, <4>4
    <3> QED BY <1>0, <3>1, <3>2, Zenon
  <2>3. ASSUME NEW g \in heads', NEW h \in heads', g < h PROVE g + size'[g] <= h
    <3>1. CASE g = first /\ h \in heads
      <4>1. g + size'[g] = epi BY Zenon, <1>2, <1>7, <3>1
      <4>2. h \in Nat /\ (h < lo \/ hi <= h) BY Zenon, <1>9, <3>1
      <4> QED BY <1>1, <1>2, <2>3, <3>1, <4>1, <4>2
    <3>2. CASE h = first /\ g \in heads
      <4>1. /\ g \in Nat /\ size'[g] = size[g] /\ size[g] \in Nat
            /\ (g < lo /\ g + size[g] < lo) \/ hi <= g
        BY Zenon, <1>9, <1>10, <3>2
      <4> QED BY <1>1, <1>2, <2>3, <3>2, <4>1
    <3>3. CASE g \in heads /\ h \in heads
      BY Zenon, <1>9, <1>10, <2>3, <3>3, HeadFacts
    <3>4. ~(g = first /\ h = first) BY <1>2, <2>3
    <3> QED BY Zenon, <1>0, <3>1, <3>2, <3>3, <3>4
  <2> QED BY Zenon, <1>11, <2>1, <2>2, <2>3 DEF Tiling
<1>16. Preceded'
  <2>1. ASSUME NEW h \in heads'
        PROVE  (\E i \in Segments' : h = First(i)') \/ \E g \in heads' : g + size'[g] = h
    <3>1. CASE h = first BY Zenon, <1>3, <1>5, <3>1
    <3>2. CASE \E i \in Segments : h = First(i) BY Zenon, <1>3, <1>5, <3>2
    <3>3. ASSUME NEW g \in heads, g + ChunkLen(g) = h
          PROVE  \E f \in heads' : f + size'[f] = h
      BY <1>0, <1>9, <1>10, <3>3, ZenonT(30)
    <3> QED BY <1>0, <3>1, <3>2, <3>3, Zenon DEF Preceded
  <2> QED BY Zenon, <1>11, <2>1 DEF Preceded
<1>17. BoundaryTags'
  <2>1. ASSUME NEW i \in Segments'
        PROVE  /\ size'[Base(i)'] = 1 /\ inuse'[Base(i)'] /\ previnuse'[Base(i)']
               /\ size'[Epilogue(i)'] = 1 /\ inuse'[Epilogue(i)']
               /\ previnuse'[First(i)']
    <3>1. CASE i = j
      <4>1. Base(i)' = lo /\ Epilogue(i)' = epi /\ First(i)' = first BY Zenon, <1>5, <3>1
      <4> HIDE DEF first, epi
      <4> QED BY Zenon, <1>7, <4>1
    <3>2. CASE i \in Segments
      <4>1. Base(i)' = Base(i) /\ Epilogue(i)' = Epilogue(i) /\ First(i)' = First(i)
        BY Zenon, <1>5, <3>2
      <4>2. /\ Base(i) \in Nat /\ Epilogue(i) \in Nat /\ First(i) \in Nat
            /\ Base(i) <= Epilogue(i) /\ First(i) <= Epilogue(i) /\ Base(i) <= First(i)
        BY <3>2, SegmentFacts
      <4>3. /\ size'[Base(i)] = size[Base(i)] /\ inuse'[Base(i)] = inuse[Base(i)]
            /\ previnuse'[Base(i)] = previnuse[Base(i)]
        BY <1>6, <1>8, <3>2, <4>2
      <4>4. size'[Epilogue(i)] = size[Epilogue(i)] /\ inuse'[Epilogue(i)] = inuse[Epilogue(i)]
        BY <1>6, <1>8, <3>2, <4>2
      <4>5. previnuse'[First(i)] = previnuse[First(i)]
        BY Zenon, <1>6, <1>8, <3>2, <4>2
      <4> QED BY Zenon, <3>2, <4>1, <4>3, <4>4, <4>5 DEF BoundaryTags
    <3> QED BY Zenon, <1>3, <3>1, <3>2
  <2>2. ASSUME NEW h \in heads'
        PROVE  LET next == h + size'[h] IN
               /\ previnuse'[next] = inuse'[h]
               /\ ~inuse'[h] => prevsize'[next] = size'[h] /\ inuse'[next]
    <3>1. CASE h = first
      <4>1. h + size'[h] = epi BY Zenon, <1>2, <1>7, <3>1
      <4> HIDE DEF first, epi
      <4> QED BY <1>7, <3>1, <4>1, Zenon
    <3>2. CASE h \in heads
      <4>1. ~Freeing(h) BY Zenon, <1>9, <3>2
      <4> QED BY <1>10, <3>2, <4>1 DEF BoundaryTags
    <3> QED BY <1>0, <3>1, <3>2, Zenon
  <2> QED BY Zenon, <2>1, <2>2 DEF BoundaryTags
<1>18. LiveBlocks'
  <2>1. {f \in heads : inuse[f] /\ ~Freeing(f)} = {f \in heads' : inuse'[f] /\ ~Freeing(f)'}
    <3>1. heads' = heads \cup {first} /\ inuse'[first] = FALSE BY Zenon, <1>0, <1>7
    <3>2. \A f \in heads : inuse'[f] = inuse[f] /\ ~Freeing(f) BY <1>9, <1>10, SMTT(20)
    <3> HIDE DEF first
    <3> QED BY Zenon, <1>11, <3>1, <3>2
  <2>2. ASSUME NEW q \in DOMAIN live PROVE size'[q - 1] >= Needed(live[q])
    <3>1. PICK h \in heads : q = h + 1 BY Zenon DEF LiveBlocks
    <3>2. q - 1 = h BY <1>9, <3>1
    <3> QED BY Zenon, <1>10, <3>2 DEF LiveBlocks
  <2> QED BY <1>0, <2>1, <2>2, Zenon DEF LiveBlocks
<1>19. FreedOK'
  <2>1. ASSUME NEW a \in freed
        PROVE  /\ ~inuse'[a]
               /\ \E i \in Segments' : First(i)' <= a /\ a < Epilogue(i)'
               /\ \A h \in heads' : inuse'[h] => a < h \/ h + size'[h] <= a
    <3>1. PICK i \in Segments : First(i) <= a /\ a < Epilogue(i) BY Zenon DEF FreedOK
    <3>2. a \in Nat BY ConstantAssumption DEF TypeOK
    <3>3. Base(i) <= a /\ a <= Epilogue(i) BY <3>1, <3>2, SegmentFacts
    <3>4. ~inuse'[a] BY Zenon, <1>6, <1>8, <3>2, <3>3 DEF FreedOK
    <3>5. i \in Segments' /\ First(i)' <= a /\ a < Epilogue(i)' BY ZenonT(30), <1>3, <1>5, <3>1
    <3>6. ASSUME NEW h \in heads', inuse'[h] PROVE a < h \/ h + size'[h] <= a
      <4>1. h \in heads BY Zenon, <1>0, <1>7, <3>6
      <4> QED BY ZenonT(20), <1>9, <1>10, <3>6, <4>1 DEF FreedOK
    <3> QED BY Zenon, <3>4, <3>5, <3>6
  <2>2. freed' = freed BY Zenon, <1>0
  <2> QED BY Zenon, <1>11, <2>1, <2>2 DEF FreedOK
<1>20. WalkOK' /\ ForwardOK'
  BY Zenon, <1>0 DEF WalkOK, ForwardOK
<1> QED BY Zenon, <1>13, <1>14, <1>15, <1>16, <1>17, <1>18, <1>19, <1>20

-----------------------------------------------------------------------------
LEMMA StutterStep ==
  ASSUME IInv, UNCHANGED vars
  PROVE  IInv'
<1> USE DEF IInv
<1>1. /\ UNCHANGED <<segments, seg_count, prevsize, size, inuse, previnuse>>
      /\ UNCHANGED <<free_bytes, alloc_count, pc, request, seg_idx, chunk, outcome>>
      /\ UNCHANGED <<c, c_size, span, span_size, n, heads, live, freed>>
  BY Zenon DEF vars, tags, counts, walk, merge, ghosts
<1>2. TypeOK' BY <1>1, SMTT(20) DEF TypeOK
<1>3. SegmentsOK' /\ Preceded' /\ FreedOK'
  BY <1>1, SMTT(20) DEF SegmentsOK, Preceded, FreedOK, ChunkLen, Freeing
<1>4. Tiling' BY ZenonT(30), <1>1 DEF Tiling, ChunkLen, Freeing
<1>5. BoundaryTags' /\ LiveBlocks' BY ZenonT(20), <1>1 DEF BoundaryTags, LiveBlocks, Freeing
<1>6. WalkOK' /\ ForwardOK' BY Zenon, <1>1 DEF WalkOK, ForwardOK, Passed
<1> QED BY Zenon, <1>2, <1>3, <1>4, <1>5, <1>6

LEMMA NextIInv == IInv /\ [Next]_vars => IInv'
<1> SUFFICES ASSUME IInv, [Next]_vars PROVE IInv'
  BY Zenon
<1>1. ASSUME NEW r \in Regions, init_region(r) PROVE IInv'
  BY Zenon, <1>1, InitRegionStep
<1>2. ASSUME NEW l \in Layouts, alloc_refuse(l) \/ alloc_enter(l) PROVE IInv'
  BY Zenon, <1>2, AllocRefuseStep, AllocEnterStep
<1>3. ASSUME NEW p \in FreeInputs, dealloc_refuse(p) \/ dealloc_enter(p) PROVE IInv'
  BY Zenon, <1>3, DeallocRefuseStep, DeallocEnterStep
<1>4. CASE CallStep
  BY Zenon, <1>4, AllocSkipStep, AllocNextSegmentStep, AllocSplitStep, AllocTakeStep,
     AllocOomStep, DeallocAbsorbStep, DeallocOverrunStep, DeallocFinishStep
  DEF CallStep
<1>5. ASSUME NEW p \in DOMAIN live, NEW a \in p .. LastCell(p, live[p]),
             NEW v \in Payloads, ClientWrite(p, a, v)
      PROVE  IInv'
  BY Zenon, <1>5, ClientWriteStep
<1>6. CASE UNCHANGED vars
  BY Zenon, <1>6, StutterStep
<1> QED BY Zenon, <1>1, <1>2, <1>3, <1>4, <1>5, <1>6 DEF Next

\* The inductive invariant holds in every reachable state.
THEOREM Invariance == Spec => []IInv
<1>1. Init => IInv BY Zenon, InitIInv
<1>2. IInv /\ [Next]_vars => IInv' BY Zenon, NextIInv
<1> QED BY <1>1, <1>2, PTL DEF Spec

\* Every variable keeps its type: no header write leaves the address space.
THEOREM TypeCorrect == Spec => []TypeOK
<1>1. IInv => TypeOK BY Zenon DEF IInv
<1> QED BY <1>1, Invariance, PTL

\* The chunks tile the segments at every step of every call.
THEOREM TilingHolds == Spec => []Tiling
<1>1. IInv => Tiling BY Zenon DEF IInv
<1> QED BY <1>1, Invariance, PTL

\* Fences, flags and footers are right at every step, whatever clients write.
THEOREM BoundaryTagsHold == Spec => []BoundaryTags
<1>1. IInv => BoundaryTags BY Zenon DEF IInv
<1> QED BY <1>1, Invariance, PTL

\* Clients hold exactly the in-use chunks, each large enough.
THEOREM LiveBlocksHold == Spec => []LiveBlocks
<1>1. IInv => LiveBlocks BY Zenon DEF IInv
<1> QED BY <1>1, Invariance, PTL

LEMMA DisjointFromIInv == IInv => BlocksDisjoint
<1> SUFFICES ASSUME IInv, NEW p \in DOMAIN live, NEW a \in p .. LastCell(p, live[p])
             PROVE  /\ a \notin heads
                    /\ \A i \in Segments : a \notin {Base(i), Epilogue(i)}
                    /\ \E i \in Segments : First(i) < a /\ a < Epilogue(i)
                    /\ \A q \in DOMAIN live : q # p => a \notin q .. LastCell(q, live[q])
  BY Zenon DEF BlocksDisjoint, Extent
<1> USE DEF IInv
<1> DEFINE b == p - 1
<1>1. /\ b \in heads /\ b \in Nat /\ size[b] \in Nat /\ ChunkLen(b) = size[b]
      /\ a \in Nat /\ b < a /\ a < b + size[b]
  BY Zenon, ExtentInChunk
<1>2. p \in Nat
  BY ConstantAssumption DEF TypeOK
<1>3. a \notin heads BY <1>1, HeadFacts
<1>4. \A i \in Segments : a \notin {Base(i), Epilogue(i)}
  BY <1>1, ApartFacts, SegmentFacts
<1>5. \E i \in Segments : First(i) < a /\ a < Epilogue(i)
  <2>1. PICK i \in Segments : First(i) <= b /\ b + size[b] <= Epilogue(i)
    BY Zenon, <1>1, HeadFacts
  <2> QED BY <1>1, <2>1, SegmentFacts
<1>6. ASSUME NEW q \in DOMAIN live, q # p, a \in q .. LastCell(q, live[q]) PROVE FALSE
  <2>1. /\ q - 1 \in heads /\ q - 1 \in Nat /\ size[q - 1] \in Nat
        /\ ChunkLen(q - 1) = size[q - 1] /\ q - 1 < a /\ a < (q - 1) + size[q - 1]
    BY Zenon, <1>6, ExtentInChunk
  <2>2. q - 1 # b
    <3>1. q \in Nat BY ConstantAssumption DEF TypeOK
    <3> QED BY <1>2, <1>6, <3>1
  <2> QED BY <1>1, <2>1, <2>2, HeadFacts
<1> QED BY Zenon, <1>3, <1>4, <1>5, <1>6

\* No client can write into a header, a fence or another client's block.
THEOREM BlocksDisjointHolds == Spec => []BlocksDisjoint
BY Invariance, DisjointFromIInv, PTL

\* An address freed and not handed out since never looks in use.
THEOREM StaleNeutralHolds == Spec => []StaleNeutral
<1>1. IInv => StaleNeutral BY Zenon DEF IInv, FreedOK, StaleNeutral, Owners
<1> QED BY <1>1, Invariance, PTL

\* An out-of-memory return means that no free chunk fits.
THEOREM OomHonestHolds == Spec => OomHonest
<1>1. ASSUME IInv, [Next]_vars, pc = "walk", outcome' = "oom"
      PROVE  NothingFits(request)
  <2> USE DEF IInv
  <2>1. outcome = "none" BY Zenon, <1>1 DEF WalkOK
  <2>2. alloc_oom
    <3>1. ~UNCHANGED vars BY Zenon, <1>1, <2>1 DEF vars
    <3>2. ASSUME NEW p \in DOMAIN live, NEW a \in p .. LastCell(p, live[p]),
                 NEW v \in Payloads, ClientWrite(p, a, v)
          PROVE  FALSE
      BY Zenon, <1>1, <2>1, <3>2 DEF ClientWrite
    <3>3. CASE CallStep
      <4>1. ~alloc_skip /\ ~alloc_next_segment
        BY Zenon, <1>1, <2>1 DEF alloc_skip, alloc_next_segment
      <4>2. ~alloc_split /\ ~alloc_take
        BY <1>1, SMTT(20) DEF alloc_split, alloc_take, HandOut
      <4>3. ~dealloc_absorb /\ ~dealloc_overrun /\ ~dealloc_finish
        BY Zenon, <1>1 DEF dealloc_absorb, dealloc_overrun, dealloc_finish
      <4> QED BY Zenon, <3>3, <4>1, <4>2, <4>3 DEF CallStep
    <3>4. ASSUME NEW r \in Regions PROVE ~init_region(r) BY Zenon, <1>1 DEF init_region
    <3>5. ASSUME NEW l \in Layouts PROVE ~alloc_refuse(l) /\ ~alloc_enter(l)
      BY Zenon, <1>1 DEF alloc_refuse, alloc_enter
    <3>6. ASSUME NEW p \in FreeInputs PROVE ~dealloc_refuse(p) /\ ~dealloc_enter(p)
      BY Zenon, <1>1 DEF dealloc_refuse, dealloc_enter
    <3> QED BY Zenon, <1>1, <3>1, <3>2, <3>3, <3>4, <3>5, <3>6 DEF Next
  <2>3. seg_idx = seg_count BY Zenon, <2>2 DEF alloc_oom
  <2>4. ASSUME NEW h \in heads PROVE Passed(h)
    <3>1. /\ h \in Nat /\ ChunkLen(h) \in Nat /\ ChunkLen(h) >= 2
          /\ \E i \in Segments : First(i) <= h /\ h + ChunkLen(h) <= Epilogue(i)
      BY Zenon, <1>1, HeadFacts
    <3>2. PICK i \in Segments : First(i) <= h /\ h + ChunkLen(h) <= Epilogue(i)
      BY Zenon, <3>1
    <3>3. i < seg_idx /\ h < Epilogue(i) BY <1>1, <2>3, <3>1, <3>2, SegmentFacts
    <3> QED BY Zenon, <3>2, <3>3 DEF Passed
  <2> QED BY Zenon, <1>1, <2>4 DEF WalkOK, NothingFits
<1>2. IInv /\ [Next]_vars
        => [pc = "walk" /\ outcome' = "oom" => NothingFits(request)]_vars
  BY Zenon, <1>1
<1> QED BY <1>2, Invariance, PTL DEF OomHonest, Spec

=============================================================================
