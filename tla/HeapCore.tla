------------------------------ MODULE HeapCore ------------------------------
(***************************************************************************)
(* The boundary-tag allocator of src/hal/heap.rs, one loop iteration per   *)
(* step.  Addresses and sizes are counted in granules of CHUNK_ALIGN bytes *)
(* (every chunk starts and ends on one); byte quantities are converted     *)
(* where the code converts them.  A cell of memory is one granule, read as *)
(* a chunk header: prev_size, size and the two flag bits.  A size of 0     *)
(* stands for every size word the walks reject (below MIN_CHUNK or not a   *)
(* multiple of CHUNK_ALIGN).                                               *)
(*                                                                         *)
(* Clients of the heap may write to the payload of a block they hold at    *)
(* any time, also while another core is inside alloc or dealloc.           *)
(***************************************************************************)
EXTENDS Integers, FiniteSets

CONSTANTS
  MaxAddr,       \* last granule of the modelled address space
  Regions,       \* the byte ranges [base, end) handed to init_region
  Layouts,       \* the layouts [size, align] clients ask for, in bytes
  BogusPtrs,     \* byte addresses no block ever has: null, odd, outside
  Payloads,      \* what a payload cell may hold, read as a header
  MAX_SEGMENTS

CHUNK_ALIGN == 16                                   \* bytes per granule
MIN_CHUNK == 2
PROLOGUE_SIZE == 1
EPILOGUE_SIZE == 1
HEADER_SIZE == 1

Addr == 0 .. MaxAddr

\* align_up(base) and end & !(CHUNK_ALIGN - 1), in granules.
RegionBase(r) == (r.base + CHUNK_ALIGN - 1) \div CHUNK_ALIGN
RegionEnd(r)  == r.end \div CHUNK_ALIGN

\* The chunk size that serves a request of so many bytes.  Layout caps
\* sizes at isize::MAX, so the checked additions never overflow.
Needed(bytes) ==
  LET payload == IF bytes > 1 THEN bytes ELSE 1
      granules == (payload + HEADER_SIZE * CHUNK_ALIGN + CHUNK_ALIGN - 1)
                    \div CHUNK_ALIGN
  IN  IF granules > MIN_CHUNK THEN granules ELSE MIN_CHUNK

\* The last granule of the payload a client may write.
LastCell(ptr, bytes) == ptr + ((bytes + CHUNK_ALIGN - 1) \div CHUNK_ALIGN) - 1

ASSUME ConstantAssumption ==
  /\ MaxAddr \in Nat
  /\ MAX_SEGMENTS \in Nat
  /\ Regions \subseteq [base : Nat, end : Nat]
  /\ \A r \in Regions : RegionEnd(r) <= MaxAddr + 1
  /\ Layouts \subseteq [size : Nat, align : Nat]
  /\ BogusPtrs \subseteq Nat
  /\ Payloads \subseteq [prev_size : Nat, size : Nat,
                         inuse : BOOLEAN, previnuse : BOOLEAN]

\* The caller's side of init_region: "Segments must be disjoint".
ASSUME RegionAssumption ==
  \A r, s \in Regions :
    r # s => RegionEnd(r) <= RegionBase(s) \/ RegionEnd(s) <= RegionBase(r)

\* A bogus pointer is null, misaligned, or names no chunk of any region.
ASSUME BogusAssumption ==
  \A p \in BogusPtrs :
    \/ p = 0
    \/ p % CHUNK_ALIGN # 0
    \/ \A r \in Regions :
         ~ (p \div CHUNK_ALIGN) \in RegionBase(r) + 2 .. RegionEnd(r) - 1

VARIABLES
  segments, seg_count,                  \* the installed segments
  prevsize, size, inuse, previnuse,     \* memory, read as chunk headers
  free_bytes, alloc_count,              \* accounting (granules, blocks)
  pc, request, seg_idx, chunk,          \* alloc: its request and its walk
  c, c_size, span, span_size, n,        \* dealloc: its locals
  outcome,                              \* which counter the last call bumped
  heads, live, freed                    \* auxiliary, see below

(***************************************************************************)
(* Auxiliary variables, which no action reads to decide anything the code  *)
(* decides: heads is the set of chunk starts, live maps the payload of     *)
(* every block a client holds to the bytes it asked for, and freed is the  *)
(* set of chunk addresses that were freed and not handed out again since.  *)
(***************************************************************************)
tags   == <<prevsize, size, inuse, previnuse>>
counts == <<free_bytes, alloc_count>>
walk   == <<request, seg_idx, chunk>>
merge  == <<c, c_size, span, span_size, n>>
ghosts == <<heads, live, freed>>
vars   == <<segments, seg_count, tags, counts, pc, walk, merge, outcome, ghosts>>

Base(i)     == segments[i].base
Epilogue(i) == segments[i].end - EPILOGUE_SIZE
First(i)    == Base(i) + PROLOGUE_SIZE

Installed == {segments[i] : i \in 0 .. seg_count - 1}

-----------------------------------------------------------------------------
\* The segment table has a free slot.
HasSlot == seg_count < MAX_SEGMENTS

\* init_region: the segment becomes prologue, one free chunk, epilogue.  Its
\* callers hand it disjoint segments, so none twice.
init_region(r) ==
  LET base == RegionBase(r)
      end  == RegionEnd(r)
      epi  == end - EPILOGUE_SIZE
      first == base + PROLOGUE_SIZE
      free_size == end - base - PROLOGUE_SIZE - EPILOGUE_SIZE
  IN  /\ pc = "idle"
      /\ HasSlot
      /\ end >= base + MIN_CHUNK + PROLOGUE_SIZE + EPILOGUE_SIZE
      /\ [base |-> base, end |-> end] \notin Installed
      /\ size' = [size EXCEPT ![base] = PROLOGUE_SIZE, ![first] = free_size,
                              ![epi] = EPILOGUE_SIZE]
      /\ inuse' = [inuse EXCEPT ![base] = TRUE, ![first] = FALSE, ![epi] = TRUE]
      /\ previnuse' = [previnuse EXCEPT ![base] = TRUE, ![first] = TRUE,
                                        ![epi] = FALSE]
      /\ prevsize' = [prevsize EXCEPT ![epi] = free_size]
      /\ segments' = [segments EXCEPT ![seg_count] = [base |-> base, end |-> end]]
      /\ seg_count' = seg_count + 1
      /\ free_bytes' = free_bytes + free_size
      /\ heads' = heads \cup {first}
      /\ UNCHANGED <<alloc_count, pc, walk, merge, outcome, live, freed>>

-----------------------------------------------------------------------------
\* alloc refuses alignments above CHUNK_ALIGN.
alloc_refuse(l) ==
  /\ pc = "idle"
  /\ l.align > CHUNK_ALIGN
  /\ outcome' = "align_fail"
  /\ UNCHANGED <<segments, seg_count, tags, counts, pc, walk, merge, ghosts>>

\* Where the walk of segment i starts; past the last one there is no chunk.
WalkStart(i) == IF i < seg_count THEN First(i) ELSE 0

alloc_enter(l) ==
  /\ pc = "idle"
  /\ l.align <= CHUNK_ALIGN
  /\ pc' = "walk"
  /\ request' = l.size
  /\ seg_idx' = 0
  /\ chunk' = WalkStart(0)
  /\ outcome' = "none"
  /\ UNCHANGED <<segments, seg_count, tags, counts, merge, ghosts>>

\* The walk stands on a chunk of segment seg_idx whose header is sane.
OnChunk ==
  /\ pc = "walk"
  /\ seg_idx < seg_count
  /\ chunk < Epilogue(seg_idx)
  /\ size[chunk] >= MIN_CHUNK

\* Mutants: a chunk in use, one too small, none of the exact size.
FitsInUse == size[chunk] >= Needed(request)
FitsSmall == ~inuse[chunk]
FitsStrict == ~inuse[chunk] /\ size[chunk] > Needed(request)

Fits == ~inuse[chunk] /\ size[chunk] >= Needed(request)

alloc_skip ==
  /\ OnChunk
  /\ ~Fits
  /\ chunk' = chunk + size[chunk]
  /\ UNCHANGED <<segments, seg_count, tags, counts, pc, request, seg_idx,
                 merge, outcome, ghosts>>

\* Mutant: the walk of a segment starts over instead of going to the next.
alloc_same_segment ==
  /\ pc = "walk"
  /\ seg_idx < seg_count
  /\ chunk >= Epilogue(seg_idx) \/ size[chunk] < MIN_CHUNK
  /\ chunk' = WalkStart(seg_idx)
  /\ UNCHANGED <<segments, seg_count, tags, counts, pc, request, seg_idx, merge,
                 outcome, ghosts>>

\* The epilogue, or a header the walk refuses, ends this segment's walk.
alloc_next_segment ==
  /\ pc = "walk"
  /\ seg_idx < seg_count
  /\ chunk >= Epilogue(seg_idx) \/ size[chunk] < MIN_CHUNK
  /\ seg_idx' = seg_idx + 1
  /\ chunk' = WalkStart(seg_idx + 1)
  /\ UNCHANGED <<segments, seg_count, tags, counts, pc, request, merge,
                 outcome, ghosts>>

\* What both ways of handing out `taken` granules at chunk have in common.
HandOut(taken) ==
  /\ free_bytes' = free_bytes - taken
  /\ alloc_count' = alloc_count + 1
  /\ live' = [p \in DOMAIN live \cup {chunk + HEADER_SIZE} |->
                IF p = chunk + HEADER_SIZE THEN request ELSE live[p]]
  /\ freed' = freed \ (chunk .. chunk + taken - 1)
  /\ pc' = "idle"
  /\ outcome' = "ok"
  /\ request' = 0 /\ seg_idx' = 0 /\ chunk' = 0
  /\ UNCHANGED <<segments, seg_count, merge>>

\* Mutant: remainders below MIN_CHUNK are split off too.
SplitsTiny == size[chunk] > Needed(request)

\* The remainder is large enough for a chunk of its own.
Splits == size[chunk] - Needed(request) >= MIN_CHUNK

alloc_split ==
  LET sz == size[chunk]
      needed == Needed(request)
      rest == sz - needed
      right == chunk + needed
  IN  /\ OnChunk
      /\ Fits
      /\ Splits
      /\ prevsize' = [prevsize EXCEPT ![right] = needed, ![chunk + sz] = rest]
      /\ size' = [size EXCEPT ![right] = rest, ![chunk] = needed]
      /\ inuse' = [inuse EXCEPT ![right] = FALSE, ![chunk] = TRUE]
      /\ previnuse' = [previnuse EXCEPT ![right] = TRUE]
      /\ heads' = heads \cup {right}
      /\ HandOut(needed)

alloc_take ==
  LET sz == size[chunk]
      a == chunk + sz
  IN  /\ OnChunk
      /\ Fits
      /\ ~Splits
      /\ inuse' = [inuse EXCEPT ![chunk] = TRUE]
      /\ previnuse' = [previnuse EXCEPT ![a] = TRUE]
      /\ UNCHANGED <<prevsize, size, heads>>
      /\ HandOut(sz)

alloc_oom ==
  /\ pc = "walk"
  /\ seg_idx = seg_count
  /\ pc' = "idle"
  /\ outcome' = "oom"
  /\ request' = 0 /\ seg_idx' = 0 /\ chunk' = 0
  /\ UNCHANGED <<segments, seg_count, tags, counts, merge, ghosts>>

-----------------------------------------------------------------------------
\* The chunk a byte pointer names, and the segments that own the chunk.
ChunkOf(ptr) == (ptr \div CHUNK_ALIGN) - HEADER_SIZE
Owners(a) == {i \in 0 .. seg_count - 1 : First(i) <= a /\ a < Epilogue(i)}
Owner(a) == CHOOSE i \in Owners(a) : \A j \in Owners(a) : i <= j

WellPlaced(ptr) ==
  ptr # 0 /\ ptr % CHUNK_ALIGN = 0 /\ Owners(ChunkOf(ptr)) # {}

\* prev_addr with the saturating subtraction of the code.
PrevAddr(a) == IF prevsize[a] > a THEN 0 ELSE a - prevsize[a]

PrevInSegment(a) == PrevAddr(a) >= First(Owner(a))

\* Mutant: the neutralised header keeps its flags.
NeutraliseSize(a) ==
  size' = [size EXCEPT ![a] = 0] /\ UNCHANGED <<inuse, previnuse>>

\* set_header(a, 0, 0): a is no chunk any more.
Neutralise(a) ==
  /\ size' = [size EXCEPT ![a] = 0]
  /\ inuse' = [inuse EXCEPT ![a] = FALSE]
  /\ previnuse' = [previnuse EXCEPT ![a] = FALSE]

Refuse(why) ==
  /\ outcome' = why
  /\ UNCHANGED <<segments, seg_count, tags, counts, pc, walk, merge, ghosts>>

\* The early returns of dealloc, each of which only bumps a counter.
dealloc_refuse(ptr) ==
  LET a == ChunkOf(ptr) IN
  /\ pc = "idle"
  /\ \/ ~WellPlaced(ptr) /\ Refuse("bad_free")
     \/ WellPlaced(ptr) /\ ~inuse[a] /\ Refuse("double_free")
     \/ /\ WellPlaced(ptr) /\ inuse[a]
        /\ \/ size[a] < MIN_CHUNK
           \/ ~previnuse[a] /\ ~PrevInSegment(a)
        /\ Refuse("bad_free")

\* dealloc up to the forward walk: a free predecessor absorbs the chunk, whose
\* header is then neutralised.
dealloc_enter(ptr) ==
  LET a == ChunkOf(ptr)
      prev == PrevAddr(a)
  IN  /\ pc = "idle"
      /\ WellPlaced(ptr) /\ inuse[a] /\ size[a] >= MIN_CHUNK
      /\ \/ /\ previnuse[a]
            /\ span' = a /\ span_size' = size[a]
            /\ UNCHANGED <<tags, heads>>
         \/ /\ ~previnuse[a] /\ PrevInSegment(a)
            /\ span' = prev /\ span_size' = size[prev] + size[a]
            /\ Neutralise(a)
            /\ UNCHANGED prevsize
            /\ heads' = heads \ {a}
      /\ pc' = "forward"
      /\ c' = a /\ c_size' = size[a] /\ n' = a + size[a]
      /\ seg_idx' = Owner(a)
      /\ live' = [p \in DOMAIN live \ {a + HEADER_SIZE} |-> live[p]]
      /\ outcome' = "none"
      /\ UNCHANGED <<segments, seg_count, counts, request, chunk, freed>>

\* Mutants: a chunk of the minimal size ends the loop; no chunk is absorbed.
AbsorbLarge == n < Epilogue(seg_idx) /\ ~inuse[n] /\ size[n] > MIN_CHUNK
AbsorbNone == FALSE

\* Forward coalescing: the loop goes on over free chunks with a sane header.
Absorbable == n < Epilogue(seg_idx) /\ ~inuse[n] /\ size[n] >= MIN_CHUNK

dealloc_absorb ==
  /\ pc = "forward"
  /\ Absorbable
  /\ Neutralise(n)
  /\ span_size' = span_size + size[n]
  /\ n' = n + size[n]
  /\ heads' = heads \ {n}
  /\ UNCHANGED <<segments, seg_count, prevsize, counts, pc, walk, c, c_size,
                 span, outcome, live, freed>>

\* The walk ended past the epilogue: counted, and the call gives up.
dealloc_overrun ==
  /\ pc = "forward"
  /\ n > Epilogue(seg_idx)
  /\ pc' = "idle"
  /\ outcome' = "bad_free"
  /\ seg_idx' = 0 /\ c' = 0 /\ c_size' = 0 /\ span' = 0 /\ span_size' = 0 /\ n' = 0
  /\ UNCHANGED <<segments, seg_count, tags, counts, request, chunk, ghosts>>

\* The merged span becomes one free chunk whose footer is in n.
dealloc_finish ==
  /\ pc = "forward"
  /\ ~Absorbable
  /\ n <= Epilogue(seg_idx)
  /\ prevsize' = [prevsize EXCEPT ![n] = span_size]
  /\ size' = [size EXCEPT ![span] = span_size]
  /\ inuse' = [inuse EXCEPT ![span] = FALSE]
  /\ previnuse' = [previnuse EXCEPT ![n] = FALSE]
  /\ free_bytes' = free_bytes + c_size
  /\ alloc_count' = alloc_count - 1
  /\ freed' = freed \cup {c}
  /\ pc' = "idle"
  /\ outcome' = "ok"
  /\ seg_idx' = 0 /\ c' = 0 /\ c_size' = 0 /\ span' = 0 /\ span_size' = 0 /\ n' = 0
  /\ UNCHANGED <<segments, seg_count, request, chunk, heads, live>>

-----------------------------------------------------------------------------
\* A client stores v somewhere in the bytes it asked for.
ClientWrite(p, a, v) ==
  /\ prevsize' = [prevsize EXCEPT ![a] = v.prev_size]
  /\ size' = [size EXCEPT ![a] = v.size]
  /\ inuse' = [inuse EXCEPT ![a] = v.inuse]
  /\ previnuse' = [previnuse EXCEPT ![a] = v.previnuse]
  /\ UNCHANGED <<segments, seg_count, counts, pc, walk, merge, outcome, ghosts>>

\* What clients pass to dealloc: a block they hold, one freed before and not
\* handed out since, or a pointer that never was a block.
FreeInputs ==
  {(a + HEADER_SIZE) * CHUNK_ALIGN : a \in freed}
    \cup {p * CHUNK_ALIGN : p \in DOMAIN live} \cup BogusPtrs

NoSegment == [base |-> 0, end |-> 0]

\* HeapCore::new over memory with arbitrary contents.
Init ==
  /\ \E v \in Payloads :
       /\ prevsize = [a \in Addr |-> v.prev_size]
       /\ size = [a \in Addr |-> v.size]
       /\ inuse = [a \in Addr |-> v.inuse]
       /\ previnuse = [a \in Addr |-> v.previnuse]
  /\ segments = [i \in 0 .. MAX_SEGMENTS - 1 |-> NoSegment]
  /\ seg_count = 0
  /\ free_bytes = 0 /\ alloc_count = 0
  /\ pc = "idle" /\ outcome = "none"
  /\ request = 0 /\ seg_idx = 0 /\ chunk = 0
  /\ c = 0 /\ c_size = 0 /\ span = 0 /\ span_size = 0 /\ n = 0
  /\ heads = {} /\ freed = {}
  /\ live = [p \in {} |-> 0]

\* The steps of a call in progress.
CallStep ==
  \/ alloc_skip \/ alloc_next_segment \/ alloc_split \/ alloc_take \/ alloc_oom
  \/ dealloc_absorb \/ dealloc_overrun \/ dealloc_finish

Next ==
  \/ \E r \in Regions : init_region(r)
  \/ \E l \in Layouts : alloc_refuse(l) \/ alloc_enter(l)
  \/ \E p \in FreeInputs : dealloc_refuse(p) \/ dealloc_enter(p)
  \/ CallStep
  \/ \E p \in DOMAIN live : \E a \in p .. LastCell(p, live[p]) :
       \E v \in Payloads : ClientWrite(p, a, v)

Spec == Init /\ [][Next]_vars

\* A call that has started goes on: the core runs it to completion.
FairSpec == Spec /\ WF_vars(CallStep)

-----------------------------------------------------------------------------
Segments == 0 .. seg_count - 1

\* The type of every variable.
TypeOK ==
  /\ segments \in [0 .. MAX_SEGMENTS - 1 -> [base : Nat, end : Nat]]
  /\ seg_count \in 0 .. MAX_SEGMENTS
  /\ prevsize \in [Addr -> Nat] /\ size \in [Addr -> Nat]
  /\ inuse \in [Addr -> BOOLEAN] /\ previnuse \in [Addr -> BOOLEAN]
  /\ free_bytes \in Int /\ alloc_count \in Int
  /\ pc \in {"idle", "walk", "forward"}
  /\ outcome \in {"none", "ok", "align_fail", "oom", "bad_free", "double_free"}
  /\ request \in Nat /\ seg_idx \in 0 .. MAX_SEGMENTS /\ chunk \in Nat
  /\ c \in Nat /\ c_size \in Nat /\ span \in Nat /\ span_size \in Nat /\ n \in Nat
  /\ heads \in SUBSET Addr /\ freed \in SUBSET Addr
  /\ DOMAIN live \in SUBSET Addr
  /\ \A p \in DOMAIN live : live[p] \in Nat

\* The chunk that dealloc is merging: its length is still in a local.
Freeing(h) == pc = "forward" /\ h = span
ChunkLen(h) == IF Freeing(h) THEN span_size ELSE size[h]

\* At every step of every call the chunks tile each segment from prologue to
\* epilogue without gap or overlap (heap.rs:259, "chunks tile the region
\* exactly"); while dealloc merges, the merged span counts as one chunk.
Tiling ==
  /\ \A i \in Segments : First(i) \in heads
  /\ \A h \in heads :
       /\ ChunkLen(h) >= MIN_CHUNK
       /\ \E i \in Segments :
            /\ First(i) <= h
            /\ h + ChunkLen(h) <= Epilogue(i)
            /\ h + ChunkLen(h) = Epilogue(i) \/ h + ChunkLen(h) \in heads
  /\ \A g, h \in heads : g < h => g + ChunkLen(g) <= h

\* The fences are intact, every chunk tells the truth about its predecessor,
\* a free chunk has its footer in the next chunk, and no two free chunks are
\* neighbours, whatever clients write into their blocks meanwhile.
BoundaryTags ==
  /\ \A i \in Segments :
       /\ size[Base(i)] = PROLOGUE_SIZE /\ inuse[Base(i)] /\ previnuse[Base(i)]
       /\ size[Epilogue(i)] = EPILOGUE_SIZE /\ inuse[Epilogue(i)]
       /\ previnuse[First(i)]
  /\ \A h \in heads :
       LET next == h + size[h] IN
       ~Freeing(h) => /\ previnuse[next] = inuse[h]
                      /\ ~inuse[h] => prevsize[next] = size[h] /\ inuse[next]

\* The bytes a client may write are in no chunk header, in no fence and in no
\* other client's block: a write to one block cannot change another block or
\* the allocator's own data.
Extent(p) == p .. LastCell(p, live[p])
BlocksDisjoint ==
  \A p \in DOMAIN live : \A a \in Extent(p) :
    /\ a \notin heads
    /\ \A i \in Segments : a \notin {Base(i), Epilogue(i)}
    /\ \E i \in Segments : First(i) < a /\ a < Epilogue(i)
    /\ \A q \in DOMAIN live : q # p => a \notin Extent(q)

\* The blocks clients hold are exactly the in-use chunks, each large enough
\* for the request it serves: no block is lost, resurrected or cut short.
LiveBlocks ==
  /\ DOMAIN live = {h + HEADER_SIZE : h \in {g \in heads : inuse[g] /\ ~Freeing(g)}}
  /\ \A p \in DOMAIN live : size[p - HEADER_SIZE] >= Needed(live[p])

\* A chunk address that was freed, and lies in no block handed out since, does
\* not look in use: a second free of it takes the double_free return
\* (heap.rs:223, "a later double-free of an interior address is still detected").
StaleNeutral == \A a \in freed : ~inuse[a] /\ Owners(a) # {}

\* alloc reports out-of-memory only if no free chunk of any segment fits: the
\* walk neither stops early nor steps over a chunk.
NothingFits(bytes) == \A h \in heads : inuse[h] \/ size[h] < Needed(bytes)
OomHonest == [][pc = "walk" /\ outcome' = "oom" => NothingFits(request)]_vars

\* Every call of alloc or dealloc returns.
CallReturns == pc # "idle" ~> pc = "idle"

=============================================================================
