--------------------------- MODULE KeyboardProofs ---------------------------
(***************************************************************************)
(* The ring between the interrupt handler and getchar loses and duplicates *)
(* nothing, for every size of the ring; and decoder, ring and getchar      *)
(* together implement KeyQueue.                                            *)
(***************************************************************************)
EXTENDS Keyboard, TLAPS

\* Incrementing a ring index, without the modulus.
LEMMA Next1Value ==
  ASSUME NEW i \in Slots
  PROVE  Next1(i) = IF i = BUF_SZ - 1 THEN 0 ELSE i + 1
<1> USE BufAssumption DEF Slots, Next1
<1>1. CASE i = BUF_SZ - 1
  <2>1. i + 1 = BUF_SZ BY <1>1
  <2> QED BY <1>1, <2>1
<1>2. CASE i # BUF_SZ - 1
  <2>1. i + 1 \in 0 .. BUF_SZ - 1 BY <1>2
  <2> QED BY <1>2, <2>1
<1> QED BY Zenon, <1>1, <1>2

\* Where getchar stands relative to the ring.
ReaderOK ==
  /\ pc \in {"head", "read", "store"} => local = tail
  /\ pc \in {"read", "store"} => head # tail
  /\ pc = "store" => chr = buf[tail]

IInv == TypeOK /\ ReaderOK

LEMMA InitIInv == Init => IInv
BY BufAssumption DEF Init, IInv, TypeOK, ReaderOK, Slots, Chars

\* The handler at most appends one character behind the unread ones.
PushAt(c) ==
  /\ tail' = tail
  /\ \/ buf' = buf /\ head' = head
     \/ /\ Next1(head) # tail
        /\ buf' = [buf EXCEPT ![head] = c] /\ head' = Next1(head)

LEMMA HandlerPushes ==
  ASSUME irq1_handler
  PROVE  \E c \in Chars : PushAt(c)
<1> PICK b : irq_prefix(b) \/ irq_release(b) \/ irq_extended(b) \/ irq_make(b)
  BY Zenon DEF irq1_handler
<1>1. CASE irq_prefix(b) \/ irq_release(b)
  BY Zenon, <1>1 DEF irq_prefix, irq_release, ring, PushAt, Chars
<1>2. CASE irq_extended(b)
  BY Zenon, <1>2 DEF irq_extended, push_char, ring, PushAt, Chars
<1>3. CASE irq_make(b)
  BY Zenon, <1>3 DEF irq_make, push_char, ring, PushAt, Chars
<1> QED BY Zenon, <1>1, <1>2, <1>3

\* The decoder's flags stay Boolean.
LEMMA HandlerFlags ==
  ASSUME TypeOK, irq1_handler
  PROVE  SHIFT' \in BOOLEAN /\ EXTENDED' \in BOOLEAN /\ RELEASE' \in BOOLEAN
<1> PICK b : irq_prefix(b) \/ irq_release(b) \/ irq_extended(b) \/ irq_make(b)
  BY Zenon DEF irq1_handler
<1> QED BY Zenon DEF irq_prefix, irq_release, irq_extended, irq_make, TypeOK

\* What one step does to the ring and to getchar.
LEMMA StepKinds ==
  ASSUME [Next]_vars
  PROVE  \/ UNCHANGED <<buf, head, tail, pc, local, chr, got>>
         \/ irq1_handler
         \/ getchar_call \/ getchar_tail \/ getchar_head \/ getchar_read \/ getchar_store
<1>1. ASSUME NEW x, NEW y, Send(x, y) PROVE UNCHANGED <<buf, head, tail, pc, local, chr, got>>
  BY Zenon, <1>1 DEF Send, ring, reader
<1> QED
  BY Zenon, <1>1 DEF Next, Getchar, vars, ring, reader, press_shift, release_shift, press_key,
     release_key

LEMMA Flags ==
  ASSUME TypeOK, [Next]_vars
  PROVE  held' \in BOOLEAN /\ SHIFT' \in BOOLEAN /\ EXTENDED' \in BOOLEAN /\ RELEASE' \in BOOLEAN
<1>1. CASE irq1_handler
  BY Zenon, <1>1, HandlerFlags DEF irq1_handler, TypeOK
<1>2. CASE press_shift \/ release_shift \/ press_key \/ release_key
  BY <1>2, Zenon DEF press_shift, release_shift, press_key, release_key, Send, decoder, TypeOK
<1>3. CASE getchar_call \/ Getchar \/ UNCHANGED vars
  BY Zenon, <1>3 DEF getchar_call, Getchar, getchar_tail, getchar_head, getchar_read, getchar_store,
     GetterOnly, decoder, vars, TypeOK
<1> QED BY Zenon, <1>1, <1>2, <1>3 DEF Next

\* The invariant is inductive.
LEMMA NextIInv == IInv /\ [Next]_vars => IInv'
<1> SUFFICES ASSUME IInv, [Next]_vars PROVE IInv'
  BY Zenon
<1>0. held' \in BOOLEAN /\ SHIFT' \in BOOLEAN /\ EXTENDED' \in BOOLEAN /\ RELEASE' \in BOOLEAN
  BY Zenon, Flags DEF IInv
<1>n. \A i \in Slots : Next1(i) \in Slots
  BY Next1Value, BufAssumption DEF Slots
<1>1. CASE irq1_handler
  <2>1. PICK c \in Chars : PushAt(c) BY Zenon, <1>1, HandlerPushes
  <2>2. UNCHANGED <<pc, local, chr, got>> BY Zenon, <1>1 DEF irq1_handler, reader
  <2> QED BY Zenon, <1>0, <1>n, <2>1, <2>2 DEF PushAt, IInv, TypeOK, ReaderOK
<1>2. CASE getchar_call \/ getchar_tail \/ getchar_head
  BY Zenon, <1>0, <1>2 DEF getchar_call, getchar_tail, getchar_head, GetterOnly, IInv, TypeOK, ReaderOK
<1>3. CASE getchar_read
  BY Zenon, <1>0, <1>3 DEF getchar_read, GetterOnly, IInv, TypeOK, ReaderOK
<1>4. CASE getchar_store
  BY Zenon, <1>0, <1>n, <1>4 DEF getchar_store, GetterOnly, IInv, TypeOK, ReaderOK
<1>5. CASE UNCHANGED <<buf, head, tail, pc, local, chr, got>>
  BY Zenon, <1>0, <1>5 DEF IInv, TypeOK, ReaderOK
<1> QED BY Zenon, <1>1, <1>2, <1>3, <1>4, <1>5, StepKinds

\* The inductive invariant holds in every reachable state.
THEOREM Invariance == Spec => []IInv
BY InitIInv, NextIInv, PTL DEF Spec

\* getchar returns the oldest unread character, whenever the handler ran.
THEOREM ReadsOldestHolds == Spec => []ReadsOldest
<1>1. IInv => ReadsOldest
  BY DEF IInv, TypeOK, ReaderOK, ReadsOldest, Unread, Slots
<1> QED BY <1>1, Invariance, PTL

\* No unread character is overwritten or dropped, for every ring size.
THEOREM UnreadKeptHolds == Spec => UnreadKept
<1> DEFINE Kept == \A i \in Slots : Unread(i) =>
                     buf'[i] = buf[i] /\ (Unread(i)' \/ (pc = "store" /\ i = tail))
<1>1. IInv /\ [Next]_vars => [Kept]_vars
  <2> SUFFICES ASSUME IInv, [Next]_vars, NEW i \in Slots, Unread(i)
               PROVE  buf'[i] = buf[i] /\ (Unread(i)' \/ (pc = "store" /\ i = tail))
    BY Zenon
  <2>0. /\ head \in Slots /\ tail \in Slots /\ buf \in [Slots -> Chars]
        /\ pc = "store" => local = tail /\ head # tail
    BY Zenon DEF IInv, TypeOK, ReaderOK
  <2>1. CASE irq1_handler
    <3>1. PICK c \in Chars : PushAt(c) BY Zenon, <2>1, HandlerPushes
    <3>2. Next1(head) = IF head = BUF_SZ - 1 THEN 0 ELSE head + 1
      BY Zenon, <2>0, Next1Value
    <3>3. head # i
      BY <2>0 DEF Unread, Slots
    <3>4. buf'[i] = buf[i]
      BY Zenon, <2>0, <3>1, <3>3 DEF PushAt
    <3>5. Unread(i)'
      BY <2>0, <3>1, <3>2, BufAssumption DEF PushAt, Unread, Slots
    <3> QED BY Zenon, <3>4, <3>5
  <2>2. CASE getchar_store
    <3>1. tail' = IF tail = BUF_SZ - 1 THEN 0 ELSE tail + 1
      BY Zenon, <2>0, <2>2, Next1Value DEF getchar_store
    <3>2. buf' = buf /\ head' = head /\ pc = "store"
      BY Zenon, <2>2 DEF getchar_store, GetterOnly
    <3> QED BY <2>0, <3>1, <3>2, BufAssumption DEF Unread, Slots
  <2>3. CASE UNCHANGED <<buf, head, tail>>
    BY Zenon, <2>3 DEF Unread
  <2>4. CASE getchar_call \/ getchar_tail \/ getchar_head \/ getchar_read
    BY Zenon, <2>3, <2>4 DEF getchar_call, getchar_tail, getchar_head, getchar_read, GetterOnly
  <2> QED BY Zenon, <2>1, <2>2, <2>3, <2>4, StepKinds
<1> QED BY <1>1, Invariance, PTL DEF Spec, UnreadKept

-----------------------------------------------------------------------------
(* What the bytes on the wire will be decoded to.                          *)

Bytes == {"E0", "F0", "SHIFT", "CTRL", "ARROW", "LETTER", "OTHER"}
Flag  == {"shift", "ext", "rel"}

\* A byte that yields a character when the flags f are set, and which one.
Emits(f, b) == "rel" \notin f /\ b = IF "ext" \in f THEN "ARROW" ELSE "LETTER"
CharOf(f)   == IF "ext" \in f THEN "arrow" ELSE IF "shift" \in f THEN "upper" ELSE "lower"

\* The flags after a byte.
After(f, b) ==
  IF b = "E0" THEN f \cup {"ext"}
  ELSE IF b = "F0" THEN f \cup {"rel"}
  ELSE IF b = "SHIFT" /\ "rel" \in f THEN {}
  ELSE IF b = "SHIFT" /\ "ext" \notin f THEN {"shift"}
  ELSE f \cap {"shift"}

\* F has the flags before each byte of w and after the last, N how many of the
\* characters t the bytes before it yield: w leads from the flags `from` to the
\* flags `to` and yields exactly t.
Decoding(F, N, w, t, from, to) ==
  /\ w \in Seq(Bytes) /\ t \in Seq(Chars)
  /\ F \in [1 .. Len(w) + 1 -> SUBSET Flag] /\ N \in [1 .. Len(w) + 1 -> 0 .. Len(t)]
  /\ F[1] = from /\ F[Len(w) + 1] = to
  /\ N[1] = 0 /\ N[Len(w) + 1] = Len(t)
  /\ \A i \in 1 .. Len(w) :
       /\ F[i + 1] = After(F[i], w[i])
       /\ ~Emits(F[i], w[i]) => N[i + 1] = N[i]
       /\ Emits(F[i], w[i]) => N[i + 1] = N[i] + 1 /\ t[N[i] + 1] = CharOf(F[i])
  /\ \A i, j \in 1 .. Len(w) + 1 : i <= j => N[i] <= N[j]

Decodes(w, t, from, to) == \E F, N : Decoding(F, N, w, t, from, to)

\* The flags of the decoder, and the Shift key as the typist holds it.
DecoderFlags ==
  {x \in Flag : (x = "shift" /\ SHIFT) \/ (x = "ext" /\ EXTENDED) \/ (x = "rel" /\ RELEASE)}
HeldFlags == IF held THEN {"shift"} ELSE {}

\* The bytes under way yield the characters that were typed and did not arrive.
WireInv == Decodes(wire, typed, DecoderFlags, HeldFlags)

\* The flags after a byte are flags again, and a character is one.
LEMMA AfterTypes ==
  ASSUME NEW f \in SUBSET Flag, NEW b
  PROVE  After(f, b) \in SUBSET Flag /\ CharOf(f) \in Chars
BY Zenon DEF After, CharOf, Flag, Chars

\* One more byte on the wire.
LEMMA DecodeAppend ==
  ASSUME NEW w, NEW t, NEW from, NEW to, Decodes(w, t, from, to), NEW b \in Bytes,
         NEW u, u = IF Emits(to, b) THEN Append(t, CharOf(to)) ELSE t
  PROVE  Decodes(Append(w, b), u, from, After(to, b))
<1>1. PICK F, N : Decoding(F, N, w, t, from, to)
  BY Zenon DEF Decodes
<1> DEFINE v == Append(w, b)
           L == Len(w) + 1
           F2 == [i \in 1 .. L + 1 |-> IF i <= L THEN F[i] ELSE After(to, b)]
           N2 == [i \in 1 .. L + 1 |-> IF i <= L THEN N[i] ELSE Len(u)]
<1>2. /\ w \in Seq(Bytes) /\ t \in Seq(Chars) /\ Len(w) \in Nat /\ Len(t) \in Nat
      /\ L \in Nat /\ L >= 1
      /\ F \in [1 .. L -> SUBSET Flag] /\ N \in [1 .. L -> 0 .. Len(t)]
      /\ to \in SUBSET Flag /\ F[L] = to /\ N[L] = Len(t)
  BY <1>1 DEF Decoding
<1>n. L \in Nat /\ L >= 1 /\ Len(w) = L - 1 /\ Len(t) \in Nat BY <1>2
<1>3. /\ v \in Seq(Bytes) /\ Len(v) = L /\ v[L] = b /\ \A i \in 1 .. Len(w) : v[i] = w[i]
  BY <1>2
<1>4. /\ u \in Seq(Chars) /\ Len(u) = IF Emits(to, b) THEN Len(t) + 1 ELSE Len(t)
      /\ \A i \in 1 .. Len(t) : u[i] = t[i]
      /\ Emits(to, b) => u[Len(t) + 1] = CharOf(to)
  <2>1. CharOf(to) \in Chars BY Zenon, <1>2, AfterTypes
  <2> QED BY <1>2, <2>1
<1> HIDE DEF v, L
<1>5. /\ F2 \in [1 .. L + 1 -> SUBSET Flag] /\ F2[L + 1] = After(to, b)
      /\ \A i \in 1 .. L : F2[i] = F[i]
  <2>1. After(to, b) \in SUBSET Flag BY Zenon, <1>2, AfterTypes
  <2> QED BY <1>2, <1>n, <2>1
<1>6. /\ N2 \in [1 .. L + 1 -> 0 .. Len(u)] /\ N2[L + 1] = Len(u)
      /\ \A i \in 1 .. L : N2[i] = N[i]
  <2>1. Len(u) \in Nat /\ Len(t) <= Len(u) BY <1>n, <1>4
  <2> QED BY <1>2, <2>1
<1> HIDE DEF F2, N2
<1>7. ASSUME NEW i \in 1 .. L
      PROVE  /\ F2[i + 1] = After(F2[i], v[i])
             /\ ~Emits(F2[i], v[i]) => N2[i + 1] = N2[i]
             /\ Emits(F2[i], v[i]) => N2[i + 1] = N2[i] + 1 /\ u[N2[i] + 1] = CharOf(F2[i])
  <2>1. CASE i = L
    BY <1>2, <1>3, <1>4, <1>5, <1>6, <2>1
  <2>2. CASE i # L
    <3>1. i \in 1 .. Len(w) /\ i \in 1 .. L /\ i + 1 \in 1 .. L BY <1>n, <2>2
    <3>2. F2[i] = F[i] /\ F2[i + 1] = F[i + 1] /\ N2[i] = N[i] /\ N2[i + 1] = N[i + 1] /\ v[i] = w[i]
      BY Zenon, <1>3, <1>5, <1>6, <3>1
    <3>3. /\ F[i + 1] = After(F[i], w[i])
          /\ ~Emits(F[i], w[i]) => N[i + 1] = N[i]
          /\ Emits(F[i], w[i]) => N[i + 1] = N[i] + 1 /\ t[N[i] + 1] = CharOf(F[i])
      BY Zenon, <1>1, <3>1 DEF Decoding
    <3>4. Emits(F[i], w[i]) => N[i] + 1 \in 1 .. Len(t)
      <4>1. N[i] \in 0 .. Len(t) /\ N[i + 1] \in 0 .. Len(t) BY Zenon, <1>2, <3>1
      <4> QED BY <1>n, <3>3, <4>1
    <3> QED BY Zenon, <1>4, <3>2, <3>3, <3>4
  <2> QED BY Zenon, <2>1, <2>2
<1>8. ASSUME NEW i \in 1 .. L + 1, NEW j \in 1 .. L + 1, i <= j
      PROVE  N2[i] <= N2[j]
  <2>1. CASE j = L + 1
    <3>1. N2[i] \in 0 .. Len(u) /\ N2[j] = Len(u) BY Zenon, <1>6, <2>1
    <3>2. Len(u) \in Nat BY <1>n, <1>4
    <3> QED BY <3>1, <3>2
  <2>2. CASE j # L + 1
    <3>1. i \in 1 .. L /\ j \in 1 .. L BY <1>n, <1>8, <2>2
    <3> QED BY Zenon, <1>1, <1>6, <1>8, <3>1 DEF Decoding, L
  <2> QED BY Zenon, <2>1, <2>2
<1>9. F2[1] = from /\ N2[1] = 0
  <2>1. 1 \in 1 .. L BY <1>n
  <2> QED BY Zenon, <1>1, <1>5, <1>6, <2>1 DEF Decoding
<1>10. Decoding(F2, N2, v, u, from, After(to, b))
  BY Zenon, <1>3, <1>4, <1>5, <1>6, <1>7, <1>8, <1>9 DEF Decoding
<1> QED BY Zenon, <1>10 DEF Decodes, v

\* One byte fewer.
LEMMA DecodeTail ==
  ASSUME NEW w, NEW t, NEW from, NEW to, Decodes(w, t, from, to), w # <<>>
  PROVE  /\ Emits(from, Head(w)) => t # <<>> /\ Head(t) = CharOf(from)
         /\ Decodes(Tail(w), IF Emits(from, Head(w)) THEN Tail(t) ELSE t, After(from, Head(w)), to)
<1>1. PICK F, N : Decoding(F, N, w, t, from, to)
  BY Zenon DEF Decodes
<1> DEFINE b == Head(w)
           v == Tail(w)
           L == Len(w)
           e == IF Emits(from, b) THEN 1 ELSE 0
           u == IF Emits(from, b) THEN Tail(t) ELSE t
           F2 == [i \in 1 .. L |-> F[i + 1]]
           N2 == [i \in 1 .. L |-> N[i + 1] - e]
<1>2. /\ w \in Seq(Bytes) /\ t \in Seq(Chars) /\ L \in Nat /\ Len(t) \in Nat /\ L >= 1
      /\ F \in [1 .. L + 1 -> SUBSET Flag] /\ N \in [1 .. L + 1 -> 0 .. Len(t)]
      /\ F[1] = from /\ N[1] = 0 /\ b = w[1] /\ F[L + 1] = to /\ N[L + 1] = Len(t)
  BY <1>1 DEF Decoding
<1>3. v \in Seq(Bytes) /\ Len(v) = L - 1 /\ \A i \in 1 .. L - 1 : v[i] = w[i + 1]
  BY <1>2
<1>4. e \in 0 .. 1 /\ N[2] = e /\ F[2] = After(from, b) /\ (Emits(from, b) => t[1] = CharOf(from))
  <2>1. 1 \in 1 .. L BY <1>2
  <2>2. /\ F[1 + 1] = After(F[1], w[1])
        /\ ~Emits(F[1], w[1]) => N[1 + 1] = N[1]
        /\ Emits(F[1], w[1]) => N[1 + 1] = N[1] + 1 /\ t[N[1] + 1] = CharOf(F[1])
    BY Zenon, <1>1, <2>1 DEF Decoding
  <2> HIDE DEF b
  <2> QED BY <1>2, <2>2
<1>5. \A i \in 1 .. L : e <= N[i + 1] /\ N[i + 1] \in Nat /\ N[i + 1] <= Len(t)
  <2>1. ASSUME NEW i \in 1 .. L PROVE N[2] <= N[i + 1]
    <3>1. 2 \in 1 .. L + 1 /\ i + 1 \in 1 .. L + 1 /\ 2 <= i + 1 BY <1>2
    <3> QED BY Zenon, <1>1, <3>1 DEF Decoding
  <2> HIDE DEF e
  <2> QED BY <1>2, <1>4, <2>1
<1>6. Emits(from, b) => Len(t) >= 1 /\ t # <<>> /\ Head(t) = CharOf(from)
  <2>1. e <= Len(t) BY <1>2, <1>5
  <2> HIDE DEF b
  <2> QED BY <1>2, <1>4, <2>1
<1>7. /\ u \in Seq(Chars) /\ Len(u) = Len(t) - e
      /\ \A i \in 1 .. Len(t) - e : u[i] = t[i + e]
  <2> HIDE DEF b
  <2>1. CASE Emits(from, b) BY <1>2, <1>6, <2>1
  <2>2. CASE ~Emits(from, b) BY <1>2, <2>2
  <2> QED BY Zenon, <2>1, <2>2
<1>n. L \in Nat /\ L >= 1 /\ Len(t) \in Nat /\ Len(u) = Len(t) - e /\ e \in {0, 1}
  BY Zenon, <1>2, <1>4, <1>7
<1> HIDE DEF v, u, b, e, L
<1>8. /\ F2 \in [1 .. L -> SUBSET Flag] /\ \A i \in 1 .. L : F2[i] = F[i + 1]
      /\ N2 \in [1 .. L -> 0 .. Len(u)] /\ \A i \in 1 .. L : N2[i] = N[i + 1] - e
  <2>1. F2 \in [1 .. L -> SUBSET Flag] /\ \A i \in 1 .. L : F2[i] = F[i + 1]
    <3>1. \A i \in 1 .. L : i + 1 \in 1 .. L + 1 BY <1>n
    <3> QED BY Zenon, <1>2, <3>1
  <2>2. \A i \in 1 .. L : N[i + 1] - e \in 0 .. Len(u)
    BY <1>n, <1>5
  <2> QED BY Zenon, <2>1, <2>2
<1> HIDE DEF F2, N2
<1>9. ASSUME NEW i \in 1 .. L - 1
      PROVE  /\ F2[i + 1] = After(F2[i], v[i])
             /\ ~Emits(F2[i], v[i]) => N2[i + 1] = N2[i]
             /\ Emits(F2[i], v[i]) => N2[i + 1] = N2[i] + 1 /\ u[N2[i] + 1] = CharOf(F2[i])
  <2>1. i \in 1 .. L /\ i + 1 \in 1 .. L BY <1>n
  <2>2. /\ F[(i + 1) + 1] = After(F[i + 1], w[i + 1])
        /\ ~Emits(F[i + 1], w[i + 1]) => N[(i + 1) + 1] = N[i + 1]
        /\ Emits(F[i + 1], w[i + 1]) =>
             N[(i + 1) + 1] = N[i + 1] + 1 /\ t[N[i + 1] + 1] = CharOf(F[i + 1])
    BY Zenon, <1>1, <2>1 DEF Decoding, L
  <2>3. v[i] = w[i + 1] BY Zenon, <1>3
  <2>4. /\ F2[i] = F[i + 1] /\ F2[i + 1] = F[(i + 1) + 1]
        /\ N2[i] = N[i + 1] - e /\ N2[i + 1] = N[(i + 1) + 1] - e
    BY Zenon, <1>8, <2>1
  <2>5. N[i + 1] \in Nat /\ e <= N[i + 1] /\ N[(i + 1) + 1] <= Len(t) BY Zenon, <1>5, <2>1
  <2>6. Emits(F[i + 1], w[i + 1]) => u[N2[i] + 1] = t[N[i + 1] + 1]
    <3>1. ASSUME Emits(F[i + 1], w[i + 1])
          PROVE  N2[i] + 1 \in 1 .. Len(t) - e /\ (N2[i] + 1) + e = N[i + 1] + 1
      <4>1. N[(i + 1) + 1] = N[i + 1] + 1 BY Zenon, <2>2, <3>1
      <4> QED BY <1>n, <2>4, <2>5, <4>1
    <3> QED BY <1>7, <3>1
  <2> QED BY <1>4, <2>2, <2>3, <2>4, <2>5, <2>6
<1>10. ASSUME NEW i \in 1 .. L, NEW j \in 1 .. L, i <= j PROVE N2[i] <= N2[j]
  <2>1. i + 1 \in 1 .. L + 1 /\ j + 1 \in 1 .. L + 1 /\ i + 1 <= j + 1 BY <1>n, <1>10
  <2>2. N[i + 1] <= N[j + 1] BY Zenon, <1>1, <2>1 DEF Decoding, L
  <2>3. N[i + 1] \in Nat /\ N[j + 1] \in Nat BY Zenon, <1>5
  <2>4. N2[i] = N[i + 1] - e /\ N2[j] = N[j + 1] - e BY Zenon, <1>8
  <2> QED BY <1>n, <2>2, <2>3, <2>4
<1>11. F2[1] = After(from, b) /\ F2[L] = to /\ N2[1] = 0 /\ N2[L] = Len(u)
  <2>1. 1 \in 1 .. L /\ L \in 1 .. L BY <1>n
  <2>2. F2[1] = F[1 + 1] /\ N2[1] = N[1 + 1] - e /\ F2[L] = F[L + 1] /\ N2[L] = N[L + 1] - e
    BY Zenon, <1>8, <2>1
  <2> QED BY <1>2, <1>4, <1>7, <2>2
<1>12. Decoding(F2, N2, v, u, After(from, b), to)
  <2>1. Len(v) + 1 = L BY <1>n, <1>3
  <2>2. 1 .. Len(v) = 1 .. L - 1 BY Zenon, <1>3
  <2> QED BY Zenon, <1>3, <1>7, <1>8, <1>9, <1>10, <1>11, <2>1, <2>2 DEF Decoding
<1>13. Decodes(v, u, After(from, b), to) BY Zenon, <1>12 DEF Decodes
<1> QED BY Zenon, <1>6, <1>13 DEF v, u, b

-----------------------------------------------------------------------------
(* The bytes under way always yield exactly the characters not arrived.    *)

\* Appending a few bytes one after the other.
LEMMA Appended ==
  ASSUME NEW S, NEW s \in Seq(S), NEW a \in S, NEW b \in S, NEW c \in S
  PROVE  /\ s \o <<>> = s /\ s \o <<a>> = Append(s, a)
         /\ s \o <<a, b>> = Append(Append(s, a), b)
         /\ s \o <<a, b, c>> = Append(Append(Append(s, a), b), c)
<1>1. s \o <<>> = s OBVIOUS
<1>2. s \o <<a>> = Append(s, a) OBVIOUS
<1>3. s \o <<a, b>> = Append(Append(s, a), b) OBVIOUS
<1>4. s \o <<a, b, c>> = Append(Append(Append(s, a), b), c) OBVIOUS
<1> QED BY Zenon, <1>1, <1>2, <1>3, <1>4

LEMMA InitWireInv == Init => WireInv
<1> SUFFICES ASSUME Init PROVE WireInv
  BY Zenon
<1> DEFINE F == [i \in 1 .. 1 |-> {}]
           N == [i \in 1 .. 1 |-> 0]
<1>1. DecoderFlags = {} /\ HeldFlags = {}
  BY Zenon DEF Init, DecoderFlags, HeldFlags
<1>2. /\ F \in [1 .. 1 -> SUBSET Flag] /\ N \in [1 .. 1 -> 0 .. 0] /\ F[1] = {} /\ N[1] = 0
  OBVIOUS
<1>3. <<>> \in Seq(Bytes) /\ <<>> \in Seq(Chars) /\ Len(<<>>) = 0
  OBVIOUS
<1> HIDE DEF F, N
<1>4. Decoding(F, N, <<>>, <<>>, {}, {})
  BY <1>2, <1>3 DEF Decoding
<1>5. Decodes(<<>>, <<>>, {}, {}) BY Zenon, <1>4 DEF Decodes
<1> QED BY Zenon, <1>1, <1>5 DEF Init, WireInv

\* A byte that yields nothing.
LEMMA Quiet ==
  ASSUME NEW w, NEW t, NEW from, NEW to, Decodes(w, t, from, to), NEW b \in Bytes, ~Emits(to, b)
  PROVE  Decodes(Append(w, b), t, from, After(to, b))
BY Zenon, DecodeAppend

\* The flags after the bytes of a key, with and without Shift.
LEMMA KeyFlags ==
  ASSUME NEW k \in {{}, {"shift"}}
  PROVE  /\ After(k, "SHIFT") = {"shift"} /\ After(After(k, "F0"), "SHIFT") = {}
         /\ \A b \in {"LETTER", "OTHER", "CTRL"} : After(k, b) = k
         /\ \A b \in {"ARROW", "CTRL"} : After(After(k, "E0"), b) = k
         /\ After(After(k, "F0"), "LETTER") = k
         /\ \A b \in {"ARROW", "CTRL"} : After(After(After(k, "E0"), "F0"), b) = k
<1>1. CASE k = {} BY Zenon, <1>1 DEF After
<1>2. CASE k = {"shift"} BY Zenon, <1>2 DEF After
<1> QED BY Zenon, <1>1, <1>2

\* Which of those bytes yield a character.
LEMMA KeyEmits ==
  ASSUME NEW k \in {{}, {"shift"}}
  PROVE  /\ \A b \in {"SHIFT", "OTHER", "CTRL", "E0", "F0"} : ~Emits(k, b)
         /\ Emits(k, "LETTER") /\ CharOf(k) = IF k = {} THEN "lower" ELSE "upper"
         /\ \A b \in Bytes : ~Emits(After(k, "F0"), b)
         /\ Emits(After(k, "E0"), "ARROW") /\ CharOf(After(k, "E0")) = "arrow"
         /\ ~Emits(After(k, "E0"), "CTRL") /\ ~Emits(After(k, "E0"), "F0")
         /\ \A b \in Bytes : ~Emits(After(After(k, "E0"), "F0"), b)
<1>1. CASE k = {} BY Zenon, <1>1 DEF After, Emits, CharOf
<1>2. CASE k = {"shift"} BY Zenon, <1>2 DEF After, Emits, CharOf
<1> QED BY Zenon, <1>1, <1>2

\* A key pressed or released puts at most one character under way, the one its
\* bytes stand for.
LEMMA TypistStep ==
  ASSUME WireInv, held \in BOOLEAN, press_shift \/ release_shift \/ press_key \/ release_key
  PROVE  WireInv' /\ (typed' = typed \/ \E c \in Chars : typed' = Append(typed, c))
<1> DEFINE k == HeldFlags
           f == DecoderFlags
<1>1. Decodes(wire, typed, f, k) BY Zenon DEF WireInv
<1>2. wire \in Seq(Bytes) /\ typed \in Seq(Chars)
  BY Zenon, <1>1 DEF Decodes, Decoding
<1>3. k \in {{}, {"shift"}} /\ (k = {} <=> ~held)
  BY Zenon DEF HeldFlags
<1>4. UNCHANGED <<SHIFT, EXTENDED, RELEASE>>
  BY Zenon DEF press_shift, release_shift, press_key, release_key, Send, decoder
<1>5. DecoderFlags' = f BY Zenon, <1>4 DEF DecoderFlags
<1>b. /\ "SHIFT" \in Bytes /\ "F0" \in Bytes /\ "E0" \in Bytes /\ "ARROW" \in Bytes
      /\ "LETTER" \in Bytes /\ "CTRL" \in Bytes /\ "OTHER" \in Bytes
  BY Zenon DEF Bytes
<1>t. typed \o <<>> = typed /\ \A c \in Chars : typed \o <<c>> = Append(typed, c)
  BY <1>2, Appended
<1>w. \A a, b, c \in Bytes : /\ wire \o <<a>> = Append(wire, a)
                             /\ wire \o <<a, b>> = Append(Append(wire, a), b)
                             /\ wire \o <<a, b, c>> = Append(Append(Append(wire, a), b), c)
  BY <1>2, Appended
<1> HIDE DEF k, f
<1>e. /\ \A b \in {"SHIFT", "OTHER", "CTRL", "E0", "F0"} : ~Emits(k, b)
      /\ Emits(k, "LETTER") /\ CharOf(k) = IF k = {} THEN "lower" ELSE "upper"
      /\ \A b \in Bytes : ~Emits(After(k, "F0"), b)
      /\ Emits(After(k, "E0"), "ARROW") /\ CharOf(After(k, "E0")) = "arrow"
      /\ ~Emits(After(k, "E0"), "CTRL") /\ ~Emits(After(k, "E0"), "F0")
      /\ \A b \in Bytes : ~Emits(After(After(k, "E0"), "F0"), b)
  BY Zenon, <1>3, KeyEmits
<1>f. /\ After(k, "SHIFT") = {"shift"} /\ After(After(k, "F0"), "SHIFT") = {}
      /\ \A b \in {"LETTER", "OTHER", "CTRL"} : After(k, b) = k
      /\ \A b \in {"ARROW", "CTRL"} : After(After(k, "E0"), b) = k
      /\ After(After(k, "F0"), "LETTER") = k
      /\ \A b \in {"ARROW", "CTRL"} : After(After(After(k, "E0"), "F0"), b) = k
  BY Zenon, <1>3, KeyFlags
<1>6. CASE press_shift
  <2>1. wire' = Append(wire, "SHIFT") /\ typed' = typed
    BY Zenon, <1>6, <1>b, <1>t, <1>w DEF press_shift, Send
  <2>2. HeldFlags' = {"shift"} BY Zenon, <1>6 DEF press_shift, HeldFlags
  <2>3. Decodes(Append(wire, "SHIFT"), typed, f, After(k, "SHIFT"))
    BY Zenon, <1>1, <1>b, <1>e, Quiet
  <2>4. Decodes(wire', typed', f, {"shift"})
    BY Zenon, <1>f, <2>1, <2>3
  <2> QED BY Zenon, <1>5, <2>1, <2>2, <2>4 DEF WireInv
<1>7. CASE release_shift
  <2>1. wire' = Append(Append(wire, "F0"), "SHIFT") /\ typed' = typed
    BY Zenon, <1>7, <1>b, <1>t, <1>w DEF release_shift, Send
  <2>2. HeldFlags' = {} BY Zenon, <1>7 DEF release_shift, HeldFlags
  <2>3. Decodes(Append(wire, "F0"), typed, f, After(k, "F0"))
    BY Zenon, <1>1, <1>b, <1>e, Quiet
  <2>4. Decodes(Append(Append(wire, "F0"), "SHIFT"), typed, f, After(After(k, "F0"), "SHIFT"))
    BY Zenon, <1>b, <1>e, <2>3, Quiet
  <2>5. Decodes(wire', typed', f, {})
    BY Zenon, <1>f, <2>1, <2>4
  <2> QED BY Zenon, <1>5, <2>1, <2>2, <2>5 DEF WireInv
<1>8. CASE press_key
  <2>1. HeldFlags' = k BY Zenon, <1>8 DEF press_key, HeldFlags, k
  <2>2. CASE Send(<<"LETTER">>, <<IF held THEN "upper" ELSE "lower">>)
    <3>1. CharOf(k) = (IF held THEN "upper" ELSE "lower") /\ CharOf(k) \in Chars
      BY Zenon, <1>3, KeyEmits DEF Chars
    <3>2. wire' = Append(wire, "LETTER") /\ typed' = Append(typed, CharOf(k))
      BY Zenon, <1>b, <1>t, <1>w, <2>2, <3>1 DEF Send
    <3>3. Decodes(Append(wire, "LETTER"), Append(typed, CharOf(k)), f, After(k, "LETTER"))
      BY Zenon, <1>1, <1>b, <1>e, DecodeAppend
    <3>4. Decodes(wire', typed', f, k)
      BY Zenon, <1>f, <3>2, <3>3
    <3> QED BY Zenon, <1>5, <2>1, <3>1, <3>2, <3>4 DEF WireInv
  <2>3. CASE Send(<<"E0", "ARROW">>, <<"arrow">>)
    <3>1. "arrow" \in Chars BY Zenon DEF Chars
    <3>2. wire' = Append(Append(wire, "E0"), "ARROW") /\ typed' = Append(typed, "arrow")
      BY Zenon, <1>b, <1>t, <1>w, <2>3, <3>1 DEF Send
    <3>3. Decodes(Append(wire, "E0"), typed, f, After(k, "E0"))
      BY Zenon, <1>1, <1>b, <1>e, Quiet
    <3>4. Decodes(Append(Append(wire, "E0"), "ARROW"), Append(typed, "arrow"), f,
                  After(After(k, "E0"), "ARROW"))
      BY Zenon, <1>b, <1>e, <3>3, DecodeAppend
    <3>5. Decodes(wire', typed', f, k)
      BY Zenon, <1>f, <3>2, <3>4
    <3> QED BY Zenon, <1>5, <2>1, <3>1, <3>2, <3>5 DEF WireInv
  <2>4. ASSUME NEW b \in {"OTHER", "CTRL"}, Send(<<b>>, <<>>)
        PROVE  WireInv' /\ typed' = typed
    <3>1. b \in Bytes /\ wire' = Append(wire, b) /\ typed' = typed
      BY Zenon, <1>b, <1>t, <1>w, <2>4 DEF Send
    <3>2. Decodes(Append(wire, b), typed, f, After(k, b))
      BY Zenon, <1>1, <1>e, <3>1, Quiet
    <3>3. Decodes(wire', typed', f, k)
      BY Zenon, <1>f, <3>1, <3>2
    <3> QED BY Zenon, <1>5, <2>1, <3>1, <3>3 DEF WireInv
  <2>5. CASE Send(<<"E0", "CTRL">>, <<>>)
    <3>1. wire' = Append(Append(wire, "E0"), "CTRL") /\ typed' = typed
      BY Zenon, <1>b, <1>t, <1>w, <2>5 DEF Send
    <3>2. Decodes(Append(wire, "E0"), typed, f, After(k, "E0"))
      BY Zenon, <1>1, <1>b, <1>e, Quiet
    <3>3. Decodes(Append(Append(wire, "E0"), "CTRL"), typed, f, After(After(k, "E0"), "CTRL"))
      BY Zenon, <1>b, <1>e, <3>2, Quiet
    <3>4. Decodes(wire', typed', f, k)
      BY Zenon, <1>f, <3>1, <3>3
    <3> QED BY Zenon, <1>5, <2>1, <3>1, <3>4 DEF WireInv
  <2> QED BY Zenon, <1>8, <2>2, <2>3, <2>4, <2>5 DEF press_key
<1>9. CASE release_key
  <2>1. HeldFlags' = k BY Zenon, <1>9 DEF release_key, HeldFlags, k
  <2>2. CASE Send(<<"F0", "LETTER">>, <<>>)
    <3>1. wire' = Append(Append(wire, "F0"), "LETTER") /\ typed' = typed
      BY Zenon, <1>b, <1>t, <1>w, <2>2 DEF Send
    <3>2. Decodes(Append(wire, "F0"), typed, f, After(k, "F0"))
      BY Zenon, <1>1, <1>b, <1>e, Quiet
    <3>3. Decodes(Append(Append(wire, "F0"), "LETTER"), typed, f, After(After(k, "F0"), "LETTER"))
      BY Zenon, <1>b, <1>e, <3>2, Quiet
    <3>4. Decodes(wire', typed', f, k)
      BY Zenon, <1>f, <3>1, <3>3
    <3> QED BY Zenon, <1>5, <2>1, <3>1, <3>4 DEF WireInv
  <2>3. ASSUME NEW b \in {"ARROW", "CTRL"}, Send(<<"E0", "F0", b>>, <<>>)
        PROVE  WireInv' /\ typed' = typed
    <3>1. b \in Bytes /\ wire' = Append(Append(Append(wire, "E0"), "F0"), b) /\ typed' = typed
      BY <1>b, <1>t, <1>w, <2>3 DEF Send
    <3>2. Decodes(Append(wire, "E0"), typed, f, After(k, "E0"))
      BY Zenon, <1>1, <1>b, <1>e, Quiet
    <3>3. Decodes(Append(Append(wire, "E0"), "F0"), typed, f, After(After(k, "E0"), "F0"))
      BY Zenon, <1>b, <1>e, <3>2, Quiet
    <3>4. Decodes(Append(Append(Append(wire, "E0"), "F0"), b), typed, f,
                  After(After(After(k, "E0"), "F0"), b))
      BY Zenon, <1>e, <3>1, <3>3, Quiet
    <3>5. Decodes(wire', typed', f, k)
      BY Zenon, <1>f, <3>1, <3>4
    <3> QED BY Zenon, <1>5, <2>1, <3>1, <3>5 DEF WireInv
  <2> QED BY Zenon, <1>9, <2>2, <2>3 DEF release_key
<1> QED BY Zenon, <1>6, <1>7, <1>8, <1>9

\* The handler decodes the next byte as the typist meant it: a character that it
\* pushes is the oldest one under way.
LEMMA HandlerDecodes ==
  ASSUME WireInv, TypeOK, irq1_handler
  PROVE  /\ WireInv'
         /\ \/ typed' = typed /\ UNCHANGED <<buf, head, tail>>
            \/ typed # <<>> /\ typed' = Tail(typed) /\ push_char(Head(typed))
<1> DEFINE b == Head(wire)
           f == DecoderFlags
<1>1. Decodes(wire, typed, f, HeldFlags) /\ wire # <<>> /\ wire' = Tail(wire)
  BY Zenon DEF WireInv, irq1_handler
<1>2. /\ ("shift" \in f <=> SHIFT) /\ ("ext" \in f <=> EXTENDED) /\ ("rel" \in f <=> RELEASE)
      /\ f \in SUBSET Flag
  BY Zenon DEF DecoderFlags, Flag, TypeOK
<1>3. HeldFlags' = HeldFlags BY Zenon DEF irq1_handler, HeldFlags
<1>4. irq_prefix(b) \/ irq_release(b) \/ irq_extended(b) \/ irq_make(b)
  BY Zenon DEF irq1_handler
<1> HIDE DEF b
<1>5. /\ "shift" \in After(f, b) <=> SHIFT'
      /\ "ext" \in After(f, b) <=> EXTENDED'
      /\ "rel" \in After(f, b) <=> RELEASE'
      /\ \/ ~Emits(f, b) /\ typed' = typed /\ UNCHANGED <<buf, head, tail>>
         \/ Emits(f, b) /\ typed' = Tail(typed) /\ push_char(CharOf(f))
  <2> HIDE DEF f
  <2>1. CASE irq_prefix(b)
    BY <1>2, <2>1 DEF irq_prefix, After, Emits, ring, TypeOK
  <2>2. CASE irq_release(b)
    BY Zenon, <1>2, <2>2 DEF irq_release, After, Emits, ring, TypeOK
  <2>3. CASE irq_extended(b)
    BY Zenon, <1>2, <2>3 DEF irq_extended, After, Emits, CharOf, ring, TypeOK
  <2>4. CASE irq_make(b)
    BY <1>2, <2>4 DEF irq_make, After, Emits, CharOf, ring, TypeOK
  <2> QED BY Zenon, <1>4, <2>1, <2>2, <2>3, <2>4
<1>6. DecoderFlags' = After(f, b)
  <2>1. After(f, b) \in SUBSET Flag BY Zenon, <1>2, AfterTypes
  <2> QED BY Zenon, <1>5, <2>1 DEF DecoderFlags, Flag
<1>7. /\ Emits(f, b) => typed # <<>> /\ Head(typed) = CharOf(f)
      /\ Decodes(wire', IF Emits(f, b) THEN Tail(typed) ELSE typed, After(f, b), HeldFlags)
  BY Zenon, <1>1, DecodeTail DEF b
<1>8. Decodes(wire', typed', DecoderFlags', HeldFlags')
  BY Zenon, <1>3, <1>5, <1>6, <1>7
<1> QED BY Zenon, <1>5, <1>7, <1>8 DEF WireInv

-----------------------------------------------------------------------------
(* The ring as a queue.                                                    *)

Slot(k) == IF tail + k - 1 < BUF_SZ THEN tail + k - 1 ELSE tail + k - 1 - BUF_SZ

\* The k-th unread slot, without the modulus.
LEMMA SlotValue ==
  ASSUME tail \in Slots, NEW k \in 1 .. BUF_SZ
  PROVE  (tail + k - 1) % BUF_SZ = Slot(k) /\ Slot(k) \in Slots
<1> DEFINE x == tail + k - 1
           n == BUF_SZ
<1>1. x \in Nat /\ n \in Nat \ {0} /\ x < n + n
  BY BufAssumption DEF Slots
<1> HIDE DEF x, n
<1>2. CASE x < n
  <2>1. x % n = x BY <1>1, <1>2
  <2> QED BY <1>1, <1>2, <2>1 DEF x, n, Slot, Slots
<1>3. CASE ~(x < n)
  <2>1. x % n = x - n BY <1>1, <1>3
  <2> QED BY <1>1, <1>3, <2>1 DEF x, n, Slot, Slots
<1> QED BY Zenon, <1>2, <1>3

\* The waiting characters as a sequence.
WaitingOK ==
  /\ Count \in 0 .. BUF_SZ - 1 /\ Waiting \in Seq(Chars) /\ Len(Waiting) = Count
  /\ \A k \in 1 .. Count : Waiting[k] = buf[Slot(k)] /\ Slot(k) \in Slots

LEMMA WaitingSeq == TypeOK => WaitingOK
<1> SUFFICES ASSUME TypeOK PROVE WaitingOK
  BY Zenon
<1>1. /\ head \in Slots /\ tail \in Slots /\ buf \in [Slots -> Chars] BY Zenon DEF TypeOK
<1>2. Count \in 0 .. BUF_SZ - 1 BY <1>1, BufAssumption DEF Count, Slots
<1>3. ASSUME NEW k \in 1 .. Count
      PROVE  (tail + k - 1) % BUF_SZ = Slot(k) /\ Slot(k) \in Slots
  <2>1. k \in 1 .. BUF_SZ BY <1>2, BufAssumption
  <2> QED BY Zenon, <1>1, <2>1, SlotValue
<1>4. Waiting = [k \in 1 .. Count |-> buf[Slot(k)]] BY Zenon, <1>3 DEF Waiting
<1> HIDE DEF Count, Slot
<1>5. Waiting \in [1 .. Count -> Chars] BY Zenon, <1>1, <1>3, <1>4
<1>6. Count \in Nat BY <1>2, BufAssumption
<1> QED BY <1>2, <1>3, <1>4, <1>5, <1>6 DEF WaitingOK

\* push_char appends its character unless BUF_SZ - 1 characters wait.
LEMMA PushIsAppend ==
  ASSUME TypeOK, TypeOK', NEW c \in Chars, push_char(c)
  PROVE  \/ Len(Waiting) < BUF_SZ - 1 /\ Waiting' = Append(Waiting, c)
         \/ Len(Waiting) = BUF_SZ - 1 /\ Waiting' = Waiting
<1>1. /\ head \in Slots /\ tail \in Slots /\ buf \in [Slots -> Chars] BY Zenon DEF TypeOK
<1>2. Next1(head) = IF head = BUF_SZ - 1 THEN 0 ELSE head + 1 BY Zenon, <1>1, Next1Value
<1>3. /\ Count \in 0 .. BUF_SZ - 1 /\ Waiting \in Seq(Chars) /\ Len(Waiting) = Count
      /\ \A k \in 1 .. Count : Waiting[k] = buf[Slot(k)] /\ Slot(k) \in Slots
  BY Zenon, WaitingSeq DEF WaitingOK
<1>4. CASE Next1(head) = tail /\ UNCHANGED <<buf, head, tail>>
  <2>1. Count = BUF_SZ - 1 BY <1>1, <1>2, <1>4, BufAssumption DEF Count, Slots
  <2>2. Waiting' = Waiting BY Zenon, <1>4 DEF Waiting, Count
  <2> QED BY Zenon, <1>3, <2>1, <2>2
<1>5. CASE /\ Next1(head) # tail /\ tail' = tail
           /\ buf' = [buf EXCEPT ![head] = c] /\ head' = Next1(head)
  <2>1. Count' = Count + 1 /\ Count < BUF_SZ - 1
    BY <1>1, <1>2, <1>5, BufAssumption DEF Count, Slots
  <2>2. Slot(Count + 1) = head /\ \A k \in 1 .. Count : Slot(k) # head
    BY <1>1, <1>3, BufAssumption DEF Count, Slots, Slot
  <2>3. \A k : Slot(k)' = Slot(k) BY Zenon, <1>5 DEF Slot
  <2>4. /\ Waiting' \in Seq(Chars) /\ Len(Waiting') = Count'
        /\ \A k \in 1 .. Count' : Waiting'[k] = buf'[Slot(k)]
    <3>1. WaitingOK' BY WaitingSeq, PTL
    <3> QED BY Zenon, <2>3, <3>1 DEF WaitingOK
  <2> DEFINE W == Waiting
             X == Waiting'
             n == Count
  <2>5. n \in Nat /\ W \in Seq(Chars) /\ Len(W) = n /\ X \in Seq(Chars) /\ Len(X) = n + 1
    BY <1>3, <2>1, <2>4, BufAssumption
  <2>6. ASSUME NEW k \in 1 .. n PROVE X[k] = W[k]
    <3>1. k \in 1 .. Count' BY <2>1, <2>5
    <3> QED BY Zenon, <1>1, <1>3, <1>5, <2>2, <2>4, <3>1
  <2>7. X[n + 1] = c
    <3>1. n + 1 \in 1 .. Count' BY <2>1, <2>5
    <3> QED BY Zenon, <1>1, <1>5, <2>2, <2>4, <3>1
  <2> HIDE DEF W, X, n
  <2>8. X = Append(W, c) BY <2>5, <2>6, <2>7
  <2> QED BY Zenon, <1>3, <2>1, <2>8 DEF W, X, n
<1> QED BY Zenon, <1>4, <1>5 DEF push_char

\* getchar's store of the index takes the oldest character off.
LEMMA StoreIsTail ==
  ASSUME TypeOK, TypeOK', head # tail, tail' = Next1(tail), UNCHANGED <<buf, head>>
  PROVE  Waiting # <<>> /\ Waiting' = Tail(Waiting) /\ Head(Waiting) = buf[tail]
<1>1. /\ head \in Slots /\ tail \in Slots /\ buf \in [Slots -> Chars] BY Zenon DEF TypeOK
<1>2. tail' = IF tail = BUF_SZ - 1 THEN 0 ELSE tail + 1 BY Zenon, <1>1, Next1Value
<1>3. /\ Count \in 0 .. BUF_SZ - 1 /\ Waiting \in Seq(Chars) /\ Len(Waiting) = Count
      /\ \A k \in 1 .. Count : Waiting[k] = buf[Slot(k)]
  BY Zenon, WaitingSeq DEF WaitingOK
<1>4. /\ Waiting' \in Seq(Chars) /\ Len(Waiting') = Count'
      /\ \A k \in 1 .. Count' : Waiting'[k] = buf'[Slot(k)']
  <2>1. WaitingOK' BY WaitingSeq, PTL
  <2> QED BY Zenon, <2>1 DEF WaitingOK
<1>5. Count >= 1 /\ Count' = Count - 1 /\ Count \in Nat
  BY <1>1, <1>2, BufAssumption DEF Count, Slots
<1>6. Slot(1) = tail /\ \A k \in 1 .. Count - 1 : Slot(k)' = Slot(k + 1)
  BY <1>1, <1>2, <1>3, BufAssumption DEF Slot, Slots
<1> DEFINE W == Waiting
           X == Waiting'
           n == Count
<1>7. /\ n \in Nat /\ n >= 1 /\ W \in Seq(Chars) /\ Len(W) = n
      /\ X \in Seq(Chars) /\ Len(X) = n - 1
  BY Zenon, <1>3, <1>4, <1>5
<1>8. ASSUME NEW k \in 1 .. n - 1 PROVE X[k] = W[k + 1]
  <2>1. k \in 1 .. Count' /\ k + 1 \in 1 .. Count BY <1>5
  <2> QED BY Zenon, <1>3, <1>4, <1>6, <2>1
<1>9. W[1] = buf[tail]
  <2>1. 1 \in 1 .. Count BY <1>5
  <2> QED BY Zenon, <1>3, <1>6, <2>1
<1> HIDE DEF W, X, n
<1>10. X = Tail(W) /\ W # <<>> /\ Head(W) = W[1] BY <1>7, <1>8
<1> QED BY Zenon, <1>9, <1>10 DEF W, X

-----------------------------------------------------------------------------
(* The refinement.                                                         *)

\* Every step is a step of the queue or leaves it alone, and keeps what the
\* bytes under way stand for.
LEMMA QueueStep ==
  ASSUME IInv, IInv', WireInv, [Next]_vars
  PROVE  WireInv' /\ [Queue!Next]_(Queue!vars)
<1>0. TypeOK /\ TypeOK' BY Zenon DEF IInv
<1>1. CASE press_shift \/ release_shift \/ press_key \/ release_key
  <2>1. WireInv' /\ (typed' = typed \/ \E c \in Chars : typed' = Append(typed, c))
    BY Zenon, <1>0, <1>1, TypistStep DEF TypeOK
  <2>2. UNCHANGED <<buf, head, tail, got>>
    BY Zenon, <1>1 DEF press_shift, release_shift, press_key, release_key, Send, ring, reader
  <2>3. Waiting' = Waiting BY Zenon, <2>2 DEF Waiting, Count
  <2> QED BY Zenon, <2>1, <2>2, <2>3 DEF Queue!Next, Queue!Type, Queue!vars
<1>2. CASE irq1_handler
  <2>1. /\ WireInv'
        /\ \/ typed' = typed /\ UNCHANGED <<buf, head, tail>>
           \/ typed # <<>> /\ typed' = Tail(typed) /\ push_char(Head(typed))
    BY Zenon, <1>0, <1>2, HandlerDecodes
  <2>2. got' = got BY Zenon, <1>2 DEF irq1_handler, reader
  <2>3. CASE typed' = typed /\ UNCHANGED <<buf, head, tail>>
    <3>1. Waiting' = Waiting BY Zenon, <2>3 DEF Waiting, Count
    <3> QED BY Zenon, <2>1, <2>2, <2>3, <3>1 DEF Queue!vars
  <2>4. CASE typed # <<>> /\ typed' = Tail(typed) /\ push_char(Head(typed))
    <3>1. Head(typed) \in Chars
      <4>1. typed \in Seq(Chars) BY Zenon DEF WireInv, Decodes, Decoding
      <4> QED BY <2>4, <4>1
    <3>2. \/ Len(Waiting) < BUF_SZ - 1 /\ Waiting' = Append(Waiting, Head(typed))
          \/ Len(Waiting) = BUF_SZ - 1 /\ Waiting' = Waiting
      BY Zenon, <1>0, <2>4, <3>1, PushIsAppend
    <3> QED BY Zenon, <2>1, <2>2, <2>4, <3>2 DEF Queue!Next, Queue!Arrive
  <2> QED BY Zenon, <2>1, <2>3, <2>4
<1>3. CASE getchar_store
  <2>1. /\ local = tail /\ head # tail /\ chr = buf[tail]
    BY Zenon, <1>3 DEF getchar_store, IInv, ReaderOK
  <2>2. UNCHANGED <<held, wire, typed, decoder, buf, head>> /\ tail' = Next1(tail) /\ got' = buf[tail]
    BY Zenon, <1>3, <2>1 DEF getchar_store, GetterOnly
  <2>3. Waiting # <<>> /\ Waiting' = Tail(Waiting) /\ Head(Waiting) = buf[tail]
    BY Zenon, <1>0, <2>1, <2>2, StoreIsTail
  <2>4. WireInv' BY Zenon, <2>2 DEF WireInv, DecoderFlags, HeldFlags, decoder
  <2> QED BY Zenon, <2>2, <2>3, <2>4 DEF Queue!Next, Queue!Get
<1>4. CASE getchar_call \/ getchar_tail \/ getchar_head \/ getchar_read \/ UNCHANGED vars
  <2>1. UNCHANGED <<held, wire, typed, decoder, buf, head, tail, got>>
    BY Zenon, <1>4 DEF getchar_call, getchar_tail, getchar_head, getchar_read, GetterOnly, vars, ring, reader
  <2>2. WireInv' BY Zenon, <2>1 DEF WireInv, DecoderFlags, HeldFlags, decoder
  <2>3. Waiting' = Waiting BY Zenon, <2>1 DEF Waiting, Count
  <2> QED BY Zenon, <2>1, <2>2, <2>3 DEF Queue!vars
<1> QED BY Zenon, <1>1, <1>2, <1>3, <1>4 DEF Next, Getchar

\* Decoder, ring and getchar together implement the bounded queue of typed
\* characters, whatever the size of the ring and wherever the handler interrupts
\* getchar.
THEOREM ImplementsKeyQueueHolds == Spec => ImplementsKeyQueue
<1>1. Init => Queue!Init
  <2> SUFFICES ASSUME Init PROVE Queue!Init
    BY Zenon
  <2>1. IInv BY Zenon, InitIInv
  <2>2. Count = 0 BY DEF Init, Count
  <2>3. Waiting \in Seq(Chars) /\ Len(Waiting) = Count BY Zenon, <2>1, WaitingSeq DEF IInv, WaitingOK
  <2>4. Waiting = <<>> BY <2>2, <2>3
  <2> QED BY Zenon, <2>4 DEF Init, Queue!Init, Chars
<1>2. IInv /\ IInv' /\ WireInv /\ [Next]_vars => WireInv' /\ [Queue!Next]_(Queue!vars)
  BY Zenon, QueueStep
<1>3. Spec => [](IInv /\ WireInv)
  BY <1>2, InitIInv, InitWireInv, NextIInv, PTL DEF Spec
<1> QED BY <1>1, <1>2, <1>3, PTL DEF Spec, ImplementsKeyQueue, Queue!Spec

=============================================================================
