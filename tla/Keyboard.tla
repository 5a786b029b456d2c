------------------------------ MODULE Keyboard ------------------------------
(***************************************************************************)
(* The PS/2 keyboard of src/hal/input.rs: the scan code decoder that runs  *)
(* in the IRQ1 handler, the ring buffer, and getchar, which reads the ring *)
(* with the handler interrupting it between any two of its accesses.  IRQ1 *)
(* is routed to the bootstrap core, the core that runs the shell, so the   *)
(* handler is atomic for getchar.                                          *)
(*                                                                         *)
(* A byte is one of the decoder's cases: "E0", "F0", "SHIFT" (0x12, 0x59), *)
(* "CTRL" (0x14), "ARROW" (0x75, 0x72, 0x6B, 0x74), "LETTER" (any code with*)
(* an entry in SCANCODE_SET2) and "OTHER".  A character is a letter with   *)
(* its shift state, or an arrow token.                                     *)
(*                                                                         *)
(* The typist (external) uses one Shift key at a time; the keyboard sends  *)
(* scan code set 2 without fake shifts.                                    *)
(***************************************************************************)
EXTENDS Naturals, Sequences

CONSTANTS
  BUF_SZ,      \* slots of the ring
  MaxWire      \* bytes the keyboard and its controller hold back

ASSUME BufAssumption == BUF_SZ \in Nat \ {0, 1} /\ MaxWire \in Nat

Chars == {"lower", "upper", "arrow"}

VARIABLES
  held, wire, typed,           \* the typist: Shift held; bytes; characters
  SHIFT, EXTENDED, RELEASE,    \* the decoder
  buf, head, tail,             \* the ring
  pc, local, chr, got          \* getchar: program counter, tail read, character

decoder == <<SHIFT, EXTENDED, RELEASE>>
ring    == <<buf, head, tail>>
reader  == <<pc, local, chr, got>>
vars    == <<held, wire, typed, decoder, ring, reader>>

Slots == 0 .. BUF_SZ - 1

Init ==
  /\ held = FALSE /\ wire = <<>> /\ typed = <<>>
  /\ SHIFT = FALSE /\ EXTENDED = FALSE /\ RELEASE = FALSE
  /\ buf = [i \in Slots |-> "lower"] /\ head = 0 /\ tail = 0
  /\ pc = "out" /\ local = 0 /\ chr = "lower" /\ got = "lower"

-----------------------------------------------------------------------------
(* The typist: keys pressed and released, as bytes of scan code set 2.     *)

Send(bytes, chars) ==
  /\ Len(wire) + Len(bytes) <= MaxWire
  /\ wire' = wire \o bytes
  /\ typed' = typed \o chars
  /\ UNCHANGED <<decoder, ring, reader>>

press_shift   == ~held /\ held' = TRUE /\ Send(<<"SHIFT">>, <<>>)
release_shift == held /\ held' = FALSE /\ Send(<<"F0", "SHIFT">>, <<>>)

press_key ==
  /\ \/ Send(<<"LETTER">>, <<IF held THEN "upper" ELSE "lower">>)
     \/ Send(<<"E0", "ARROW">>, <<"arrow">>)
     \/ Send(<<"OTHER">>, <<>>)
     \/ Send(<<"E0", "CTRL">>, <<>>)        \* the right Ctrl key
     \/ Send(<<"CTRL">>, <<>>)
  /\ UNCHANGED held

release_key ==
  /\ \/ Send(<<"F0", "LETTER">>, <<>>)
     \/ Send(<<"E0", "F0", "ARROW">>, <<>>)
     \/ Send(<<"E0", "F0", "CTRL">>, <<>>)
  /\ UNCHANGED held

-----------------------------------------------------------------------------
(* irq1_handler_impl and push_char.                                        *)

Next1(i) == (i + 1) % BUF_SZ

\* push_char drops the character when the ring is full.
push_char(c) ==
  /\ \/ /\ Next1(head) # tail
        /\ buf' = [buf EXCEPT ![head] = c] /\ head' = Next1(head)
     \/ Next1(head) = tail /\ UNCHANGED <<buf, head>>
  /\ UNCHANGED tail

\* The prefixes only set their flag.
irq_prefix(b) ==
  /\ \/ b = "E0" /\ EXTENDED' = TRUE /\ UNCHANGED RELEASE
     \/ b = "F0" /\ RELEASE' = TRUE /\ UNCHANGED EXTENDED
  /\ UNCHANGED <<SHIFT, ring, typed>>

\* Mutant: a release keeps EXTENDED.
irq_release_keeps(b) ==
  /\ b \notin {"E0", "F0"} /\ RELEASE
  /\ SHIFT' = (SHIFT /\ b # "SHIFT")
  /\ RELEASE' = FALSE
  /\ UNCHANGED <<EXTENDED, ring, typed>>

irq_release(b) ==
  /\ b \notin {"E0", "F0"} /\ RELEASE
  /\ SHIFT' = (SHIFT /\ b # "SHIFT")
  /\ RELEASE' = FALSE /\ EXTENDED' = FALSE
  /\ UNCHANGED <<ring, typed>>

\* Only the arrows of the extended codes are known.
irq_extended(b) ==
  /\ b \notin {"E0", "F0"} /\ ~RELEASE /\ EXTENDED
  /\ EXTENDED' = FALSE
  /\ \/ b = "ARROW" /\ push_char("arrow") /\ typed' = Tail(typed)
     \/ b # "ARROW" /\ UNCHANGED <<ring, typed>>
  /\ UNCHANGED <<SHIFT, RELEASE>>

irq_make(b) ==
  /\ b \notin {"E0", "F0"} /\ ~RELEASE /\ ~EXTENDED
  /\ \/ b = "SHIFT" /\ SHIFT' = TRUE /\ UNCHANGED <<ring, typed>>
     \/ /\ b = "LETTER"
        /\ push_char(IF SHIFT THEN "upper" ELSE "lower")
        /\ typed' = Tail(typed) /\ UNCHANGED SHIFT
     \/ b \in {"CTRL", "ARROW", "OTHER"} /\ UNCHANGED <<SHIFT, ring, typed>>
  /\ UNCHANGED <<EXTENDED, RELEASE>>

irq1_handler ==
  /\ wire # <<>>
  /\ wire' = Tail(wire)
  /\ LET b == Head(wire) IN
       irq_prefix(b) \/ irq_release(b) \/ irq_extended(b) \/ irq_make(b)
  /\ UNCHANGED <<held, reader>>

-----------------------------------------------------------------------------
(* getchar_impl, called by the shell.                                      *)

GetterOnly == UNCHANGED <<held, wire, typed, decoder, buf, head>>

getchar_call == pc = "out" /\ pc' = "tail" /\ UNCHANGED <<tail, local, chr, got>> /\ GetterOnly

getchar_tail ==
  /\ pc = "tail" /\ pc' = "head" /\ local' = tail
  /\ UNCHANGED <<tail, chr, got>> /\ GetterOnly

\* Mutant: emptiness is not tested.
getchar_blind ==
  /\ pc = "head" /\ pc' = "read"
  /\ UNCHANGED <<tail, local, chr, got>> /\ GetterOnly

\* Mutant: a wrapped ring looks empty.
getchar_less ==
  /\ pc = "head"
  /\ \/ local < head /\ pc' = "read"
     \/ local >= head /\ pc' = "tail"
  /\ UNCHANGED <<tail, local, chr, got>> /\ GetterOnly

getchar_head ==
  /\ pc = "head"
  /\ \/ local # head /\ pc' = "read"
     \/ local = head /\ pc' = "tail"
  /\ UNCHANGED <<tail, local, chr, got>> /\ GetterOnly

getchar_read ==
  /\ pc = "read" /\ pc' = "store" /\ chr' = buf[local]
  /\ UNCHANGED <<tail, local, got>> /\ GetterOnly

getchar_store ==
  /\ pc = "store" /\ pc' = "out"
  /\ tail' = Next1(local) /\ got' = chr
  /\ UNCHANGED <<local, chr>> /\ GetterOnly

Getchar == getchar_tail \/ getchar_head \/ getchar_read \/ getchar_store

Next ==
  \/ press_shift \/ release_shift \/ press_key \/ release_key
  \/ irq1_handler \/ getchar_call \/ Getchar

Spec == Init /\ [][Next]_vars

\* The shell spins in getchar, and a byte at the controller raises IRQ1.
FairSpec == Spec /\ WF_vars(Getchar) /\ WF_vars(irq1_handler)

-----------------------------------------------------------------------------
\* The type of every variable.
TypeOK ==
  /\ held \in BOOLEAN
  /\ SHIFT \in BOOLEAN /\ EXTENDED \in BOOLEAN /\ RELEASE \in BOOLEAN
  /\ buf \in [Slots -> Chars] /\ head \in Slots /\ tail \in Slots
  /\ pc \in {"out", "tail", "head", "read", "store"}
  /\ local \in Slots /\ chr \in Chars /\ got \in Chars

\* Slot i holds a character that was not read yet.
Unread(i) == IF tail <= head THEN tail <= i /\ i < head ELSE i >= tail \/ i < head

\* Whenever getchar is about to return, it holds the oldest unread character,
\* although the handler ran between its accesses to head, buf and tail.
ReadsOldest == pc = "store" => local = tail /\ Unread(tail) /\ chr = buf[tail]

\* A character not read yet stays as it is and stays readable until getchar
\* returns it: a full ring drops the new one.
UnreadKept ==
  [][\A i \in Slots : Unread(i) =>
       buf'[i] = buf[i] /\ (Unread(i)' \/ (pc = "store" /\ i = tail))]_vars

\* The waiting characters, oldest first.
Count == IF tail <= head THEN head - tail ELSE BUF_SZ - tail + head
Waiting == [k \in 1 .. Count |-> buf[(tail + k - 1) % BUF_SZ]]

\* Decoder, ring and getchar together implement KeyQueue with BUF_SZ - 1
\* places: every typed key arrives once, in order, in the shift state it was
\* typed in.
Queue == INSTANCE KeyQueue WITH Capacity <- BUF_SZ - 1, queue <- Waiting
ImplementsKeyQueue == Queue!Spec

\* A reader that finds a character waiting gets one.
GetcharReturns == pc # "out" /\ head # tail ~> pc = "out"

=============================================================================
