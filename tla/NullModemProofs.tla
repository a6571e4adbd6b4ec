--------------------------- MODULE NullModemProofs ---------------------------
(***************************************************************************)
(* Proofs about NullModem, for every alphabet, every set of settings and    *)
(* every amount of input.                                                   *)
(***************************************************************************)
EXTENDS NullModem, SequenceTheorems, FiniteSetTheorems, TLAPS

-----------------------------------------------------------------------------
(* Where update_queue goes *)

\* A character is loaded or the timer is set, never both.
LEMMA QueueServed ==
    ASSUME NEW xoff, NEW cr, NEW c0, NEW s0, update_queue(xoff, cr, c0, s0)
    PROVE  \/ shifting' = TRUE /\ poll' = FALSE
           \/ shifting' = FALSE /\ poll' = TRUE
BY DEF update_queue, SendNext, Load, Retry

-----------------------------------------------------------------------------
(* When the queue is abandoned *)

\* What holds of the queue in every state: it is served unless a character lies cut
\* short, and the timer rests while a character leaves.
PollInv ==
    /\ {shifting, poll, cut} \subseteq BOOLEAN
    /\ PollOrSend
    /\ ~(shifting /\ poll)

\* For every setting and every stream: a character is in the transmit register or
\* the poll timer runs, except from a change of the line settings in the middle of
\* a character to the next reset, when neither is so (update_queue, tra_complete,
\* update_serial and device_reset of null_modem.cpp).
THEOREM PollCorrect == Spec => []PollOrSend
<1>1. Init => PollInv
  BY DEF Init, PollInv, PollOrSend
<1>2. PollInv /\ [Next]_vars => PollInv'
  <2> SUFFICES ASSUME PollInv, [Next]_vars
               PROVE  PollInv'
    OBVIOUS
  <2>b. shifting \in BOOLEAN /\ poll \in BOOLEAN /\ cut \in BOOLEAN
    BY DEF PollInv
  <2>p. /\ shifting = TRUE \/ poll = TRUE \/ cut = TRUE
        /\ shifting = TRUE => poll = FALSE /\ cut = FALSE
        /\ poll = TRUE => cut = FALSE
    BY <2>b DEF PollInv, PollOrSend
  \* Enough: one of the three, and no two of them.
  <2>e. ASSUME \/ shifting' = TRUE /\ poll' = FALSE /\ cut' = FALSE
               \/ shifting' = FALSE /\ poll' = TRUE /\ cut' = FALSE
               \/ shifting' = FALSE /\ poll' = FALSE /\ cut' = TRUE
        PROVE  PollInv'
    BY <2>e DEF PollInv, PollOrSend
  <2>1. CASE PollFires
    <3>1. shifting = FALSE /\ cut = FALSE
      BY <2>1, <2>b, <2>p DEF PollFires
    <3>2. update_queue(m_xoff, m_cr, consumed, sent) /\ cut' = cut
      BY <2>1, <3>1 DEF PollFires
    <3> QED
      BY <2>e, <3>1, <3>2, QueueServed
  <2>2. CASE tra_complete
    <3>1. cut = FALSE /\ cut' = cut
      BY <2>2, <2>b, <2>p DEF tra_complete
    <3>2. CASE m_cr /\ fc.delay
      BY <2>2, <2>e, <3>1, <3>2 DEF tra_complete
    <3>3. CASE ~(m_cr /\ fc.delay)
      BY <2>2, <2>e, <3>1, <3>3, QueueServed DEF tra_complete
    <3> QED
      BY <3>2, <3>3
  <2>3. CASE UNCHANGED <<shifting, poll, cut>>
    BY <2>3, <2>b, <2>p, <2>e
  <2>4. CASE update_serial
    BY <2>4, <2>b, <2>p, <2>e DEF update_serial
  <2>5. CASE device_reset
    BY <2>5, <2>e, QueueServed DEF device_reset
  <2>6. CASE \E ch \in {"XON", "XOFF", "data"} : rcv_complete(ch)
    BY <2>3, <2>6 DEF rcv_complete, queueVars
  <2>7. CASE LineChanges \/ \E ch \in Chars : Arrives(ch)
    BY <2>3, <2>7 DEF LineChanges, Arrives, queueVars
  <2>8. CASE UNCHANGED vars
    BY <2>3, <2>8 DEF vars, queueVars
  <2> QED
    BY <2>1, <2>2, <2>4, <2>5, <2>6, <2>7, <2>8 DEF Next
<1>3. PollInv => PollOrSend
  BY DEF PollInv
<1> QED
  BY <1>1, <1>2, <1>3, PTL DEF Spec

-----------------------------------------------------------------------------
(* Flow control *)

\* Types, and that XOFF as the device remembers it is XOFF as the machine means
\* it.
FlowInv == TypeOK /\ (ExactlyXon => m_xoff = held)

\* A sequence cut behind its first n + 1 members.
LEMMA RestIsSeq ==
    ASSUME NEW s \in Seq(Chars), NEW n \in Nat, n < Len(s)
    PROVE  /\ s[n + 1] \in Chars
           /\ SubSeq(s, n + 2, Len(s)) \in Seq(Chars)
           /\ SubSeq(s, 1, n + 1) \in Seq(Chars)
OBVIOUS

\* What update_queue does to the sequences, and that it sends nothing on hold.
LEMMA QueueSequences ==
    ASSUME input \in Seq(Chars), NEW xoff, NEW cr,
           NEW c0 \in Seq(Chars), NEW s0 \in Seq(Chars),
           update_queue(xoff, cr, c0, s0)
    PROVE  /\ input' \in Seq(Chars) /\ sent' \in Seq(Chars)
           /\ consumed' \in Seq(Chars)
           /\ sent' = s0 \/ ~Blocked(xoff)
<1>1. CASE Blocked(xoff)
  BY <1>1 DEF update_queue, Retry
<1>2. CASE ~Blocked(xoff) /\ cr /\ fc.conv = "lf2crlf"
  <2>1. input' = input /\ sent' = Append(s0, "LF") /\ consumed' = c0
    BY <1>2 DEF update_queue, Load
  <2>2. "LF" \in Chars
    BY DEF Chars, LineEnds
  <2> QED
    BY <1>2, <2>1, <2>2
<1>3. CASE ~Blocked(xoff) /\ ~(cr /\ fc.conv = "lf2crlf")
  <2>1. PICK n \in 0..Len(input) :
          IF n < Len(input)
          THEN SendNext(n, c0, s0)
          ELSE Retry(s0) /\ input' = <<>> /\ consumed' = c0 \o input
    BY <1>3 DEF update_queue
  <2>2. CASE n < Len(input)
    <3>1. SendNext(n, c0, s0)
      BY <2>1, <2>2
    <3>2. /\ input' = SubSeq(input, n + 2, Len(input))
          /\ consumed' = c0 \o SubSeq(input, 1, n + 1)
          /\ sent' = Append(s0, IF Turned(input[n + 1]) THEN "CR"
                                                        ELSE input[n + 1])
      BY <3>1 DEF SendNext, Load
    <3>3. "CR" \in Chars
      BY DEF Chars, LineEnds
    <3>4. n \in Nat
      BY <2>2
    <3>5. /\ input[n + 1] \in Chars
          /\ SubSeq(input, n + 2, Len(input)) \in Seq(Chars)
          /\ SubSeq(input, 1, n + 1) \in Seq(Chars)
      BY <2>2, <3>4, RestIsSeq
    <3>6. sent' \in Seq(Chars)
      BY <3>2, <3>3, <3>5
    <3>7. input' \in Seq(Chars) /\ consumed' \in Seq(Chars)
      BY <3>2, <3>5
    <3> QED
      BY <1>3, <3>6, <3>7
  <2>3. CASE ~(n < Len(input))
    <3>1. sent' = s0 /\ input' = <<>> /\ consumed' = c0 \o input
      BY <2>1, <2>3 DEF Retry
    <3>2. <<>> \in Seq(Chars) /\ c0 \o input \in Seq(Chars)
      OBVIOUS
    <3> QED
      BY <3>1, <3>2
  <2> QED
    BY <2>2, <2>3
<1> QED
  BY <1>1, <1>2, <1>3

\* What update_queue does to the flags.
LEMMA QueueFlags ==
    ASSUME NEW xoff, NEW cr \in BOOLEAN, NEW c0, NEW s0,
           update_queue(xoff, cr, c0, s0)
    PROVE  m_cr' \in BOOLEAN /\ shifting' \in BOOLEAN /\ poll' \in BOOLEAN
<1>1. shifting' \in BOOLEAN /\ poll' \in BOOLEAN
  BY DEF update_queue, SendNext, Load, Retry
<1>2. \/ m_cr' = cr
      \/ m_cr' = FALSE
      \/ \E n \in 0..Len(input) :
           \/ m_cr' = (input[n + 1] = "CR" \/ Turned(input[n + 1]))
           \/ m_cr' = IF n = 0 THEN cr ELSE input[n] = "CR"
  BY DEF update_queue, SendNext
<1>3. m_cr' \in BOOLEAN
  BY <1>2
<1> QED
  BY <1>1, <1>3

\* With the device's XOFF equal to the machine's, on hold is blocked.
LEMMA HoldBlocks ==
    ASSUME NEW xoff, NEW h, ExactlyXon => xoff = h, OnHold(h)
    PROVE  Blocked(xoff)
BY DEF OnHold, Blocked, ExactlyXon

\* The parts of the type invariant.
LEMMA TypeParts ==
    TypeOK <=> /\ fc \in Settings
               /\ input \in Seq(Chars) /\ consumed \in Seq(Chars)
               /\ sent \in Seq(Chars)
               /\ m_rts \in BOOLEAN /\ m_dtr \in BOOLEAN /\ m_xoff \in BOOLEAN
               /\ m_cr \in BOOLEAN /\ shifting \in BOOLEAN /\ poll \in BOOLEAN
               /\ held \in BOOLEAN /\ cut \in BOOLEAN
               /\ fed \in 0..MaxInput
BY DEF TypeOK

\* A step that hands the queue to update_queue, with XOFF known to both sides.
LEMMA QueueStep ==
    ASSUME TypeOK, NEW c0 \in Seq(Chars), NEW s0 \in Seq(Chars),
           NEW cr \in BOOLEAN, NEW xoff \in BOOLEAN,
           update_queue(xoff, cr, c0, s0),
           m_xoff' = xoff, held' \in BOOLEAN, ExactlyXon => xoff = held',
           cut' \in BOOLEAN,
           UNCHANGED <<fc, m_rts, m_dtr, fed>>
    PROVE  FlowInv' /\ (sent' = s0 \/ ~OnHold(held'))
<1>1. /\ input' \in Seq(Chars) /\ sent' \in Seq(Chars)
      /\ consumed' \in Seq(Chars)
      /\ sent' = s0 \/ ~Blocked(xoff)
  BY QueueSequences, TypeParts
<1>2. m_cr' \in BOOLEAN /\ shifting' \in BOOLEAN /\ poll' \in BOOLEAN
  BY QueueFlags
<1>3. TypeOK'
  BY <1>1, <1>2 DEF TypeOK
<1>4. (ExactlyXon => m_xoff = held)'
  BY DEF ExactlyXon
<1>5. ~Blocked(xoff) => ~OnHold(held')
  BY HoldBlocks
<1> QED
  BY <1>1, <1>3, <1>4, <1>5 DEF FlowInv

\* A step keeps the invariant and starts no character on hold.
LEMMA FlowStep ==
    ASSUME FlowInv, [Next]_vars
    PROVE  /\ FlowInv'
           /\ Len(sent') > Len(sent) => ~OnHold(held')
<1> DEFINE Quiet == ~(Len(sent') > Len(sent))
<1>t. TypeOK /\ (ExactlyXon => m_xoff = held)
  BY DEF FlowInv
<1>s. /\ sent \in Seq(Chars) /\ consumed \in Seq(Chars)
      /\ m_cr \in BOOLEAN /\ m_xoff \in BOOLEAN /\ held \in BOOLEAN
      /\ shifting \in BOOLEAN /\ cut \in BOOLEAN
  BY <1>t, TypeParts
<1>q. sent' = sent => Quiet
  BY <1>s
<1>e. <<>> \in Seq(Chars)
  OBVIOUS
<1>1. ASSUME update_queue(m_xoff, m_cr, consumed, sent),
             UNCHANGED <<fc, m_rts, m_dtr, m_xoff, held, cut, fed>>
      PROVE  FlowInv' /\ (Quiet \/ ~OnHold(held'))
  <2>1. held' \in BOOLEAN /\ cut' \in BOOLEAN /\ (ExactlyXon => m_xoff = held')
    BY <1>1, <1>t, <1>s
  <2>2. FlowInv' /\ (sent' = sent \/ ~OnHold(held'))
    BY <1>1, <1>t, <1>s, <2>1, QueueStep
  <2> QED
    BY <1>q, <2>2
<1>2. CASE PollFires
  <2>1. CASE shifting
    BY <1>2, <1>t, <1>q, <2>1 DEF PollFires, FlowInv, TypeOK, ExactlyXon, lineVars
  <2>2. CASE ~shifting
    BY <1>1, <1>2, <2>2 DEF PollFires, lineVars
  <2> QED
    BY <2>1, <2>2
<1>3. CASE tra_complete
  <2>1. CASE m_cr /\ fc.delay
    BY <1>3, <1>t, <1>q, <2>1
       DEF tra_complete, FlowInv, TypeOK, ExactlyXon, lineVars
  <2>2. CASE ~(m_cr /\ fc.delay)
    BY <1>1, <1>3, <2>2 DEF tra_complete, lineVars
  <2> QED
    BY <2>1, <2>2
<1>4. ASSUME NEW ch \in {"XON", "XOFF", "data"}, rcv_complete(ch)
      PROVE  FlowInv' /\ Quiet
  <2>1. UNCHANGED <<fc, m_rts, m_dtr, input, consumed, sent, m_cr, shifting,
                    poll, cut, fed>>
    BY <1>4 DEF rcv_complete, queueVars, lineVars
  <2>2. m_xoff' \in BOOLEAN /\ held' \in BOOLEAN
    BY <1>4, <1>s DEF rcv_complete
  <2>3. ExactlyXon => m_xoff' = held'
    BY <1>4, <1>t DEF rcv_complete
  <2>4. TypeOK'
    BY <1>t, <2>1, <2>2 DEF TypeOK
  <2> QED
    BY <1>q, <2>1, <2>3, <2>4 DEF FlowInv, ExactlyXon
<1>5. CASE LineChanges
  BY <1>5, <1>t, <1>q DEF LineChanges, queueVars, FlowInv, TypeOK, ExactlyXon
<1>6. ASSUME NEW ch \in Chars, Arrives(ch)
      PROVE  FlowInv' /\ Quiet
  <2>1. /\ input' = Append(input, ch) /\ fed' = fed + 1 /\ fed < MaxInput
        /\ UNCHANGED <<fc, m_rts, m_dtr, m_xoff, m_cr, shifting, poll, consumed,
                       sent, held, cut>>
    BY <1>6 DEF Arrives, lineVars
  <2>2. input' \in Seq(Chars) /\ fed' \in 0..MaxInput
    BY <1>6, <1>t, <2>1, TypeParts, NullModemAssumption
  <2>3. TypeOK'
    BY <1>t, <2>1, <2>2 DEF TypeOK
  <2> QED
    BY <1>t, <1>q, <2>1, <2>3 DEF FlowInv, ExactlyXon
<1>7. CASE update_serial
  <2>1. /\ sent' = <<>> /\ consumed' = <<>>
        /\ m_xoff' = FALSE /\ held' = FALSE /\ m_cr' = FALSE /\ shifting' = FALSE
        /\ cut' = (cut \/ shifting)
        /\ UNCHANGED <<fc, m_rts, m_dtr, input, poll, fed>>
    BY <1>7 DEF update_serial, lineVars
  <2>2. Quiet
    BY <1>s, <2>1
  <2>3. cut' \in BOOLEAN
    BY <1>s, <2>1
  <2>4. TypeOK'
    BY <1>t, <1>e, <2>1, <2>3 DEF TypeOK
  <2> QED
    BY <2>1, <2>2, <2>4 DEF FlowInv
<1>8. CASE device_reset
  <2>1. /\ update_queue(FALSE, FALSE, <<>>, <<>>)
        /\ m_xoff' = FALSE /\ held' = FALSE /\ cut' = FALSE
        /\ UNCHANGED <<fc, m_rts, m_dtr, fed>>
    BY <1>8 DEF device_reset, lineVars
  <2>2. FlowInv' /\ (sent' = <<>> \/ ~OnHold(held'))
    BY <1>t, <1>e, <2>1, QueueStep
  <2>3. sent' = <<>> => Quiet
    BY <1>s
  <2> QED
    BY <2>2, <2>3
<1>9. CASE UNCHANGED vars
  BY <1>9, <1>t, <1>q
     DEF vars, queueVars, lineVars, FlowInv, TypeOK, ExactlyXon
<1> QED
  BY <1>2, <1>3, <1>4, <1>5, <1>6, <1>7, <1>8, <1>9 DEF Next

\* The first states have it.
LEMMA FlowInit == Init => FlowInv
<1>1. <<>> \in Seq(Chars)
  OBVIOUS
<1>2. 0 \in 0..MaxInput
  BY NullModemAssumption
<1>3. Init => TypeOK
  BY <1>1, <1>2 DEF Init, TypeOK
<1> QED
  BY <1>3 DEF Init, FlowInv

\* The waiting, taken and sent characters stay sequences over the alphabet and
\* the flags stay flags, for every alphabet and every amount of input.
THEOREM NullModemTypeCorrect == Spec => []TypeOK
<1>1. FlowInv /\ [Next]_vars => FlowInv'
  BY FlowStep
<1>2. FlowInv => TypeOK
  BY DEF FlowInv
<1> QED
  BY <1>1, <1>2, FlowInit, PTL DEF Spec

\* For every setting and every stream: no character is started while the machine
\* holds the line by RTS, DTR or XOFF (update_queue, tra_complete, rcv_complete
\* and device_reset of null_modem.cpp).
THEOREM FlowCorrect == Spec => FlowHolds
<1>1. FlowInv /\ [Next]_vars => FlowInv'
  BY FlowStep
<1>2. FlowInv /\ [Next]_vars =>
        [Len(sent') > Len(sent) => ~OnHold(held')]_<<sent, held>>
  BY FlowStep
<1> QED
  BY <1>1, <1>2, FlowInit, PTL DEF Spec, FlowHolds

-----------------------------------------------------------------------------
(* Conversion: runs of line ends *)

\* Positions in a sequence are finitely many, and so is any set of them.
LEMMA Positions ==
    ASSUME NEW n \in Nat, NEW S \in SUBSET (1..n)
    PROVE  IsFiniteSet(S) /\ Cardinality(S) \in Nat
<1>1. IsFiniteSet(1..n)
  BY FS_Interval
<1>2. IsFiniteSet(S)
  BY <1>1, FS_Subset
<1> QED
  BY <1>2, FS_CardinalityType

\* One position more, behind all others.
LEMMA OneMore ==
    ASSUME NEW n \in Nat, NEW S \in SUBSET (1..n)
    PROVE  Cardinality(S \cup {n + 1}) = Cardinality(S) + 1
<1>1. IsFiniteSet(S)
  BY Positions
<1>2. n + 1 \notin S
  OBVIOUS
<1> QED
  BY <1>1, <1>2, FS_AddElement

\* A part has no more members.
LEMMA Fewer ==
    ASSUME NEW n \in Nat, NEW S \in SUBSET (1..n), NEW T \in SUBSET S
    PROVE  Cardinality(T) <= Cardinality(S)
BY Positions, FS_Subset

\* The end of a text is in a line end.
EndsLine(s) == Len(s) > 0 /\ s[Len(s)] \in LineEnds

\* The beginnings are positions of the text.
LEMMA HeadsType ==
    ASSUME NEW s \in Seq(Chars)
    PROVE  /\ DOMAIN s = 1..Len(s) /\ Len(s) \in Nat
           /\ Heads(s) \in SUBSET (1..Len(s))
BY DEF Heads

\* Line ends behind a line end begin nothing.
LEMMA HeadsKeep ==
    ASSUME NEW s \in Seq(Chars), NEW u \in Seq(Chars),
           \A i \in 1..Len(u) : u[i] \in LineEnds, EndsLine(s)
    PROVE  /\ Heads(s \o u) = Heads(s)
           /\ \A i \in Heads(s) : (s \o u)[i] = s[i]
<1> DEFINE w == s \o u
<1>1. /\ Len(s) \in Nat /\ Len(u) \in Nat /\ w \in Seq(Chars)
      /\ Len(w) = Len(s) + Len(u)
      /\ \A i \in 1..Len(s) : w[i] = s[i]
      /\ \A i \in 1..Len(u) : w[Len(s) + i] = u[i]
  OBVIOUS
<1>2. \A i \in 1..Len(w) : i > Len(s) => w[i] \in LineEnds
  <2> TAKE i \in 1..Len(w)
  <2> HAVE i > Len(s)
  <2>1. i - Len(s) \in 1..Len(u) /\ w[Len(s) + (i - Len(s))] = w[i]
    BY <1>1
  <2> QED
    BY <1>1, <2>1
<1> HIDE DEF w
<1>3. w[Len(s)] \in LineEnds /\ Len(s) > 0
  BY <1>1 DEF EndsLine
<1>4. \A i \in 1..Len(w) : i > Len(s) => i > 1 /\ w[i - 1] \in LineEnds
  <2> TAKE i \in 1..Len(w)
  <2> HAVE i > Len(s)
  <2>1. CASE i - 1 = Len(s)
    BY <1>1, <1>3, <2>1
  <2>2. CASE i - 1 # Len(s)
    BY <1>1, <1>2, <1>3, <2>2
  <2> QED
    BY <2>1, <2>2
<1>5. \A i \in 1..Len(s) : (i > 1 => w[i - 1] = s[i - 1]) /\ w[i] = s[i]
  <2>1. \A i \in 1..Len(s) : i > 1 => i - 1 \in 1..Len(s)
    BY <1>1
  <2> QED
    BY <1>1, <2>1
<1>6. Heads(w) = Heads(s)
  <2>1. DOMAIN w = 1..Len(w) /\ DOMAIN s = 1..Len(s)
    BY <1>1
  <2>2. \A i : i \in Heads(w) <=> i \in Heads(s)
    <3> TAKE i
    <3>1. CASE i \in 1..Len(s)
      BY <1>1, <1>5, <2>1, <3>1 DEF Heads
    <3>2. CASE i \notin 1..Len(s)
      BY <1>1, <1>2, <1>4, <2>1, <3>2 DEF Heads
    <3> QED
      BY <3>1, <3>2
  <2> QED
    BY <2>2
<1> QED
  BY <1>1, <1>6, HeadsType DEF w

\* Another character begins something unless both it and the last are line ends.
LEMMA HeadsAdd ==
    ASSUME NEW s \in Seq(Chars), NEW ch \in Chars,
           ~(EndsLine(s) /\ ch \in LineEnds)
    PROVE  /\ Heads(Append(s, ch)) = Heads(s) \cup {Len(s) + 1}
           /\ \A i \in Heads(s) : Append(s, ch)[i] = s[i]
           /\ Append(s, ch)[Len(s) + 1] = ch
<1> DEFINE w == Append(s, ch)
<1>1. /\ Len(s) \in Nat /\ w \in Seq(Chars) /\ Len(w) = Len(s) + 1
      /\ \A i \in 1..Len(s) : w[i] = s[i]
      /\ w[Len(s) + 1] = ch
  OBVIOUS
<1> HIDE DEF w
<1>2. \A i \in 1..Len(s) : (i > 1 => w[i - 1] = s[i - 1]) /\ w[i] = s[i]
  BY <1>1
<1>3. Len(s) + 1 > 1 => w[Len(s) + 1 - 1] = s[Len(s)]
  BY <1>1
<1>4. DOMAIN w = 1..Len(w) /\ DOMAIN s = 1..Len(s)
  BY <1>1
<1>5. \A i : i \in Heads(w) <=> i \in Heads(s) \cup {Len(s) + 1}
  <2> TAKE i
  <2>1. CASE i \in 1..Len(s)
    BY <1>1, <1>2, <1>4, <2>1 DEF Heads
  <2>2. CASE i = Len(s) + 1
    BY <1>1, <1>3, <1>4, <2>2 DEF Heads, EndsLine
  <2>3. CASE i \notin 1..(Len(s) + 1)
    BY <1>1, <1>4, <2>3 DEF Heads
  <2> QED
    BY <1>1, <2>1, <2>2, <2>3
<1>6. Heads(w) = Heads(s) \cup {Len(s) + 1}
  BY <1>5
<1> QED
  BY <1>1, <1>6, HeadsType DEF w

\* So the new beginning has the next number, and the others keep theirs.
LEMMA NumberAdd ==
    ASSUME NEW s \in Seq(Chars), NEW ch \in Chars,
           ~(EndsLine(s) /\ ch \in LineEnds)
    PROVE  LET w == Append(s, ch)
           IN  /\ Cardinality(Heads(w)) = Cardinality(Heads(s)) + 1
               /\ HeadNumber(w, Len(s) + 1) = Cardinality(Heads(s)) + 1
               /\ \A i \in Heads(s) : /\ HeadNumber(w, i) = HeadNumber(s, i)
                                      /\ HeadNumber(s, i) <= Cardinality(Heads(s))
                                      /\ HeadNumber(s, i) \in Nat
               /\ Cardinality(Heads(s)) \in Nat
<1> DEFINE w == Append(s, ch)
           H == Heads(s)
<1>1. Heads(w) = H \cup {Len(s) + 1}
  BY HeadsAdd
<1>2. Len(s) \in Nat /\ H \in SUBSET (1..Len(s))
  BY HeadsType
<1> HIDE DEF w, H
<1>3. Cardinality(Heads(w)) = Cardinality(H) + 1 /\ Cardinality(H) \in Nat
  BY <1>1, <1>2, OneMore, Positions
<1>4. {j \in Heads(w) : j <= Len(s) + 1} = Heads(w)
  <2>1. \A j \in H : j \in Nat /\ j <= Len(s)
    BY <1>2
  <2>2. \A j \in Heads(w) : j <= Len(s) + 1
    <3> TAKE j \in Heads(w)
    <3>1. CASE j \in H
      BY <1>2, <2>1, <3>1
    <3>2. CASE j = Len(s) + 1
      BY <1>2, <3>2
    <3> QED
      BY <1>1, <3>1, <3>2
  <2> QED
    BY <2>2
<1>5. ASSUME NEW i \in H
      PROVE  /\ HeadNumber(w, i) = Cardinality({j \in H : j <= i})
             /\ Cardinality({j \in H : j <= i}) \in Nat
             /\ Cardinality({j \in H : j <= i}) <= Cardinality(H)
  <2>1. {j \in Heads(w) : j <= i} = {j \in H : j <= i}
    BY <1>1, <1>2, <1>5
  <2>2. {j \in H : j <= i} \in SUBSET H
    OBVIOUS
  <2> QED
    BY <1>2, <2>1, <2>2, Positions, Fewer DEF HeadNumber
<1> QED
  BY <1>3, <1>4, <1>5 DEF HeadNumber, w, H

\* Swallowing line ends after a line end leaves the text the same.
LEMMA TextKeep ==
    ASSUME NEW t, NEW s \in Seq(Chars), NEW u \in Seq(Chars),
           \A i \in 1..Len(u) : u[i] \in LineEnds, EndsLine(s), SameText(t, s)
    PROVE  SameText(t, s \o u)
<1>1. Heads(s \o u) = Heads(s) /\ \A i \in Heads(s) : (s \o u)[i] = s[i]
  BY HeadsKeep
<1>2. \A i : HeadNumber(s \o u, i) = HeadNumber(s, i)
  BY <1>1 DEF HeadNumber
<1> QED
  BY <1>1, <1>2 DEF SameText

\* The same character at the end of both.
LEMMA TextAdd ==
    ASSUME NEW t \in Seq(Chars), NEW s \in Seq(Chars), NEW ch \in Chars,
           EndsLine(t) <=> EndsLine(s), SameText(t, s)
    PROVE  SameText(Append(t, ch), Append(s, ch))
<1> DEFINE v == Append(t, ch)
           w == Append(s, ch)
<1>1. CASE EndsLine(s) /\ ch \in LineEnds
  <2>1. /\ <<ch>> \in Seq(Chars) /\ \A i \in 1..Len(<<ch>>) : <<ch>>[i] \in LineEnds
        /\ v = t \o <<ch>> /\ w = s \o <<ch>>
    BY <1>1
  <2>2. Heads(v) = Heads(t) /\ \A i \in Heads(t) : v[i] = t[i]
    BY <1>1, <2>1, HeadsKeep
  <2>3. Heads(w) = Heads(s) /\ \A i \in Heads(s) : w[i] = s[i]
    BY <1>1, <2>1, HeadsKeep
  <2> HIDE DEF v, w
  <2>4. \A i : HeadNumber(v, i) = HeadNumber(t, i) /\ HeadNumber(w, i) = HeadNumber(s, i)
    BY <2>2, <2>3 DEF HeadNumber
  <2>5. SameText(v, w)
    BY <2>2, <2>3, <2>4 DEF SameText
  <2> QED
    BY <2>5 DEF v, w
<1>2. CASE ~(EndsLine(s) /\ ch \in LineEnds)
  <2> DEFINE m == Len(t) + 1
             n == Len(s) + 1
             c == Cardinality(Heads(s))
  <2>0. c = Cardinality(Heads(t))
    BY DEF SameText
  <2>1. /\ Heads(v) = Heads(t) \cup {m} /\ v[m] = ch
        /\ \A i \in Heads(t) : v[i] = t[i]
    BY <1>2, HeadsAdd
  <2>2. /\ Heads(w) = Heads(s) \cup {n} /\ w[n] = ch
        /\ \A i \in Heads(s) : w[i] = s[i]
    BY <1>2, HeadsAdd
  <2>3. /\ Cardinality(Heads(v)) = c + 1 /\ HeadNumber(v, m) = c + 1
        /\ \A i \in Heads(t) : /\ HeadNumber(v, i) = HeadNumber(t, i)
                               /\ HeadNumber(t, i) <= c
                               /\ HeadNumber(t, i) \in Nat
    BY <1>2, <2>0, NumberAdd
  <2>4. /\ Cardinality(Heads(w)) = c + 1 /\ HeadNumber(w, n) = c + 1
        /\ \A i \in Heads(s) : /\ HeadNumber(w, i) = HeadNumber(s, i)
                               /\ HeadNumber(s, i) <= c
                               /\ HeadNumber(s, i) \in Nat
        /\ c \in Nat
    BY <1>2, NumberAdd
  <2> HIDE DEF v, w, m, n, c
  <2>5. ASSUME NEW i \in Heads(v), NEW j \in Heads(w),
               HeadNumber(v, i) = HeadNumber(w, j)
        PROVE  Kind(v[i]) = Kind(w[j])
    <3>1. CASE i \in Heads(t) /\ j \in Heads(s)
      <4>1. Kind(t[i]) = Kind(s[j])
        BY <2>3, <2>4, <2>5, <3>1 DEF SameText
      <4> QED
        BY <2>1, <2>2, <3>1, <4>1
    <3>2. CASE i = m /\ j = n
      BY <2>1, <2>2, <3>2
    <3>3. CASE i \in Heads(t) /\ j = n
      BY <2>3, <2>4, <2>5, <3>3
    <3>4. CASE i = m /\ j \in Heads(s)
      BY <2>3, <2>4, <2>5, <3>4
    <3> QED
      BY <2>1, <2>2, <3>1, <3>2, <3>3, <3>4
  <2>6. SameText(v, w)
    BY <2>3, <2>4, <2>5 DEF SameText
  <2> QED
    BY <2>6 DEF v, w
<1> QED
  BY <1>1, <1>2

-----------------------------------------------------------------------------
(* Conversion: line feeds *)

\* Line feeds are positions of the text.
LEMMA FeedsType ==
    ASSUME NEW s \in Seq(Chars)
    PROVE  /\ LineFeeds(s) \in SUBSET (1..Len(s)) /\ Len(s) \in Nat
           /\ LoneLineFeeds(s) \in SUBSET (1..Len(s))
BY DEF LineFeeds, LoneLineFeeds

\* What comes later does not take a lone line feed away.
LEMMA LoneStay ==
    ASSUME NEW s \in Seq(Chars), NEW u \in Seq(Chars)
    PROVE  Cardinality(LoneLineFeeds(s)) <= Cardinality(LoneLineFeeds(s \o u))
<1> DEFINE w == s \o u
<1>1. /\ Len(s) \in Nat /\ w \in Seq(Chars) /\ Len(w) >= Len(s) /\ Len(w) \in Nat
      /\ \A i \in 1..Len(s) : w[i] = s[i]
  OBVIOUS
<1> HIDE DEF w
<1>2. \A i \in 1..Len(s) : i > 1 => i - 1 \in 1..Len(s)
  BY <1>1
<1>3. DOMAIN w = 1..Len(w) /\ DOMAIN s = 1..Len(s) /\ 1..Len(s) \subseteq 1..Len(w)
  BY <1>1
<1>4. LoneLineFeeds(s) \subseteq LoneLineFeeds(w)
  BY <1>1, <1>2, <1>3 DEF LoneLineFeeds, LineFeeds
<1>5. Cardinality(LoneLineFeeds(s)) <= Cardinality(LoneLineFeeds(w))
  BY <1>1, <1>4, FeedsType, Fewer
<1> QED
  BY <1>5 DEF w

\* The same character at the end of both, a line feed only where it is lone.
LEMMA FeedsAdd ==
    ASSUME NEW t \in Seq(Chars), NEW s \in Seq(Chars), NEW ch \in Chars,
           Cardinality(LineFeeds(t)) <= Cardinality(LoneLineFeeds(s)),
           ch = "LF" => ~(Len(s) > 0 /\ s[Len(s)] = "CR")
    PROVE  Cardinality(LineFeeds(Append(t, ch)))
             <= Cardinality(LoneLineFeeds(Append(s, ch)))
<1> DEFINE v == Append(t, ch)
           w == Append(s, ch)
<1>1. /\ Len(t) \in Nat /\ Len(v) = Len(t) + 1 /\ DOMAIN v = 1..Len(v)
      /\ DOMAIN t = 1..Len(t)
      /\ \A i \in 1..Len(t) : v[i] = t[i]
      /\ v[Len(t) + 1] = ch
  OBVIOUS
<1>2. /\ Len(s) \in Nat /\ Len(w) = Len(s) + 1 /\ DOMAIN w = 1..Len(w)
      /\ DOMAIN s = 1..Len(s) /\ w \in Seq(Chars)
      /\ \A i \in 1..Len(s) : w[i] = s[i]
      /\ w[Len(s) + 1] = ch /\ w = s \o <<ch>> /\ <<ch>> \in Seq(Chars)
  OBVIOUS
<1>3. /\ LineFeeds(t) \in SUBSET (1..Len(t))
      /\ LoneLineFeeds(s) \in SUBSET (1..Len(s))
      /\ Cardinality(LineFeeds(t)) \in Nat /\ Cardinality(LoneLineFeeds(s)) \in Nat
  BY FeedsType, Positions
<1>4. Cardinality(LoneLineFeeds(s)) <= Cardinality(LoneLineFeeds(w))
  BY <1>2, LoneStay
<1>5. Cardinality(LoneLineFeeds(w)) \in Nat
  BY <1>2, FeedsType, Positions
<1> HIDE DEF v, w
<1>6. CASE ch # "LF"
  <2>1. LineFeeds(v) = LineFeeds(t)
    <3>1. \A i \in 1..Len(v) : i \in 1..Len(t) \/ i = Len(t) + 1
      BY <1>1
    <3>2. 1..Len(t) \subseteq 1..Len(v)
      BY <1>1
    <3> QED
      BY <1>1, <1>6, <3>1, <3>2 DEF LineFeeds
  <2> QED
    BY <1>3, <1>4, <1>5, <2>1 DEF v, w
<1>7. CASE ch = "LF"
  <2>1. LineFeeds(v) = LineFeeds(t) \cup {Len(t) + 1}
    <3>1. \A i \in 1..Len(v) : i \in 1..Len(t) \/ i = Len(t) + 1
      BY <1>1
    <3>2. 1..Len(t) \subseteq 1..Len(v) /\ Len(t) + 1 \in 1..Len(v)
      BY <1>1
    <3> QED
      BY <1>1, <1>7, <3>1, <3>2 DEF LineFeeds
  <2>2. LoneLineFeeds(s) \cup {Len(s) + 1} \subseteq LoneLineFeeds(w)
    <3>1. \A i \in 1..Len(s) : i > 1 => i - 1 \in 1..Len(s)
      BY <1>2
    <3>2. 1..Len(s) \subseteq 1..Len(w) /\ Len(s) + 1 \in 1..Len(w)
      BY <1>2
    <3>3. LoneLineFeeds(s) \subseteq LoneLineFeeds(w)
      BY <1>2, <3>1, <3>2 DEF LoneLineFeeds, LineFeeds
    <3>4. Len(s) + 1 > 1 => w[Len(s) + 1 - 1] # "CR"
      BY <1>2, <1>7
    <3>5. Len(s) + 1 \in LoneLineFeeds(w)
      BY <1>2, <1>7, <3>2, <3>4 DEF LoneLineFeeds, LineFeeds
    <3> QED
      BY <3>3, <3>5
  <2>3. Cardinality(LineFeeds(v)) = Cardinality(LineFeeds(t)) + 1
    BY <1>1, <1>3, <2>1, OneMore
  <2>4. Cardinality(LoneLineFeeds(s) \cup {Len(s) + 1}) = Cardinality(LoneLineFeeds(s)) + 1
    BY <1>2, <1>3, OneMore
  <2>5. Cardinality(LoneLineFeeds(s) \cup {Len(s) + 1}) <= Cardinality(LoneLineFeeds(w))
    <3>1. LoneLineFeeds(w) \in SUBSET (1..Len(w)) /\ Len(w) \in Nat
      BY <1>2, FeedsType
    <3> QED
      BY <2>2, <3>1, Fewer
  <2> QED
    BY <1>3, <1>5, <2>3, <2>4, <2>5 DEF v, w
<1> QED
  BY <1>6, <1>7

-----------------------------------------------------------------------------
(* Conversion: CR LF for each line end *)

\* The line ends before place i.
Before(s, i) == {j \in 1..(i - 1) : s[j] \in LineEnds}

\* One place on, a line end passed is one more before it.
LEMMA BeforeCount ==
    ASSUME NEW s, NEW i \in Nat \ {0}
    PROVE  /\ Cardinality(Before(s, i)) \in Nat
           /\ Cardinality(Before(s, i + 1)) =
                Cardinality(Before(s, i)) + (IF s[i] \in LineEnds THEN 1 ELSE 0)
<1>1. i - 1 \in Nat /\ Before(s, i) \in SUBSET (1..(i - 1))
  BY DEF Before
<1>2. Cardinality(Before(s, i)) \in Nat
  BY <1>1, Positions
<1>3. CASE s[i] \in LineEnds
  <2>1. Before(s, i + 1) = Before(s, i) \cup {(i - 1) + 1}
    BY <1>3 DEF Before
  <2> QED
    BY <1>1, <1>2, <1>3, <2>1, OneMore
<1>4. CASE s[i] \notin LineEnds
  <2>1. Before(s, i + 1) = Before(s, i)
    BY <1>4 DEF Before
  <2> QED
    BY <1>2, <1>4, <2>1
<1> QED
  BY <1>2, <1>3, <1>4

\* Later characters have no fewer line ends before them.
LEMMA BeforeGrows ==
    ASSUME NEW s, NEW i \in Nat \ {0}, NEW k \in Nat \ {0}, i <= k
    PROVE  Cardinality(Before(s, i)) <= Cardinality(Before(s, k))
<1>1. k - 1 \in Nat /\ Before(s, k) \in SUBSET (1..(k - 1))
  BY DEF Before
<1>2. Before(s, i) \in SUBSET Before(s, k)
  BY DEF Before
<1> QED
  BY <1>1, <1>2, Fewer

\* One more character at the end of s, with what stands for it at the end of t.
LEMMA ExpandAdd ==
    ASSUME NEW t \in Seq(Chars), NEW s \in Seq(Chars), NEW ch \in Chars, Expands(t, s)
    PROVE  Expands(t \o (IF ch \in LineEnds THEN <<"CR", "LF">> ELSE <<ch>>),
                   Append(s, ch))
<1> DEFINE e == IF ch \in LineEnds THEN <<"CR", "LF">> ELSE <<ch>>
           v == t \o e
           w == Append(s, ch)
           n == Len(s)
<1>0. e \in Seq(Chars)
  <2>1. "CR" \in Chars /\ "LF" \in Chars
    BY DEF Chars, LineEnds
  <2>2. <<"CR", "LF">> \in Seq(Chars) /\ <<ch>> \in Seq(Chars)
    BY <2>1
  <2> QED
    BY <2>2
<1>1. /\ n \in Nat /\ Len(w) = n + 1 /\ w[n + 1] = ch
      /\ DOMAIN s = 1..n /\ DOMAIN w = 1..(n + 1)
      /\ \A i \in 1..n : w[i] = s[i]
  OBVIOUS
<1>2. /\ Len(t) \in Nat /\ Len(v) = Len(t) + Len(e)
      /\ \A i \in 1..Len(t) : v[i] = t[i]
      /\ \A i \in 1..Len(e) : v[Len(t) + i] = e[i]
  BY <1>0
<1>3. /\ ch \in LineEnds => Len(e) = 2 /\ e[1] = "CR" /\ e[2] = "LF"
      /\ ch \notin LineEnds => Len(e) = 1 /\ e[1] = ch
  OBVIOUS
<1>4. Len(t) + 1 = n + 1 + Cardinality(Before(s, n + 1))
  BY DEF Expands, Place, Before
<1> HIDE DEF e, v, w, n
<1>5. ASSUME NEW i \in 1..(n + 1) PROVE Before(w, i) = Before(s, i)
  <2>1. \A j \in 1..(i - 1) : j \in 1..n
    BY <1>1
  <2> QED
    BY <1>1, <2>1 DEF Before
<1>6. Cardinality(Before(s, n + 1)) \in Nat
  BY <1>1, BeforeCount
<1>7. Cardinality(Before(w, (n + 1) + 1)) =
        Cardinality(Before(s, n + 1)) + (IF ch \in LineEnds THEN 1 ELSE 0)
  <2>1. n + 1 \in Nat \ {0} /\ n + 1 \in 1..(n + 1)
    BY <1>1
  <2>2. Before(w, n + 1) = Before(s, n + 1)
    BY <1>5, <2>1
  <2> QED
    BY <1>1, <2>1, <2>2, BeforeCount
<1>8. Len(v) + 1 = Place(w, Len(w) + 1)
  <2>1. Place(w, Len(w) + 1) = (n + 1) + 1 + Cardinality(Before(w, (n + 1) + 1))
    BY <1>1 DEF Place, Before
  <2> DEFINE c == Cardinality(Before(s, n + 1))
             d == Cardinality(Before(w, (n + 1) + 1))
             a == Len(t)
             p == Place(w, Len(w) + 1)
  <2>2. c \in Nat /\ a \in Nat /\ n \in Nat /\ a + 1 = n + 1 + c
    BY <1>1, <1>2, <1>4, <1>6
  <2>3. p = (n + 1) + 1 + d
    BY <2>1
  <2>4. CASE ch \in LineEnds
    <3>1. d = c + 1
      BY <1>7, <2>4
    <3>2. Len(v) = a + 2
      BY <1>2, <1>3, <2>4
    <3> HIDE DEF a, c, d, p
    <3>3. a + 2 + 1 = (n + 1) + 1 + (c + 1)
      BY <2>2
    <3>4. Len(v) + 1 = p
      BY <2>3, <3>1, <3>2, <3>3
    <3> QED
      BY <3>4 DEF p
  <2>5. CASE ch \notin LineEnds
    <3>1. d = c
      BY <1>6, <1>7, <2>5
    <3>2. Len(v) = a + 1
      BY <1>2, <1>3, <2>5
    <3> HIDE DEF a, c, d, p
    <3>3. a + 1 + 1 = (n + 1) + 1 + c
      BY <2>2
    <3>4. Len(v) + 1 = p
      BY <2>3, <3>1, <3>2, <3>3
    <3> QED
      BY <3>4 DEF p
  <2> QED
    BY <2>4, <2>5
<1>9. ASSUME NEW i \in 1..n
      PROVE  IF w[i] \in LineEnds
             THEN v[Place(w, i)] = "CR" /\ v[Place(w, i) + 1] = "LF"
             ELSE v[Place(w, i)] = w[i]
  <2>1. i \in 1..(n + 1) /\ i \in Nat \ {0} /\ i + 1 \in Nat \ {0} /\ i + 1 <= n + 1
    BY <1>1
  <2>2. Place(w, i) = Place(s, i) /\ Place(s, i) = i + Cardinality(Before(s, i))
    BY <1>5, <2>1 DEF Place, Before
  <2>3. /\ Cardinality(Before(s, i)) \in Nat
        /\ Cardinality(Before(s, i + 1)) =
             Cardinality(Before(s, i)) + (IF s[i] \in LineEnds THEN 1 ELSE 0)
        /\ Cardinality(Before(s, i + 1)) <= Cardinality(Before(s, n + 1))
    <3>1. n + 1 \in Nat \ {0}
      BY <1>1
    <3>2. Cardinality(Before(s, i + 1)) <= Cardinality(Before(s, n + 1))
      BY <2>1, <3>1, BeforeGrows
    <3> QED
      BY <2>1, <3>2, BeforeCount
  <2>4. /\ Place(s, i) \in 1..Len(t)
        /\ s[i] \in LineEnds => Place(s, i) + 1 \in 1..Len(t)
    BY <1>1, <1>2, <1>4, <1>6, <2>1, <2>2, <2>3
  <2>5. IF s[i] \in LineEnds
        THEN t[Place(s, i)] = "CR" /\ t[Place(s, i) + 1] = "LF"
        ELSE t[Place(s, i)] = s[i]
    BY <1>1, <1>9 DEF Expands
  <2> QED
    BY <1>1, <1>2, <1>9, <2>2, <2>4, <2>5
<1>10. IF w[n + 1] \in LineEnds
       THEN v[Place(w, n + 1)] = "CR" /\ v[Place(w, n + 1) + 1] = "LF"
       ELSE v[Place(w, n + 1)] = w[n + 1]
  <2>1. n + 1 \in 1..(n + 1)
    BY <1>1
  <2>2. Place(w, n + 1) = Len(t) + 1
    BY <1>1, <1>4, <1>5, <2>1 DEF Place, Before
  <2>3. CASE ch \in LineEnds
    <3>0. Len(e) = 2 /\ e[1] = "CR" /\ e[2] = "LF"
      BY <1>3, <2>3
    <3>1. e[1] = "CR" /\ e[2] = "LF" /\ 1 \in 1..Len(e) /\ 2 \in 1..Len(e)
      BY <3>0
    <3>2. v[Len(t) + 1] = "CR" /\ v[Len(t) + 2] = "LF" /\ (Len(t) + 1) + 1 = Len(t) + 2
      BY <1>2, <3>1
    <3> QED
      BY <1>1, <2>2, <2>3, <3>2
  <2>4. CASE ch \notin LineEnds
    <3>1. 1 \in 1..Len(e) /\ e[1] = ch
      BY <1>3, <2>4
    <3> QED
      BY <1>1, <1>2, <2>2, <2>4, <3>1
  <2> QED
    BY <2>3, <2>4
<1>11. \A i \in 1..(n + 1) : i \in 1..n \/ i = n + 1
  BY <1>1
<1>12. Expands(v, w)
  BY <1>1, <1>8, <1>9, <1>10, <1>11 DEF Expands
<1> QED
  BY <1>12 DEF v, w, e
-----------------------------------------------------------------------------
(* Conversion: the queue *)

\* The invariant: the characters t on the line are the taken ones c, converted.
\* Where line ends are dropped, the flag cr also has to mean that the last one
\* taken was a carriage return, and the line has to end as the stream does.
CrMeans(c, cr) == cr <=> (Len(c) > 0 /\ c[Len(c)] = "CR")
Shortened(t, c, cr) ==
    /\ SameText(t, c)
    /\ Cardinality(LineFeeds(t)) <= Cardinality(LoneLineFeeds(c))
    /\ CrMeans(c, cr)
    /\ EndsLine(t) <=> EndsLine(c)
Returns(c) == [i \in 1..Len(c) |-> IF c[i] = "LF" THEN "CR" ELSE c[i]]
Due(cr) == IF cr THEN <<"LF">> ELSE <<>>
Converted(t, c, cr) ==
    /\ fc.conv = "off" => t = c
    /\ fc.conv = "lf2cr" => t = Returns(c)
    /\ fc.conv = "crlf2cr" => Shortened(t, c, cr)
    /\ fc.conv = "lf2crlf" => Expands(t \o Due(cr), c)

\* The invariant says what StreamConverted says.
LEMMA ConvertedIs ==
    ASSUME TypeOK, Converted(sent, consumed, m_cr)
    PROVE  StreamConverted
<1>1. fc.conv \in {"off", "lf2cr", "crlf2cr", "lf2crlf"}
  BY NullModemAssumption DEF TypeOK, SettingType
<1>2. CASE fc.conv = "off"
  BY <1>2 DEF StreamConverted, Converted
<1>3. CASE fc.conv = "lf2cr"
  BY <1>3 DEF StreamConverted, Converted, Returns
<1>4. CASE fc.conv = "crlf2cr"
  BY <1>4 DEF StreamConverted, Converted, Shortened
<1>5. CASE fc.conv = "lf2crlf"
  BY <1>5 DEF StreamConverted, Converted, Due
<1> QED
  BY <1>1, <1>2, <1>3, <1>4, <1>5

\* Nothing is converted to nothing.
LEMMA ConvertedEmpty == Converted(<<>>, <<>>, FALSE)
<1>1. Heads(<<>>) = {} /\ LineFeeds(<<>>) = {} /\ LoneLineFeeds(<<>>) = {}
  BY DEF Heads, LineFeeds, LoneLineFeeds
<1>2. Shortened(<<>>, <<>>, FALSE)
  <2>1. Cardinality({}) <= Cardinality({})
    BY FS_EmptySet
  <2>2. Len(<<>>) = 0
    OBVIOUS
  <2>3. SameText(<<>>, <<>>)
    BY <1>1 DEF SameText
  <2>4. CrMeans(<<>>, FALSE)
    BY <2>2 DEF CrMeans
  <2>5. Cardinality(LineFeeds(<<>>)) <= Cardinality(LoneLineFeeds(<<>>))
    BY <1>1, <2>1
  <2> QED
    BY <2>3, <2>4, <2>5 DEF Shortened
<1>3. Expands(<<>>, <<>>)
  <2>1. {j \in 1..((0 + 1) - 1) : <<>>[j] \in LineEnds} = {}
    OBVIOUS
  <2>2. Place(<<>>, 0 + 1) = 1
    BY <2>1, FS_EmptySet DEF Place
  <2> QED
    BY <2>2 DEF Expands
<1>4. <<>> \o Due(FALSE) = <<>>
  BY DEF Due
<1>5. <<>> = Returns(<<>>)
  BY DEF Returns
<1> QED
  BY <1>2, <1>3, <1>4, <1>5 DEF Converted

\* A character more of c is its converted form more of t, while none is dropped.
LEMMA ShortenedAdd ==
    ASSUME NEW t \in Seq(Chars), NEW c \in Seq(Chars), NEW ch \in Chars,
           SameText(t, c), EndsLine(t) <=> EndsLine(c),
           Cardinality(LineFeeds(t)) <= Cardinality(LoneLineFeeds(c)),
           ch = "LF" => ~(Len(c) > 0 /\ c[Len(c)] = "CR")
    PROVE  Shortened(Append(t, ch), Append(c, ch), ch = "CR")
<1>1. SameText(Append(t, ch), Append(c, ch))
  BY TextAdd
<1>2. Cardinality(LineFeeds(Append(t, ch)))
        <= Cardinality(LoneLineFeeds(Append(c, ch)))
  BY FeedsAdd
<1>3. /\ Len(Append(t, ch)) = Len(t) + 1 /\ Len(t) \in Nat
      /\ Append(t, ch)[Len(t) + 1] = ch
      /\ Len(Append(c, ch)) = Len(c) + 1 /\ Len(c) \in Nat
      /\ Append(c, ch)[Len(c) + 1] = ch
  OBVIOUS
<1>4. Len(t) + 1 > 0 /\ Len(c) + 1 > 0
  BY <1>3
<1>5. CrMeans(Append(c, ch), ch = "CR")
  BY <1>3, <1>4 DEF CrMeans
<1>6. EndsLine(Append(t, ch)) <=> EndsLine(Append(c, ch))
  BY <1>3, <1>4 DEF EndsLine
<1> QED
  BY <1>1, <1>2, <1>5, <1>6 DEF Shortened

\* Line ends u dropped behind a carriage return.
LEMMA ShortenedDrop ==
    ASSUME NEW t \in Seq(Chars), NEW c \in Seq(Chars), NEW u \in Seq(Chars),
           Shortened(t, c, TRUE), \A i \in 1..Len(u) : u[i] \in LineEnds
    PROVE  /\ SameText(t, c \o u)
           /\ EndsLine(t) /\ EndsLine(c \o u)
           /\ Cardinality(LineFeeds(t)) <= Cardinality(LoneLineFeeds(c \o u))
<1>1. EndsLine(c)
  BY DEF Shortened, CrMeans, EndsLine, LineEnds
<1>2. SameText(t, c \o u)
  BY <1>1, TextKeep DEF Shortened
<1>3. Cardinality(LineFeeds(t)) <= Cardinality(LoneLineFeeds(c \o u))
  <2>1. /\ Cardinality(LineFeeds(t)) \in Nat
        /\ Cardinality(LoneLineFeeds(c)) \in Nat
        /\ Cardinality(LoneLineFeeds(c \o u)) \in Nat
    <3>1. c \o u \in Seq(Chars)
      OBVIOUS
    <3> QED
      BY <3>1, FeedsType, Positions
  <2>2. /\ Cardinality(LineFeeds(t)) <= Cardinality(LoneLineFeeds(c))
        /\ Cardinality(LoneLineFeeds(c)) <= Cardinality(LoneLineFeeds(c \o u))
    BY LoneStay DEF Shortened
  <2> HIDE DEF LineFeeds, LoneLineFeeds
  <2> QED
    BY <2>1, <2>2
<1>4. EndsLine(c \o u)
  <2>1. CASE Len(u) = 0
    <3>1. c \o u = c
      BY <2>1
    <3> QED
      BY <1>1, <3>1
  <2>2. CASE Len(u) # 0
    <3>1. /\ Len(c \o u) = Len(c) + Len(u) /\ Len(u) \in 1..Len(u)
          /\ (c \o u)[Len(c) + Len(u)] = u[Len(u)] /\ Len(c) + Len(u) > 0
      BY <2>2
    <3> QED
      BY <3>1 DEF EndsLine
  <2> QED
    BY <2>1, <2>2
<1> QED
  BY <1>1, <1>2, <1>3, <1>4 DEF Shortened

\* The characters a step takes are the dropped ones and the one that is sent.
LEMMA TakenSplit ==
    ASSUME NEW s \in Seq(Chars), NEW c \in Seq(Chars), NEW n \in Nat, n < Len(s)
    PROVE  /\ s[n + 1] \in Chars
           /\ SubSeq(s, 1, n) \in Seq(Chars) /\ Len(SubSeq(s, 1, n)) = n
           /\ \A i \in 1..n : SubSeq(s, 1, n)[i] = s[i]
           /\ c \o SubSeq(s, 1, n + 1) = Append(c \o SubSeq(s, 1, n), s[n + 1])
<1>1. /\ s[n + 1] \in Chars
      /\ SubSeq(s, 1, n) \in Seq(Chars) /\ Len(SubSeq(s, 1, n)) = n
      /\ \A i \in 1..n : SubSeq(s, 1, n)[i] = s[i]
  OBVIOUS
<1>2. SubSeq(s, 1, n + 1) = Append(SubSeq(s, 1, n), s[n + 1])
  OBVIOUS
<1>3. ASSUME NEW u \in Seq(Chars), NEW ch \in Chars
      PROVE  c \o Append(u, ch) = Append(c \o u, ch)
  BY <1>3
<1> QED
  BY <1>1, <1>2, <1>3

\* The next character goes out behind n dropped line ends.
LEMMA SendConverts ==
    ASSUME TypeOK, NEW c0 \in Seq(Chars), NEW s0 \in Seq(Chars), NEW cr \in BOOLEAN,
           NEW n \in Nat, n < Len(input), Redundant(cr, n),
           ~(cr /\ fc.conv = "lf2crlf"),
           Converted(s0, c0, cr), SendNext(n, c0, s0)
    PROVE  Converted(sent', consumed', m_cr')
<1> DEFINE ch == input[n + 1]
           u  == SubSeq(input, 1, n)
           c1 == c0 \o u
           out == IF Turned(ch) THEN "CR" ELSE ch
<1>0. input \in Seq(Chars)
  BY DEF TypeOK
<1>1. /\ ch \in Chars /\ u \in Seq(Chars) /\ Len(u) = n
      /\ \A i \in 1..n : u[i] = input[i]
      /\ c0 \o SubSeq(input, 1, n + 1) = Append(c1, ch)
  BY <1>0, TakenSplit
<1>2. /\ sent' = Append(s0, out) /\ consumed' = Append(c1, ch)
      /\ m_cr' = (ch = "CR" \/ Turned(ch))
  BY <1>1 DEF SendNext, Load
<1>3. n = 0 => c1 = c0
  BY <1>1
<1>4. ~(cr /\ fc.conv = "crlf2cr") => n = 0
  BY DEF Redundant
<1>5. cr /\ fc.conv = "crlf2cr" =>
        /\ \A i \in 1..n : u[i] \in LineEnds
        /\ ch \notin LineEnds
  BY <1>1 DEF Redundant
<1>6. c1 \in Seq(Chars)
  BY <1>1
<1>7. fc.conv \notin {"lf2cr", "lf2crlf"} => out = ch /\ ~Turned(ch)
  BY DEF Turned
<1> HIDE DEF ch, u, c1, out
<1>8. CASE fc.conv = "off"
  BY <1>2, <1>3, <1>4, <1>7, <1>8 DEF Converted
<1>9. CASE fc.conv = "lf2cr"
  <2>1. s0 = Returns(c0) /\ c1 = c0
    BY <1>3, <1>4, <1>9 DEF Converted
  <2>2. out = IF ch = "LF" THEN "CR" ELSE ch
    BY <1>9 DEF Turned, out
  <2>3. Append(Returns(c0), out) = Returns(Append(c0, ch))
    BY <1>1, <2>2 DEF Returns
  <2> QED
    BY <1>2, <1>9, <2>1, <2>3 DEF Converted
<1>10. CASE fc.conv = "crlf2cr"
  <2>1. Shortened(s0, c0, cr)
    BY <1>10 DEF Converted
  <2>2. Shortened(Append(s0, ch), Append(c1, ch), ch = "CR")
    <3>1. CASE cr
      <4>1. /\ SameText(s0, c1) /\ (EndsLine(s0) <=> EndsLine(c1))
            /\ Cardinality(LineFeeds(s0)) <= Cardinality(LoneLineFeeds(c1))
        <5>1. Shortened(s0, c0, TRUE) /\ \A i \in 1..Len(u) : u[i] \in LineEnds
          BY <1>1, <1>5, <1>10, <2>1, <3>1
        <5> QED
          BY <1>1, <5>1, ShortenedDrop DEF c1
      <4>2. ch # "LF"
        BY <1>5, <1>10, <3>1 DEF LineEnds
      <4> QED
        BY <1>1, <1>6, <4>1, <4>2, ShortenedAdd
    <3>2. CASE ~cr
      <4>1. c1 = c0 /\ ~(Len(c0) > 0 /\ c0[Len(c0)] = "CR")
        BY <1>3, <1>4, <2>1, <3>2 DEF Shortened, CrMeans
      <4> QED
        BY <1>1, <2>1, <4>1, ShortenedAdd DEF Shortened
    <3> QED
      BY <3>1, <3>2
  <2>3. sent' = Append(s0, ch) /\ m_cr' = (ch = "CR")
    BY <1>2, <1>7, <1>10
  <2> QED
    BY <1>2, <1>10, <2>2, <2>3 DEF Converted
<1>11. CASE fc.conv = "lf2crlf"
  <2>1. ~cr /\ c1 = c0 /\ Expands(s0 \o Due(FALSE), c0)
    BY <1>3, <1>4, <1>11 DEF Converted
  <2>2. s0 \o Due(FALSE) = s0
    BY DEF Due
  <2>3. Expands(s0 \o (IF ch \in LineEnds THEN <<"CR", "LF">> ELSE <<ch>>),
                Append(c0, ch))
    BY <1>1, <2>1, <2>2, ExpandAdd
  <2>4. m_cr' = (ch \in LineEnds)
    BY <1>2, <1>11 DEF Turned, LineEnds
  <2>5. out = IF ch \in LineEnds THEN "CR" ELSE ch
    BY <1>11 DEF Turned, LineEnds, out
  <2>6. sent' \o Due(m_cr') =
          s0 \o (IF ch \in LineEnds THEN <<"CR", "LF">> ELSE <<ch>>)
    <3>1. CASE ch \in LineEnds
      <4>1. sent' = Append(s0, "CR") /\ Due(m_cr') = <<"LF">>
        BY <1>2, <2>4, <2>5, <3>1 DEF Due
      <4>2. Append(s0, "CR") \o <<"LF">> = s0 \o <<"CR", "LF">>
        <5>1. "CR" \in Chars /\ "LF" \in Chars
          BY DEF Chars, LineEnds
        <5> QED
          BY <5>1
      <4> QED
        BY <3>1, <4>1, <4>2
    <3>2. CASE ch \notin LineEnds
      <4>1. sent' = Append(s0, ch) /\ Due(m_cr') = <<>>
        BY <1>2, <2>4, <2>5, <3>2 DEF Due
      <4>2. Append(s0, ch) \o <<>> = s0 \o <<ch>>
        BY <1>1
      <4> QED
        BY <3>2, <4>1, <4>2
    <3> QED
      BY <3>1, <3>2
  <2> QED
    BY <1>2, <1>11, <2>1, <2>3, <2>6 DEF Converted
<1>12. fc.conv \in {"off", "lf2cr", "crlf2cr", "lf2crlf"}
  BY NullModemAssumption DEF TypeOK, SettingType
<1> QED
  BY <1>8, <1>9, <1>10, <1>11, <1>12

\* All that waits is dropped, or nothing waits.
LEMMA DrainConverts ==
    ASSUME TypeOK, NEW c0 \in Seq(Chars), NEW s0 \in Seq(Chars), NEW cr \in BOOLEAN,
           NEW n \in Nat, n = Len(input), Redundant(cr, n), Converted(s0, c0, cr)
    PROVE  Converted(s0, c0 \o input, IF n = 0 THEN cr ELSE input[n] = "CR")
<1>0. input \in Seq(Chars)
  BY DEF TypeOK
<1>1. CASE n = 0
  <2>1. Len(input) = 0
    BY <1>1
  <2>2. input = <<>>
    BY <1>0, <2>1
  <2>3. c0 \o <<>> = c0
    OBVIOUS
  <2> QED
    BY <1>1, <2>2, <2>3
<1>2. CASE n # 0
  <2>1. cr /\ fc.conv = "crlf2cr" /\ \A i \in 1..Len(input) : input[i] \in LineEnds
    BY <1>2 DEF Redundant
  <2>2. Shortened(s0, c0, TRUE)
    BY <2>1 DEF Converted
  <2>3. /\ SameText(s0, c0 \o input)
        /\ EndsLine(s0) /\ EndsLine(c0 \o input)
        /\ Cardinality(LineFeeds(s0)) <= Cardinality(LoneLineFeeds(c0 \o input))
    BY <1>0, <2>1, <2>2, ShortenedDrop
  <2>4. CrMeans(c0 \o input, input[n] = "CR")
    <3>1. /\ Len(c0 \o input) = Len(c0) + Len(input) /\ Len(input) \in 1..Len(input)
          /\ (c0 \o input)[Len(c0) + Len(input)] = input[Len(input)]
          /\ Len(c0) + Len(input) > 0
      BY <1>0, <1>2
    <3> QED
      BY <3>1 DEF CrMeans
  <2>5. Shortened(s0, c0 \o input, input[n] = "CR")
    BY <2>3, <2>4 DEF Shortened
  <2> QED
    BY <1>2, <2>1, <2>5 DEF Converted
<1> QED
  BY <1>1, <1>2

\* update_queue keeps the line converted.
LEMMA QueueConverts ==
    ASSUME TypeOK, NEW c0 \in Seq(Chars), NEW s0 \in Seq(Chars), NEW cr \in BOOLEAN,
           NEW xoff, Converted(s0, c0, cr), update_queue(xoff, cr, c0, s0)
    PROVE  Converted(sent', consumed', m_cr')
<1>1. CASE Blocked(xoff)
  BY <1>1 DEF update_queue, Retry
<1>2. CASE ~Blocked(xoff) /\ cr /\ fc.conv = "lf2crlf"
  <2>1. sent' = Append(s0, "LF") /\ consumed' = c0 /\ m_cr' = FALSE
    BY <1>2 DEF update_queue, Load
  <2>2. Append(s0, "LF") \o <<>> = s0 \o <<"LF">>
    <3>1. "LF" \in Chars
      BY DEF Chars, LineEnds
    <3> QED
      BY <3>1
  <2>3. Expands(s0 \o <<"LF">>, c0)
    BY <1>2 DEF Converted, Due
  <2>4. Due(m_cr') = <<>>
    BY <2>1 DEF Due
  <2> QED
    BY <1>2, <2>1, <2>2, <2>3, <2>4 DEF Converted
<1>3. CASE ~Blocked(xoff) /\ ~(cr /\ fc.conv = "lf2crlf")
  <2>1. PICK n \in 0..Len(input) :
          /\ Redundant(cr, n)
          /\ IF n < Len(input)
             THEN SendNext(n, c0, s0)
             ELSE /\ Retry(s0)
                  /\ m_cr' = IF n = 0 THEN cr ELSE input[n] = "CR"
                  /\ consumed' = c0 \o input
    BY <1>3 DEF update_queue
  <2>0. Len(input) \in Nat /\ n \in Nat
    BY DEF TypeOK
  <2>2. CASE n < Len(input)
    BY <1>3, <2>0, <2>1, <2>2, SendConverts
  <2>3. CASE ~(n < Len(input))
    <3>1. n = Len(input)
      BY <2>0, <2>3
    <3>2. /\ sent' = s0 /\ consumed' = c0 \o input
          /\ m_cr' = IF n = 0 THEN cr ELSE input[n] = "CR"
      BY <2>1, <2>3 DEF Retry
    <3>3. Converted(s0, c0 \o input, IF n = 0 THEN cr ELSE input[n] = "CR")
      BY <2>0, <2>1, <3>1, DrainConverts
    <3> QED
      BY <3>2, <3>3
  <2> QED
    BY <2>2, <2>3
<1> QED
  BY <1>1, <1>2, <1>3

\* The inductive invariant.
StreamInv == TypeOK /\ Converted(sent, consumed, m_cr)

\* Every step keeps the line converted.
LEMMA StreamStep ==
    ASSUME StreamInv, [Next]_vars
    PROVE  Converted(sent, consumed, m_cr)'
<1>t. /\ TypeOK /\ Converted(sent, consumed, m_cr)
      /\ sent \in Seq(Chars) /\ consumed \in Seq(Chars) /\ m_cr \in BOOLEAN
  BY TypeParts DEF StreamInv
<1>e. <<>> \in Seq(Chars)
  OBVIOUS
<1>c. fc' = fc /\ Converted(sent', consumed', m_cr')
      => Converted(sent, consumed, m_cr)'
  BY DEF Converted, Shortened, Returns, Due, CrMeans, SameText, EndsLine, Expands
<1>q. UNCHANGED <<fc, sent, consumed, m_cr>> => Converted(sent, consumed, m_cr)'
  BY <1>c, <1>t
<1>1. ASSUME update_queue(m_xoff, m_cr, consumed, sent), fc' = fc
      PROVE  Converted(sent, consumed, m_cr)'
  BY <1>1, <1>t, <1>c, QueueConverts
<1>2. CASE PollFires
  BY <1>1, <1>2, <1>q DEF PollFires
<1>3. CASE tra_complete
  BY <1>1, <1>3, <1>q DEF tra_complete
<1>4. ASSUME NEW ch \in {"XON", "XOFF", "data"}, rcv_complete(ch)
      PROVE  Converted(sent, consumed, m_cr)'
  BY <1>4, <1>q DEF rcv_complete, queueVars
<1>5. CASE LineChanges
  BY <1>5, <1>q DEF LineChanges, queueVars
<1>6. ASSUME NEW ch \in Chars, Arrives(ch)
      PROVE  Converted(sent, consumed, m_cr)'
  BY <1>6, <1>q DEF Arrives
<1>7. CASE update_serial
  <2>1. sent' = <<>> /\ consumed' = <<>> /\ m_cr' = FALSE /\ fc' = fc
    BY <1>7 DEF update_serial
  <2> QED
    BY <1>c, <2>1, ConvertedEmpty
<1>8. CASE device_reset
  <2>1. update_queue(FALSE, FALSE, <<>>, <<>>) /\ fc' = fc
    BY <1>8 DEF device_reset
  <2>2. Converted(sent', consumed', m_cr')
    BY <1>t, <1>e, <2>1, ConvertedEmpty, QueueConverts
  <2> QED
    BY <1>c, <2>1, <2>2
<1>9. CASE UNCHANGED vars
  BY <1>9, <1>q DEF vars, queueVars
<1> QED
  BY <1>2, <1>3, <1>4, <1>5, <1>6, <1>7, <1>8, <1>9 DEF Next

\* For every stream, every setting and every arrival of the characters: what is on
\* the line since the last reset is the stream converted as the user selected
\* (update_queue of null_modem.cpp, called from the timer, from tra_complete and
\* from device_reset).
THEOREM StreamCorrect == Spec => []StreamConverted
<1>1. Init => StreamInv
  <2>1. Init => TypeOK
    BY FlowInit DEF FlowInv
  <2>2. Init => Converted(sent, consumed, m_cr)
    BY ConvertedEmpty DEF Init
  <2> QED
    BY <2>1, <2>2 DEF StreamInv
<1>2. TypeOK' /\ StreamInv /\ [Next]_vars => StreamInv'
  BY StreamStep DEF StreamInv
<1>3. StreamInv => StreamConverted
  BY ConvertedIs DEF StreamInv
<1> QED
  BY <1>1, <1>2, <1>3, NullModemTypeCorrect, PTL DEF Spec
=============================================================================
