----------------------------- MODULE NullModem -----------------------------
(***************************************************************************)
(* The far end of the serial line: null_modem_device of                    *)
(* src/src/devices/bus/rs232/null_modem.cpp.  It sends a file or a socket  *)
(* to the machine, character by character, converting line ends and        *)
(* obeying the flow control the user selected, and stores what it receives.*)
(*                                                                         *)
(* A character is "CR", "LF" or an ordinary one.  Its bits are left out:   *)
(* the transmit register is empty or not, as for DuartChannel.  Refilling  *)
(* m_input_buffer from the stream is invisible, because every look at the  *)
(* buffer refills it first; input is the buffer and the stream behind it.  *)
(***************************************************************************)
EXTENDS Naturals, FiniteSets, Sequences

CONSTANTS
    Ordinary,        \* characters that are not line ends
    Settings,        \* FLOW_CONTROL settings: [flow, conv, delay]
    MaxInput         \* bound: characters the stream delivers

LineEnds   == {"CR", "LF"}
Chars      == LineEnds \cup Ordinary
SettingType == [flow : {"off", "rts", "dtr", "xon"},
                conv : {"off", "lf2cr", "crlf2cr", "lf2crlf"},
                delay : BOOLEAN]

ASSUME NullModemAssumption ==
    /\ Ordinary \cap (LineEnds \cup {"NL"}) = {}
    /\ Settings \subseteq SettingType
    /\ MaxInput \in Nat

VARIABLES
    fc,        \* the setting of this behaviour
    input,     \* characters waiting
    m_rts, m_dtr, m_xoff, m_cr,
    shifting,  \* the transmit register is not empty
    poll,      \* m_timer_poll is running
    \* Histories since the line settings were last applied:
    consumed,  \* characters taken from the stream
    sent,      \* characters put on the line
    held,      \* the machine has sent XOFF and not yet XON
    \* Histories since the last reset, and since the start:
    cut,       \* a change of the line settings has cut a character short
    fed        \* characters the stream has delivered

lineVars  == <<m_rts, m_dtr>>
queueVars == <<input, m_cr, shifting, poll, consumed, sent>>
vars == <<fc, lineVars, m_xoff, queueVars, held, cut, fed>>

\* One type invariant for the queue and its histories.
TypeOK ==
    /\ fc \in Settings
    /\ input \in Seq(Chars) /\ consumed \in Seq(Chars) /\ sent \in Seq(Chars)
    /\ {m_rts, m_dtr, m_xoff, m_cr, shifting, poll, held, cut} \subseteq BOOLEAN
    /\ fed \in 0..MaxInput

-----------------------------------------------------------------------------
(* The queue *)

\* fc & (m_rts | m_dtr << 1 | m_xoff << 2).  Variant: DTR is forgotten.
Blocked_NoDtr(xoff) == \/ fc.flow = "rts" /\ m_rts
                       \/ fc.flow = "xon" /\ xoff
Blocked(xoff) == \/ fc.flow = "rts" /\ m_rts
                 \/ fc.flow = "dtr" /\ m_dtr
                 \/ fc.flow = "xon" /\ xoff

\* transmit_register_setup: ch goes on the line and the timer rests.
Load(ch, s0) ==
    /\ shifting' = TRUE
    /\ poll' = FALSE
    /\ sent' = Append(s0, ch)

\* Nothing to send: look again one bit time later.  Variant: the timer is not set.
Retry_NoTimer(s0) ==
    /\ shifting' = FALSE
    /\ poll' = FALSE
    /\ sent' = s0
Retry(s0) ==
    /\ shifting' = FALSE
    /\ poll' = TRUE
    /\ sent' = s0

\* Are n the line ends that follow a carriage return and are dropped, in the mode
\* that makes one CR of CR/LF?  All that have arrived by now.
Redundant(cr, n) ==
    IF cr /\ fc.conv = "crlf2cr"
    THEN /\ \A i \in 1..n : input[i] \in LineEnds
         /\ n < Len(input) => input[n + 1] \notin LineEnds
    ELSE n = 0

Turned(ch) == ch = "LF" /\ fc.conv \in {"lf2cr", "lf2crlf"}

\* The next character, after n redundant ones.
SendNext(n, c0, s0) ==
    LET ch == input[n + 1]
    IN  /\ Load(IF Turned(ch) THEN "CR" ELSE ch, s0)
        /\ m_cr' = (ch = "CR" \/ Turned(ch))
        /\ input' = SubSeq(input, n + 2, Len(input))
        /\ consumed' = c0 \o SubSeq(input, 1, n + 1)

\* With the transmit register empty; the histories come in as c0 and s0.
update_queue(xoff, cr, c0, s0) ==
    \/ /\ Blocked(xoff)
       /\ Retry(s0) /\ m_cr' = cr /\ consumed' = c0 /\ UNCHANGED input
    \/ /\ ~Blocked(xoff) /\ cr /\ fc.conv = "lf2crlf"
       /\ Load("LF", s0) /\ m_cr' = FALSE
       /\ consumed' = c0 /\ UNCHANGED input
    \/ /\ ~Blocked(xoff) /\ ~(cr /\ fc.conv = "lf2crlf")
       /\ \E n \in 0..Len(input) :
            /\ Redundant(cr, n)
            /\ IF n < Len(input)
               THEN SendNext(n, c0, s0)
               ELSE /\ Retry(s0)
                    /\ m_cr' = IF n = 0 THEN cr ELSE input[n] = "CR"
                    /\ consumed' = c0 \o input
                    /\ input' = <<>>

PollFires ==
    /\ poll
    /\ IF shifting
       THEN poll' = FALSE /\ UNCHANGED <<input, m_cr, shifting, consumed, sent>>
       ELSE update_queue(m_xoff, m_cr, consumed, sent)
    /\ UNCHANGED <<fc, lineVars, m_xoff, held, cut, fed>>

\* The last bit has left.  After a carriage return the user may want a pause.
tra_complete ==
    /\ shifting
    /\ IF m_cr /\ fc.delay
       THEN /\ shifting' = FALSE /\ poll' = TRUE
            /\ UNCHANGED <<input, m_cr, consumed, sent>>
       ELSE update_queue(m_xoff, m_cr, consumed, sent)
    /\ UNCHANGED <<fc, lineVars, m_xoff, held, cut, fed>>

-----------------------------------------------------------------------------
(* The machine's side *)

\* Only a setting of exactly 4 looks for XON and XOFF: with a conversion or a
\* delay selected as well they are data like any other.
ExactlyXon == fc.flow = "xon" /\ fc.conv = "off" /\ ~fc.delay

\* ch is "XON", "XOFF" or "data"; data goes to the stream.
rcv_complete(ch) ==
    /\ m_xoff' = IF ExactlyXon /\ ch # "data" THEN ch = "XOFF" ELSE m_xoff
    /\ held' = IF ch = "data" THEN held ELSE ch = "XOFF"
    /\ UNCHANGED <<fc, lineVars, queueVars, cut, fed>>

LineChanges ==
    /\ m_rts' \in BOOLEAN /\ m_dtr' \in BOOLEAN
    /\ UNCHANGED <<fc, m_xoff, queueVars, held, cut, fed>>

-----------------------------------------------------------------------------
(* The user's side *)

Arrives(ch) ==
    /\ fed < MaxInput
    /\ fed' = fed + 1
    /\ input' = Append(input, ch)
    /\ UNCHANGED <<fc, lineVars, m_xoff, m_cr, shifting, poll, consumed, sent,
                   held, cut>>

\* The user changes a line setting, at any time: set_tra_rate empties the transmit
\* register and stops its clock; the poll timer stays as it is.
update_serial ==
    /\ shifting' = FALSE
    /\ cut' = (cut \/ shifting)
    /\ m_xoff' = FALSE /\ m_cr' = FALSE
    /\ consumed' = <<>> /\ sent' = <<>> /\ held' = FALSE
    /\ UNCHANGED <<fc, lineVars, input, poll, fed>>

\* update_serial and update_queue in one.  Variant: a pending carriage return is
\* remembered over the reset.
device_reset_Stale ==
    /\ m_xoff' = FALSE /\ held' = FALSE /\ cut' = FALSE
    /\ update_queue(FALSE, m_cr, <<>>, <<>>)
    /\ UNCHANGED <<fc, lineVars, fed>>
device_reset ==
    /\ m_xoff' = FALSE /\ held' = FALSE /\ cut' = FALSE
    /\ update_queue(FALSE, FALSE, <<>>, <<>>)
    /\ UNCHANGED <<fc, lineVars, fed>>

-----------------------------------------------------------------------------
\* After the first device_reset, with nothing in the stream yet.
Init ==
    /\ fc \in Settings
    /\ input = <<>> /\ consumed = <<>> /\ sent = <<>> /\ fed = 0
    /\ m_rts = FALSE /\ m_dtr = FALSE /\ m_xoff = FALSE /\ m_cr = FALSE
    /\ shifting = FALSE /\ poll = TRUE
    /\ held = FALSE /\ cut = FALSE

Next ==
    \/ PollFires
    \/ tra_complete
    \/ \E ch \in {"XON", "XOFF", "data"} : rcv_complete(ch)
    \/ LineChanges
    \/ \E ch \in Chars : Arrives(ch)
    \/ update_serial
    \/ device_reset

\* Expired timers are run and the bit clock of a loaded register ticks on.
Fairness == WF_vars(PollFires) /\ WF_vars(tra_complete)

Spec == Init /\ [][Next]_vars /\ Fairness

-----------------------------------------------------------------------------
(* Properties *)

\* Where a character begins a line end or is none itself: of a run of line ends
\* only the first counts.
Heads(s) ==
    {i \in DOMAIN s : ~(i > 1 /\ s[i] \in LineEnds /\ s[i - 1] \in LineEnds)}
HeadNumber(s, i) == Cardinality({j \in Heads(s) : j <= i})
Kind(ch)         == IF ch \in LineEnds THEN "NL" ELSE ch

\* t and s are the same text when a run of line ends is one line end.
SameText(t, s) ==
    /\ Cardinality(Heads(t)) = Cardinality(Heads(s))
    /\ \A i \in Heads(t), j \in Heads(s) :
         HeadNumber(t, i) = HeadNumber(s, j) => Kind(t[i]) = Kind(s[j])

\* The line feeds of t, and those of s that do not follow a carriage return.
LineFeeds(t)     == {i \in DOMAIN t : t[i] = "LF"}
LoneLineFeeds(s) == {i \in LineFeeds(s) : ~(i > 1 /\ s[i - 1] = "CR")}

\* t is s with every line end as CR LF; Place is where a character of s goes.
Place(s, i) == i + Cardinality({j \in 1..(i - 1) : s[j] \in LineEnds})
Expands(t, s) ==
    /\ Len(t) + 1 = Place(s, Len(s) + 1)
    /\ \A i \in DOMAIN s :
         IF s[i] \in LineEnds
         THEN t[Place(s, i)] = "CR" /\ t[Place(s, i) + 1] = "LF"
         ELSE t[Place(s, i)] = s[i]

\* What goes on the line is the stream converted as selected, whenever the
\* characters arrive and however often flow control, pauses and retries come in
\* between: unchanged; CR for LF; without the LF of a CR/LF and without losing a
\* line break altogether; or CR/LF for each line end, the last LF possibly due.
StreamConverted ==
    CASE fc.conv = "off"     -> sent = consumed
      [] fc.conv = "lf2cr"   ->
           sent = [i \in 1..Len(consumed) |->
                     IF consumed[i] = "LF" THEN "CR" ELSE consumed[i]]
      [] fc.conv = "crlf2cr" ->
           /\ SameText(sent, consumed)
           /\ Cardinality(LineFeeds(sent)) <= Cardinality(LoneLineFeeds(consumed))
      [] fc.conv = "lf2crlf" ->
           Expands(sent \o (IF m_cr THEN <<"LF">> ELSE <<>>), consumed)

\* The queue is served, a character leaving or the timer about to look again,
\* unless a change of the line settings has cut a character short: then the
\* register is empty, its clock stopped and the timer at rest, and nothing but a
\* reset takes the queue up again, however the lines and the stream change.
PollOrSend == (shifting \/ poll) <=> ~cut

\* The machine holds the line by the means the user selected; h: it has sent
\* XOFF and not XON since.
OnHold(h) == \/ fc.flow = "rts" /\ m_rts
             \/ fc.flow = "dtr" /\ m_dtr
             \/ ExactlyXon /\ h

\* No character is started while the machine holds the line, on any path:
\* polling, the end of the last character, the pause after a carriage return or
\* a reset (which forgets an XOFF, but not the modem lines).
FlowHolds ==
    [][Len(sent') > Len(sent) => ~OnHold(held')]_<<sent, held>>

\* Once the line is no longer held and no character lies cut short by a change of
\* the line settings, all that the stream delivered is taken, whatever other
\* changes of the settings and resets come in between.
InputMoves == <>[](~Blocked(m_xoff) /\ ~cut) => []<>(input = <<>>)
=============================================================================
