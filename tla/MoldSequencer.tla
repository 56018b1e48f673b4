---------------------------- MODULE MoldSequencer ----------------------------
(***************************************************************************)
(* The live path: the receive loop of the feed handler (live_loop) hands   *)
(* every packet of a poll to the MoldUDP64 sequencer, which finds gaps,    *)
(* drops copies and delivers the messages it has not seen, in order        *)
(* (mold_udp64.hpp).                                                       *)
(*                                                                         *)
(* The network and the two lines of the feed deliver any packet the        *)
(* exchange sent, in any order, any number of times or never: a reception  *)
(* picks any packet.  A packet may be cut short, in which case only its    *)
(* first blocks are intact.  A packet shorter than a header changes        *)
(* nothing and is left out.                                                *)
(***************************************************************************)
EXTENDS Integers, Sequences, FiniteSets

CONSTANTS Sessions,    \* session names
          NoSession,   \* session_ before the first packet
          LastSeq,     \* messages of a session are numbered 1 .. LastSeq
          MaxCount,    \* largest number of messages in a packet
          MaxBatch,    \* largest number of packets a poll returns
          MaxEpochs    \* bound on the number of baselines the sequencer takes

ASSUME MoldAssumption == /\ LastSeq \in Nat
                         /\ MaxCount \in Nat
                         /\ MaxBatch \in Nat
                         /\ MaxEpochs \in Nat

VARIABLES session,     \* MoldSequencer::session_
          next,        \* MoldSequencer::next_, 0 before the first packet
          lost,        \* messages the receive loop has counted as lost
          running,     \* g_running
          left,        \* packets of the current poll not yet handled
          eos,         \* end-of-session packets handled
          log          \* history: one entry for each baseline taken, see Epoch

seqVars == <<session, next, lost, log>>
vars == <<session, next, lost, running, left, eos, log>>

\* What happened since a baseline: its session and first number, the numbers
\* delivered, in order, and the numbers reported lost.
Epoch == [session : Sessions, base : Nat, got : Seq(Nat), skipped : SUBSET Nat]

-----------------------------------------------------------------------------
(* Packets.                                                                *)

\* A packet announces count messages from sequence; a heartbeat announces none
\* and carries the number of the next message.
Packets == {p \in [session : Sessions, sequence : 1 .. LastSeq + 1, count : 0 .. MaxCount] :
               p.sequence + p.count <= LastSeq + 1}

\* An end of session carries the number after the last message.
EndPackets == [session : Sessions, sequence : {LastSeq + 1}]

-----------------------------------------------------------------------------
(* MoldSequencer::on_packet.                                               *)

\* The first packet, or one of another session, sets a new baseline.
Rebaselines(p) == next = 0 \/ p.session # session

\* next_ after the baseline
Baseline(p) == IF Rebaselines(p) THEN p.sequence ELSE next

\* A gap that is off by one.
GapInclusive(p) == Baseline(p) .. p.sequence

\* The numbers the packet jumps over.
Gap(p) == Baseline(p) .. p.sequence - 1

\* next_ when the blocks are read
Expected(p) == IF p.sequence > Baseline(p) THEN p.sequence ELSE Baseline(p)

\* A loop over the blocks that drops no copy.
EveryBlock(p, intact) == [i \in 1 .. intact |-> p.sequence + i - 1]

\* The blocks not seen before: block after block, the one numbered next_.
Fresh(p, intact) ==
    [i \in 1 .. (p.sequence + intact) - Expected(p) |-> Expected(p) + i - 1]

\* The history entry that the packet belongs to.
Current(p) == IF Rebaselines(p)
              THEN [session |-> p.session, base |-> p.sequence, got |-> <<>>, skipped |-> {}]
              ELSE log[Len(log)]

Earlier(p) == IF Rebaselines(p) THEN log ELSE SubSeq(log, 1, Len(log) - 1)

OnPacket(p, intact) ==
    /\ Rebaselines(p) => Len(log) < MaxEpochs
    /\ session' = p.session
    /\ next' = Expected(p) + Len(Fresh(p, intact))
    /\ lost' = lost + Cardinality(Gap(p))
    /\ log' = Append(Earlier(p),
                     [Current(p) EXCEPT !.got = @ \o Fresh(p, intact),
                                        !.skipped = @ \cup Gap(p)])

-----------------------------------------------------------------------------
(* The receive loop.                                                       *)

Init == /\ session = NoSession
        /\ next = 0
        /\ lost = 0
        /\ running = TRUE
        /\ left = 0
        /\ eos = {}
        /\ log = <<>>

\* g_running is read only between polls.
Poll(n) ==
    /\ running
    /\ left = 0
    /\ left' = n
    /\ UNCHANGED <<running, eos, seqVars>>

Receive(p, intact) ==
    /\ left > 0
    /\ left' = left - 1
    /\ OnPacket(p, intact)
    /\ UNCHANGED <<running, eos>>

\* A loop that notes the end of a session and goes on.
EndGoesOn(p) ==
    /\ left > 0
    /\ left' = left - 1
    /\ eos' = eos \cup {p}
    /\ UNCHANGED <<running, seqVars>>

\* The end of a session stops the loop after the current poll.
ReceiveEnd(p) ==
    /\ left > 0
    /\ left' = left - 1
    /\ eos' = eos \cup {p}
    /\ running' = FALSE
    /\ UNCHANGED seqVars

\* SIGINT or SIGTERM
Interrupt ==
    /\ running' = FALSE
    /\ UNCHANGED <<left, eos, seqVars>>

Stopped == ~running /\ left = 0

Finished == Stopped /\ UNCHANGED vars

HandlePacket == \/ \E p \in Packets : \E intact \in 0 .. p.count : Receive(p, intact)
                \/ \E p \in EndPackets : ReceiveEnd(p)

Next == \/ \E n \in 1 .. MaxBatch : Poll(n)
        \/ HandlePacket
        \/ Interrupt
        \/ Finished

Spec == Init /\ [][Next]_vars

\* The loop handles the packets of a poll without waiting for anything.
FairSpec == Spec /\ WF_vars(HandlePacket)

-----------------------------------------------------------------------------
(* Properties.                                                             *)

\* Every variable has its type.
TypeOK == /\ session \in Sessions \cup {NoSession}
          /\ next \in Nat
          /\ lost \in Nat
          /\ running \in BOOLEAN
          /\ left \in 0 .. MaxBatch
          /\ eos \subseteq EndPackets
          /\ log \in Seq(Epoch)
          /\ (next = 0) <=> (log = <<>>)

Latest == log[Len(log)]

Delivered(e) == {e.got[i] : i \in DOMAIN e.got}

\* Since the last baseline every number below next_ has been delivered or
\* reported lost, and none was both: a gap is neither forgotten nor counted
\* for a message that a late copy delivers after all.
Accounted ==
    next # 0 => /\ session = Latest.session
                /\ Delivered(Latest) \cup Latest.skipped = Latest.base .. next - 1
                /\ Delivered(Latest) \cap Latest.skipped = {}

\* Between two baselines messages are delivered in the order of their numbers,
\* each at most once, however often its packet was copied, delayed or cut.
InOrder == \A n \in DOMAIN log : \A i, j \in DOMAIN log[n].got :
               i < j => log[n].got[i] < log[n].got[j]

\* While the session stays the same, next_ never goes back: a late or a
\* truncated packet cannot make the sequencer ask again for what it has passed.
NeverBack == [][session' = session => next' >= next]_vars

\* Once the loop has handled the end of a session it stops.
EndStops == (eos # {}) ~> Stopped

\* mold_udp64.hpp:15-16, "whichever packet arrives first is delivered and the
\* copy is dropped": no message of a session is delivered twice.
CopyDropped == \A m, n \in DOMAIN log :
                   m # n /\ log[m].session = log[n].session
                       => Delivered(log[m]) \cap Delivered(log[n]) = {}

=============================================================================
