----------------------------- MODULE FeedHandler -----------------------------
(***************************************************************************)
(* The live path from end to end: a generated stream (SyntheticFeed) is    *)
(* sent as MoldUDP64 packets, the network loses, repeats, reorders and     *)
(* cuts them, and the feed handler's sequencer (MoldSequencer) delivers    *)
(* what is left to the parser, the book builder, the engine and the        *)
(* symbol directory (live_loop in feed_handler_main.cpp).                  *)
(*                                                                         *)
(* The sender may send the stream under several session names, as when it  *)
(* is restarted: order references then start over, and the receive loop,   *)
(* which does not look at session_changed, keeps the engine as it is.      *)
(* Polls and signals are left to MoldSequencer: here a packet is a step.   *)
(***************************************************************************)
EXTENDS SyntheticFeed

CONSTANTS Sessions, NoSession, MaxCount, MaxEpochs,   \* as in MoldSequencer
          Width, Blank,                               \* as in SymbolDirectory
          Names                                       \* stock_of, by locate, listed or not

VARIABLES session, next, lost, log,   \* as in MoldSequencer
          book,                       \* the engine of the feed handler
          dir,                        \* the symbol directory of the feed handler
          faults                      \* what ITCH rules out and the engine has met

netVars == <<session, next, lost, log>>
pathVars == <<feedVars, netVars, book, dir, faults>>

\* Only on_packet is used: packets are runs of the stream, not of numbers.
Mold == INSTANCE MoldSequencer
            WITH LastSeq <- 0, MaxBatch <- 1, running <- TRUE, left <- 0, eos <- {}

Directory == INSTANCE SymbolDirectory

Seqs == INSTANCE SequencesExt

\* The bounds are numbers; names fit their field, have no spaces at their end and
\* differ.
ASSUME PathAssumption ==
    /\ MaxCount \in Nat /\ MaxEpochs \in Nat /\ Width \in Nat
    /\ Locates \subseteq DOMAIN Names
    /\ \A l \in DOMAIN Names :
           /\ Names[l] \in Seq(Seqs!ToSet(Names[l]))
           /\ Len(Names[l]) <= Width
           /\ Names[l] # <<>> => Names[l][Len(Names[l])] # Blank
    /\ \A k, l \in DOMAIN Names : Names[k] = Names[l] => k = l

PathInit == /\ FeedInit
            /\ session = NoSession /\ next = 0 /\ lost = 0 /\ log = <<>>
            /\ book = NewEngine
            /\ dir = Directory!NewDirectory(Locates)
            /\ faults = {}

-----------------------------------------------------------------------------
(* What a delivered message does: Parser::parse and BookBuilder::on.       *)

\* The message adds an order that is live already; insert() asserts otherwise.
Duplicate(e, m) == \/ m.kind = "A" /\ m.ref \in Live(e)
                   \/ m.kind = "U" /\ m.ref \in Live(e) /\ m.new \in Live(e) \ {m.ref}

\* The message takes more shares than rest.
Overfill(e, m) == m.kind = "X" /\ m.ref \in Live(e) /\ m.shares > e.orders[m.ref].shares

\* Publisher::on(MsgStockDirectory)
ListStock(d, m) == Directory!List(d, m.locate, Directory!Padded(Names[m.locate]))

Deliver(h, m) ==
    [book   |-> OnMessage(h.book, m).engine,
     dir    |-> IF m.kind = "R" THEN ListStock(h.dir, m) ELSE h.dir,
     faults |-> h.faults \cup {f \in {"duplicate", "overfill"} :
                    IF f = "duplicate" THEN Duplicate(h.book, m) ELSE Overfill(h.book, m)}]

Handled == [book |-> book, dir |-> dir, faults |-> faults]

\* the handler after each of the messages q
Handling(q) ==
    LET h[i \in {0} \cup DOMAIN q] == IF i = 0 THEN Handled ELSE Deliver(h[i - 1], q[i])
    IN  h

-----------------------------------------------------------------------------
(* The receive loop.                                                       *)

\* A run of messages of the stream, or a heartbeat.
Packets == {p \in [session : Sessions, sequence : 1 .. Len(out) + 1, count : 0 .. MaxCount] :
               p.sequence + p.count <= Len(out) + 1}

\* A loop that hands over every block of the packet, copies included.
DeliverAll(p, intact) == [i \in 1 .. intact |-> out[p.sequence + i - 1]]

\* A loop that counts the fresh blocks and starts at the first of the packet.
DeliverFirst(p, intact) ==
    [i \in DOMAIN Mold!Fresh(p, intact) |-> out[p.sequence + i - 1]]

\* the messages on_packet delivers
Delivers(p, intact) == LET fresh == Mold!Fresh(p, intact)
                       IN  [i \in DOMAIN fresh |-> out[fresh[i]]]

\* A packet of which the first blocks are intact.  A debug build stops at a
\* duplicate reference.
Receive(p, intact) ==
    /\ "duplicate" \notin faults
    /\ Mold!OnPacket(p, intact)
    /\ LET q == Delivers(p, intact)
           h == Handling(q)[Len(q)]
       IN  book' = h.book /\ dir' = h.dir /\ faults' = h.faults
    /\ UNCHANGED feedVars

Send == Build /\ UNCHANGED <<netVars, book, dir, faults>>

Network == done /\ \E p \in Packets : \E intact \in 0 .. p.count : Receive(p, intact)

\* The network may deliver nothing more.
Quiet == done /\ UNCHANGED pathVars

PathNext == Send \/ Network \/ Quiet

\* build() is one thread that waits for nothing.
PathSpec == PathInit /\ [][PathNext]_pathVars /\ WF_pathVars(Send)

-----------------------------------------------------------------------------
(* Properties of one session.                                              *)

\* the messages the handler has got
Seen == UNION {Seqs!ToSet(log[n].got) : n \in DOMAIN log}

\* the locates of the symbols it was told of
Listed == {out[i].locate : i \in {j \in Seen : out[j].kind = "R"}}

\* the references a message names
Named(m) == CASE m.kind = "U" -> {m.ref, m.new}
              [] m.kind \in {"A", "X", "D"} -> {m.ref}
              [] OTHER -> {}

\* The references that lost messages name, and those of the orders that
\* replaced them later, after each message of the stream q; got are the
\* messages not lost.
Damage(q, got) ==
    LET dmg[n \in 0 .. Len(q)] ==
            IF n = 0 THEN {}
            ELSE IF n \notin got \/ Named(q[n]) \cap dmg[n - 1] # {}
                 THEN dmg[n - 1] \cup Named(q[n]) ELSE dmg[n - 1]
    IN  dmg

\* The engine after each message of the stream q, if none is lost.
Engines(q) ==
    LET e[n \in 0 .. Len(q)] ==
            IF n = 0 THEN NewEngine ELSE OnMessage(e[n - 1], q[n]).engine
    IN  e

Damaged == Damage(out, Seen)[next - 1]

\* The engine that has got every message before next_.
Reference == Engines(out)[next - 1]

\* A gap damages only the orders its messages name, their replacements and the
\* symbols it would have listed: every other order is in the book exactly as if
\* nothing had been lost, with levels that match, although the orders share
\* levels and the engine goes on after a gap without recovery, and the directory
\* finds a symbol by its name just when the message that lists it was got.
DamageContained ==
    next # 0 =>
        LET whole == Reference
            sound == Refs \ Damaged
        IN  /\ Live(book) \cap sound = Live(whole) \cap sound
            /\ \A r \in Live(book) \cap sound : book.orders[r] = whole.orders[r]
            /\ CountsMatch(book) /\ QuantitiesMatch(book) /\ ~book.missing
            /\ \A l \in DOMAIN Names :
                   IF l \in Listed
                   THEN Directory!Locate(dir, Names[l]) = l /\ Directory!Symbol(dir, l) = Names[l]
                   ELSE Directory!Locate(dir, Names[l]) = Directory!NoLocate

\* Of an order they share a gap never leaves the book too little: an order that is
\* live in the book and at the exchange has at least the shares it has there, and
\* so no execution or cancel ever exceeds what rests.  An order whose add was lost
\* is missing altogether, and its level has too little.
OverstatesOnly ==
    next # 0 =>
        LET whole == Reference
        IN  /\ \A r \in Live(book) \cap Live(whole) :
                   /\ book.orders[r].shares >= whole.orders[r].shares
                   /\ [book.orders[r] EXCEPT !.shares = 0] = [whole.orders[r] EXCEPT !.shares = 0]
            /\ "overfill" \notin faults

\* order_map.hpp:96-97, "Precondition: ref is not already present": no add or
\* replace that reaches the engine names an order that is live.
AddsAreNew == "duplicate" \notin faults
=============================================================================
