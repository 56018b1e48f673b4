------------------------------ MODULE SpscRing ------------------------------
(***************************************************************************)
(* The lock-free event ring between the feed thread and the consumer       *)
(* thread (include/itch/spsc_ring.hpp), driven as the feed handler drives  *)
(* it: Publisher::on_book pushes and counts the drops, consumer_loop pops  *)
(* in batches, and main() raises feed_done when the feed ends.             *)
(*                                                                         *)
(* One action is one access to memory the two threads share.  The shared   *)
(* atomics follow the C++11 model: a store adds a message to the           *)
(* location's modification order, and a load returns any message not older *)
(* than the last one its thread has seen.  A release store attaches to its *)
(* message what the storing thread has done (`view'), and an acquire load  *)
(* adds that to what the loading thread knows.  Slots are plain memory, so *)
(* two accesses of which neither is known to the other thread are a race.  *)
(***************************************************************************)
EXTENDS Integers, Sequences, FiniteSets

CONSTANTS N,          \* capacity of the ring
          IndexMod,   \* number of values of an index (2^64 in the code)
          MaxBatch,   \* the bound consumer_loop passes to pop_batch
          MaxEvents   \* length of the feed: events offered to the ring

\* The static_assert of the ring and the width of its indices: capacity and
\* number of index values are powers of two, so the one divides the other.
ASSUME RingAssumption ==
    /\ N \in Nat /\ N >= 2
    /\ IndexMod \in Nat /\ IndexMod > N /\ IndexMod % N = 0
    /\ MaxBatch \in Nat /\ MaxBatch >= 1
    /\ MaxEvents \in Nat

VARIABLES
    slots,        \* slots_: event in each slot, 0 before the first write
    \* the feed thread
    pPc,          \* where try_push stands
    tail,         \* prod_.tail as this thread stored it, not wrapped
    cachedHead,   \* prod_.cached_head
    accepted,     \* events whose push returned true
    dropped,      \* Publisher::dropped_
    feedDone,     \* feed_done as this thread stored it
    \* the consumer thread
    cPc,          \* where consumer_loop stands
    head,         \* cons_.head as this thread stored it
    cachedTail,   \* cons_.cached_tail
    batch,        \* avail of the current pop_batch
    got,          \* events handed to the strategy hook
    \* the C++11 memory model
    tailMsgs,     \* stores to tail a load may still return
    headMsgs,     \* stores to head a load may still return
    tailSeen,     \* newest tail the consumer has seen
    written,      \* slot writes the producer has made
    knownWrites,  \* of those, the ones that happen before the consumer's next step
    knownReads    \* slot reads that happen before the producer's next step

prodVars == <<pPc, tail, cachedHead, accepted, dropped, feedDone, tailMsgs, written, knownReads>>
consVars == <<cPc, head, cachedTail, batch, got, tailSeen, knownWrites>>
vars == <<slots, headMsgs, prodVars, consVars>>

Offered == Len(accepted) + dropped

Larger(a, b) == IF a >= b THEN a ELSE b

-----------------------------------------------------------------------------
(* Index arithmetic: free-running unsigned indices and their slots.        *)

Distance(a, b) == (a - b) % IndexMod

SlotOf(i) == (i % IndexMod) % N

\* What a full test that is off by one would compute.
OffByOneFull(t, h) == Distance(t, h) = N + 1

Full(t, h) == Distance(t, h) = N

-----------------------------------------------------------------------------
(* Messages of an atomic location.                                         *)

Msg(v, w) == [val |-> v, view |-> w]

\* Messages of a location that a thread which has seen value v may still load.
NotOlder(msgs, v) == {m \in msgs : m.val >= v}

-----------------------------------------------------------------------------
Init == /\ slots = [s \in 0 .. N - 1 |-> 0]
        /\ pPc = "idle" /\ cPc = "poll"
        /\ tail = 0 /\ cachedHead = 0 /\ head = 0 /\ cachedTail = 0 /\ batch = 0
        /\ accepted = <<>> /\ got = <<>> /\ dropped = 0
        /\ feedDone = FALSE
        /\ tailMsgs = {Msg(0, 0)} /\ headMsgs = {Msg(0, 0)}
        /\ tailSeen = 0 /\ written = 0 /\ knownWrites = 0 /\ knownReads = 0

-----------------------------------------------------------------------------
(* The feed thread.                                                        *)

\* try_push: test the cached head.
PushCheck ==
    /\ pPc = "idle" /\ ~feedDone
    /\ Offered < MaxEvents
    /\ pPc' = IF Full(tail, cachedHead) THEN "reload" ELSE "write"
    /\ UNCHANGED <<slots, headMsgs, consVars, tail, cachedHead, accepted, dropped,
                   feedDone, tailMsgs, written, knownReads>>

\* try_push: the ring looks full, so acquire the shared head and test again.
\* A push that fails is counted by the publisher, and the event is gone.
PushReload ==
    /\ pPc = "reload"
    /\ \E m \in NotOlder(headMsgs, cachedHead) :
         /\ cachedHead' = m.val
         /\ knownReads' = Larger(knownReads, m.view)
         /\ headMsgs' = NotOlder(headMsgs, m.val)
         /\ IF Full(tail, m.val) THEN pPc' = "idle" /\ dropped' = dropped + 1
                                 ELSE pPc' = "write" /\ UNCHANGED dropped
    /\ UNCHANGED <<slots, consVars, tail, accepted, feedDone, tailMsgs, written>>

\* try_push: copy the event into its slot.
PushWrite ==
    /\ pPc = "write"
    /\ slots' = [slots EXCEPT ![SlotOf(tail)] = Offered + 1]
    /\ written' = tail + 1
    /\ pPc' = "publish"
    /\ UNCHANGED <<headMsgs, consVars, tail, cachedHead, accepted, dropped,
                   feedDone, tailMsgs, knownReads>>

\* try_push: publish the slot with a release store of tail.
PushPublish ==
    /\ pPc = "publish"
    /\ tail' = tail + 1
    /\ tailMsgs' = tailMsgs \cup {Msg(tail + 1, written)}
    /\ accepted' = Append(accepted, Offered + 1)
    /\ pPc' = "idle"
    /\ UNCHANGED <<slots, headMsgs, consVars, cachedHead, dropped, feedDone,
                   written, knownReads>>

\* main(): the replay or the live loop has returned.
FeedEnds ==
    /\ pPc = "idle" /\ ~feedDone
    /\ feedDone' = TRUE
    /\ UNCHANGED <<slots, headMsgs, consVars, pPc, tail, cachedHead, accepted,
                   dropped, tailMsgs, written, knownReads>>

-----------------------------------------------------------------------------
(* The consumer thread.                                                    *)

AtMostBatch(n) == IF n > MaxBatch THEN MaxBatch ELSE n

\* pop_batch: test the cached tail.
PopCheck ==
    /\ cPc = "poll"
    /\ IF Distance(cachedTail, head) = 0
         THEN cPc' = "reload" /\ UNCHANGED batch
         ELSE cPc' = "read" /\ batch' = AtMostBatch(Distance(cachedTail, head))
    /\ UNCHANGED <<slots, headMsgs, prodVars, head, cachedTail, got, tailSeen, knownWrites>>

\* An acquire load of tail.
LoadTail(m) ==
    /\ m \in NotOlder(tailMsgs, tailSeen)
    /\ tailSeen' = m.val
    /\ knownWrites' = Larger(knownWrites, m.view)

\* A reload that forgets to keep what it loaded.
PopReloadForgetful ==
    /\ cPc = "reload"
    /\ \E m \in tailMsgs :
         /\ LoadTail(m)
         /\ cPc' = "empty"
    /\ UNCHANGED <<slots, headMsgs, prodVars, head, cachedTail, batch, got>>

\* pop_batch: the ring looks empty, so acquire the shared tail and test again.
PopReload ==
    /\ cPc = "reload"
    /\ \E m \in tailMsgs :
         /\ LoadTail(m)
         /\ cachedTail' = m.val
         /\ batch' = AtMostBatch(Distance(m.val, head))
         /\ cPc' = IF batch' = 0 THEN "empty" ELSE "read"
    /\ UNCHANGED <<slots, headMsgs, prodVars, head, got>>

\* pop_batch: one iteration hands the slot of the next index to the hook.
PopRead ==
    /\ cPc = "read"
    /\ got' = Append(got, slots[SlotOf(Len(got))])
    /\ cPc' = IF Len(got) + 1 = head + batch THEN "publish" ELSE "read"
    /\ UNCHANGED <<slots, headMsgs, prodVars, head, cachedTail, batch, tailSeen, knownWrites>>

\* A consumer that frees one slot per batch instead of the whole batch.
FreesOne == head + 1

\* The head after the batch.
BatchEnd == head + batch

\* pop_batch: free the whole batch with one release store of head.
PopPublish ==
    /\ cPc = "publish"
    /\ head' = BatchEnd
    /\ headMsgs' = headMsgs \cup {Msg(BatchEnd, Len(got))}
    /\ cPc' = "poll"
    /\ UNCHANGED <<slots, prodVars, cachedTail, batch, got, tailSeen, knownWrites>>

\* What a relaxed load of feed_done would establish: nothing.
DoneRelaxed == tailSeen

\* The tail an acquire load that returns feed_done = true makes visible.
DoneShows == tail

\* consumer_loop: after an empty batch, acquire feed_done.  The load may
\* still return the old value after the feed has ended.
CheckDone(d) ==
    /\ cPc = "empty"
    /\ d => feedDone
    /\ cPc' = IF d THEN "size" ELSE "poll"
    /\ IF d THEN /\ tailSeen' = DoneShows
                 /\ knownWrites' = Larger(knownWrites, DoneShows)
            ELSE UNCHANGED <<tailSeen, knownWrites>>
    /\ UNCHANGED <<slots, headMsgs, prodVars, head, cachedTail, batch, got>>

\* consumer_loop: size_approx() decides whether the loop ends.  The head it
\* also loads is this thread's own.
CheckSize ==
    /\ cPc = "size"
    /\ \E m \in tailMsgs :
         /\ LoadTail(m)
         /\ cPc' = IF Distance(m.val, head) = 0 THEN "exit" ELSE "poll"
    /\ UNCHANGED <<slots, headMsgs, prodVars, head, cachedTail, batch, got>>

-----------------------------------------------------------------------------
Push     == PushReload \/ PushWrite \/ PushPublish
Producer == PushCheck \/ Push \/ FeedEnds
Consumer == \/ PopCheck \/ PopReload \/ PopRead \/ PopPublish
            \/ \E d \in BOOLEAN : CheckDone(d)
            \/ CheckSize

\* Both threads have returned; main() joins and reports.
Finished == cPc = "exit" /\ UNCHANGED vars

Next == Producer \/ Consumer \/ Finished

\* A load that returns the newest value.
FreshReload == PopReload /\ tailSeen' = tail
FreshDone   == CheckDone(TRUE)

(***************************************************************************)
(* The scheduler runs both threads, and a store becomes visible to the     *)
(* other thread in finite time: a load repeated for ever does not return   *)
(* an old value for ever.  Nothing makes the exchange send another event   *)
(* or end the feed.                                                        *)
(***************************************************************************)
Fairness == /\ WF_vars(Push)
            /\ WF_vars(Consumer)
            /\ SF_vars(FreshReload)
            /\ SF_vars(FreshDone)

Spec == Init /\ [][Next]_vars /\ Fairness

-----------------------------------------------------------------------------
(* Correctness.                                                            *)

\* Types, and the range of each index: the ring never holds more than N
\* events, and a cached index never runs ahead of the one it copies.
TypeOK ==
    /\ slots \in [0 .. N - 1 -> Nat]
    /\ pPc \in {"idle", "reload", "write", "publish"}
    /\ cPc \in {"poll", "reload", "read", "publish", "empty", "size", "exit"}
    /\ head \in Nat /\ tail \in head .. head + N
    /\ cachedHead \in 0 .. head /\ cachedTail \in head .. tail
    /\ batch \in 0 .. MaxBatch /\ dropped \in Nat
    /\ accepted \in Seq(Nat) /\ got \in Seq(Nat)
    /\ feedDone \in BOOLEAN
    /\ tailMsgs \subseteq [val : Nat, view : Nat]
    /\ headMsgs \subseteq [val : Nat, view : Nat]
    /\ tailSeen \in Nat /\ written \in Nat /\ knownWrites \in Nat /\ knownReads \in Nat

\* try_push never overwrites a slot whose reads are not all known to the
\* feed thread, and pop_batch never reads a slot with a write not known to
\* the consumer thread, or one that no push has filled: the plain slots are
\* free of data races although each side works from a cached, possibly old
\* copy of the other's index.
NoSlotRace ==
    /\ pPc = "write" =>
         \A r \in knownReads .. Len(got) - 1 : SlotOf(r) # SlotOf(tail)
    /\ cPc = "read" =>
         /\ Len(got) < knownWrites
         /\ \A w \in knownWrites .. written - 1 : SlotOf(w) # SlotOf(Len(got))

\* The events handed to the strategy hook are the accepted ones, each once
\* and in the order of the pushes, however the indices wrap.
InOrder ==
    /\ Len(got) <= Len(accepted)
    /\ \A k \in 1 .. Len(got) : got[k] = accepted[k]

\* When consumer_loop leaves, every event offered was either handed over or
\* counted as dropped: the test of feed_done and of size_approx after an
\* empty batch loses nothing, also when the last push races with it.
DrainedAtExit ==
    cPc = "exit" => /\ feedDone
                    /\ Len(got) = Len(accepted)
                    /\ Len(got) + dropped = Offered

Fifo == INSTANCE EventFifo WITH
            Capacity <- N,
            queue    <- SubSeq(accepted, Len(got) + 1, Len(accepted)),
            received <- got,
            lost     <- dropped,
            ended    <- feedDone,
            stopped  <- (cPc = "exit")

\* The ring with its consumer loop implements the bounded lossy FIFO.
ImplementsFifo == Fifo!Spec

\* An accepted event is eventually handed to the strategy hook, whether or
\* not more events follow it.
EveryEventDelivered ==
    \A k \in 1 .. MaxEvents : (Len(accepted) >= k) ~> (Len(got) >= k)

\* Once the feed ends the consumer thread leaves its loop, so main() can join it.
ConsumerExits == feedDone ~> (cPc = "exit")
=============================================================================
