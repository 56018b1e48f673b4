------------------------------ MODULE BboCache ------------------------------
(***************************************************************************)
(* One entry of the BBO cache (include/itch/bbo_cache.hpp): a seqlock that *)
(* the feed thread writes and other threads read without locks.            *)
(*                                                                         *)
(* Its correctness lies in two fences and two memory orders, so memory     *)
(* follows the C++11 rules for relaxed, acquire and release accesses.  A   *)
(* location is the sequence of its messages, in modification order.  A     *)
(* thread has a view: for each location, the oldest message it may still   *)
(* load.  A message carries the view its store releases: the view of the   *)
(* thread for a release store, and the view at the last release fence for  *)
(* a relaxed one.  An acquire load takes over the view of the message; a   *)
(* relaxed load does so only at the next acquire fence.                    *)
(***************************************************************************)
EXTENDS Integers, Sequences

CONSTANTS Fields,     \* prices_, bid_qty_, ask_qty_ and ts_
          Readers,    \* reading threads
          Seq0,       \* the location seq_
          MaxWrites   \* stores made to the entry

ASSUME CacheAssumption == Seq0 \notin Fields /\ MaxWrites \in Nat

VARIABLES
    mem,        \* messages of each location
    \* the writer: the n-th store writes n into every field
    wPc,        \* where store() stands
    wSeq,       \* seq, as store() loaded it
    wTodo,      \* fields the current store() has still to write
    wView,      \* view of the writer
    wFence,     \* view of the writer at its last release fence
    \* the readers
    rPc,        \* where load() stands
    rView,      \* view of each reader
    rAcquire,   \* what the next acquire fence adds to it
    s1,         \* s1 of the current try_load
    fetched,    \* fields read so far, with their values
    snap,       \* snapshot the last load() returned
    known       \* completed writes the reader knows of

writerVars == <<wPc, wSeq, wTodo, wView, wFence>>
readerVars == <<rPc, rView, rAcquire, s1, fetched, snap, known>>
vars == <<mem, writerVars, readerVars>>

Locs  == Fields \cup {Seq0}
Views == [Locs -> Nat]
Start == [l \in Locs |-> 1]

Join(v, w) == [l \in Locs |-> IF v[l] >= w[l] THEN v[l] ELSE w[l]]

Messages == [val : Nat, view : Views]

Init == /\ mem = [l \in Locs |-> <<[val |-> 0, view |-> Start]>>]
        /\ wPc = "idle" /\ wSeq = 0 /\ wTodo = {}
        /\ wView = Start /\ wFence = Start
        /\ rPc = [r \in Readers |-> "returned"]
        /\ rView = [r \in Readers |-> Start]
        /\ rAcquire = [r \in Readers |-> Start]
        /\ s1 = [r \in Readers |-> 0]
        /\ fetched = [r \in Readers |-> [f \in Fields |-> -1]]
        /\ snap = [r \in Readers |-> [f \in Fields |-> 0]]
        /\ known = [r \in Readers |-> 0]

-----------------------------------------------------------------------------
(* store()                                                                 *)

\* The writer's view once it has appended a message to l.
Own(l) == [wView EXCEPT ![l] = Len(mem[l]) + 1]

\* A store of val to l, whose message carries view v.
Append1(l, val, v) ==
    /\ mem' = [mem EXCEPT ![l] = Append(@, [val |-> val, view |-> v])]
    /\ wView' = Own(l)

\* The first store, seq + 1, is relaxed: it carries the last fence's view.
StoreOdd ==
    /\ wPc = "idle" /\ wSeq < 2 * MaxWrites
    /\ Append1(Seq0, wSeq + 1, [wFence EXCEPT ![Seq0] = Len(mem[Seq0]) + 1])
    /\ wPc' = "fence"
    /\ UNCHANGED <<wSeq, wTodo, wFence, readerVars>>

\* A writer without the fence releases nothing with its field stores.
NoReleaseFence == wFence

\* What the release fence releases with the stores that follow it.
ReleaseFence == wView

Fence ==
    /\ wPc = "fence"
    /\ wFence' = ReleaseFence
    /\ wTodo' = Fields
    /\ wPc' = "fields"
    /\ UNCHANGED <<mem, wSeq, wView, readerVars>>

\* The fields are stored relaxed, so in no particular order.
StoreField(f) ==
    /\ wPc = "fields" /\ f \in wTodo
    /\ Append1(f, (wSeq \div 2) + 1, [wFence EXCEPT ![f] = Len(mem[f]) + 1])
    /\ wTodo' = wTodo \ {f}
    /\ UNCHANGED <<wPc, wSeq, wFence, readerVars>>

Even == wSeq + 2

\* The last store, seq + 2, is a release store.
StoreEven ==
    /\ wPc = "fields" /\ wTodo = {}
    /\ Append1(Seq0, Even, Own(Seq0))
    /\ wSeq' = Even
    /\ wPc' = "idle"
    /\ UNCHANGED <<wTodo, wFence, readerVars>>

-----------------------------------------------------------------------------
(* load() and version()                                                    *)

\* Messages of location l that reader r may load.
Visible(r, l) == rView[r][l] .. Len(mem[l])

\* The caller asks for a snapshot.
BeginLoad(r) ==
    /\ rPc[r] = "returned"
    /\ rPc' = [rPc EXCEPT ![r] = "seq"]
    /\ UNCHANGED <<mem, writerVars, rView, rAcquire, s1, fetched, snap, known>>

\* An acquire load of seq_ that returns its i-th message.
AcquireSeq(r, i) ==
    /\ i \in Visible(r, Seq0)
    /\ rView' = [rView EXCEPT ![r] = Join(@, Join(mem[Seq0][i].view,
                                                   [Start EXCEPT ![Seq0] = i]))]

\* A parity test the wrong way round.
EvenBusy(s) == s % 2 = 0

\* An odd number says that a write is in progress.
Busy(s) == s % 2 = 1

\* try_load: the first load of seq_.  If a write is in progress, load() retries.
LoadSeq(r) ==
    /\ rPc[r] = "seq"
    /\ \E i \in Visible(r, Seq0) :
         /\ AcquireSeq(r, i)
         /\ s1' = [s1 EXCEPT ![r] = mem[Seq0][i].val]
         /\ rPc' = [rPc EXCEPT ![r] = IF Busy(mem[Seq0][i].val) THEN "seq" ELSE "fields"]
    /\ fetched' = [fetched EXCEPT ![r] = [f \in Fields |-> -1]]
    /\ UNCHANGED <<mem, writerVars, rAcquire, snap, known>>

\* try_load: a relaxed load of one field.
LoadField(r, f) ==
    /\ rPc[r] = "fields" /\ fetched[r][f] = -1
    /\ \E i \in Visible(r, f) :
         /\ rView' = [rView EXCEPT ![r][f] = i]
         /\ rAcquire' = [rAcquire EXCEPT ![r] = Join(@, mem[f][i].view)]
         /\ fetched' = [fetched EXCEPT ![r][f] = mem[f][i].val]
    /\ UNCHANGED <<mem, writerVars, rPc, s1, snap, known>>

\* A reader without the fence learns nothing from its relaxed loads.
NoAcquireFence(r) == rView[r]

\* The acquire fence adds what the relaxed loads have seen.
AcquireFence(r) == Join(rView[r], rAcquire[r])

FenceReads(r) ==
    /\ rPc[r] = "fields" /\ \A f \in Fields : fetched[r][f] # -1
    /\ rView' = [rView EXCEPT ![r] = AcquireFence(r)]
    /\ rPc' = [rPc EXCEPT ![r] = "check"]
    /\ UNCHANGED <<mem, writerVars, rAcquire, s1, fetched, snap, known>>

\* try_load: the second, relaxed load of seq_ decides; load() retries on a change.
Check(r) ==
    /\ rPc[r] = "check"
    /\ \E i \in Visible(r, Seq0) :
         /\ rView' = [rView EXCEPT ![r][Seq0] = i]
         /\ rAcquire' = [rAcquire EXCEPT ![r] = Join(@, mem[Seq0][i].view)]
         /\ IF mem[Seq0][i].val = s1[r]
              THEN /\ rPc' = [rPc EXCEPT ![r] = "returned"]
                   /\ snap' = [snap EXCEPT ![r] = fetched[r]]
                   /\ known' = [known EXCEPT ![r] = s1[r] \div 2]
              ELSE /\ rPc' = [rPc EXCEPT ![r] = "seq"]
                   /\ UNCHANGED <<snap, known>>
    /\ UNCHANGED <<mem, writerVars, s1, fetched>>

\* version(): the number of completed writes.
Version(r) ==
    /\ rPc[r] = "returned"
    /\ \E i \in Visible(r, Seq0) :
         /\ AcquireSeq(r, i)
         /\ known' = [known EXCEPT ![r] = mem[Seq0][i].val \div 2]
    /\ UNCHANGED <<mem, writerVars, rPc, rAcquire, s1, fetched, snap>>

-----------------------------------------------------------------------------
InStore == Fence \/ (\E f \in Fields : StoreField(f)) \/ StoreEven

TryLoad(r) == \/ LoadSeq(r)
              \/ \E f \in Fields : LoadField(r, f)
              \/ FenceReads(r)
              \/ Check(r)

Next == \/ StoreOdd \/ InStore
        \/ \E r \in Readers : BeginLoad(r) \/ TryLoad(r) \/ Version(r)

\* A first load of seq_ that returns its newest message.
FreshLoadSeq(r) == LoadSeq(r) /\ rView'[r][Seq0] = Len(mem[Seq0])

(***************************************************************************)
(* A store() that has begun runs to its end, a load() keeps trying, and a  *)
(* loop of loads does not return an old message for ever.                  *)
(***************************************************************************)
Fairness == /\ WF_vars(InStore)
            /\ \A r \in Readers : WF_vars(TryLoad(r)) /\ SF_vars(FreshLoadSeq(r))

Spec == Init /\ [][Next]_vars /\ Fairness

-----------------------------------------------------------------------------
(* Correctness.                                                            *)

\* Types; and between two calls of store() the number of the entry is even.
TypeOK ==
    /\ mem \in [Locs -> Seq(Messages)]
    /\ wPc \in {"idle", "fence", "fields"}
    /\ wSeq \in Nat /\ wSeq % 2 = 0
    /\ wTodo \subseteq Fields
    /\ wView \in Views /\ wFence \in Views
    /\ rPc \in [Readers -> {"returned", "seq", "fields", "check"}]
    /\ rView \in [Readers -> Views] /\ rAcquire \in [Readers -> Views]
    /\ s1 \in [Readers -> Nat]
    /\ fetched \in [Readers -> [Fields -> Nat \cup {-1}]]
    /\ snap \in [Readers -> [Fields -> Nat]]
    /\ known \in [Readers -> Nat]

\* load() never returns a torn snapshot: all its fields come from one store(),
\* and that one was complete, whatever old messages the relaxed loads returned.
NoTornSnapshot ==
    \A r \in Readers : \E n \in 0 .. known[r] :
        2 * n <= wSeq /\ \A f \in Fields : snap[r][f] = n

Register == INSTANCE SnapshotRegister WITH published <- wSeq \div 2

\* The entry is a register of whole snapshots, and no reader's snapshot goes
\* back behind one it has loaded or counted with version().
ImplementsRegister == Register!Spec

\* Once the writer stays quiet, every load() that has begun returns.
LoadReturns ==
    \A r \in Readers :
        <>[](wPc = "idle") => ((rPc[r] = "seq") ~> (rPc[r] = "returned"))
=============================================================================
