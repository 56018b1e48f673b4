------------------------ MODULE MoldSequencer_proofs ------------------------
(***************************************************************************)
(* Proofs about the sequencer and its receive loop, for any sessions,      *)
(* packet sizes and bounds, and for every order in which the network       *)
(* delivers packets.  What they say of one packet asks of the packet only  *)
(* IsPacket, so that the live path can use it (FeedHandler_proofs).        *)
(***************************************************************************)
EXTENDS MoldSequencer, FiniteSetTheorems, SequenceTheorems, TLAPS

\* What the invariant says of an epoch e whose expectation is n.
Tallied(e, n) ==
    /\ e \in Epoch
    /\ e.base \in 1 .. n
    /\ Delivered(e) \cup e.skipped = e.base .. n - 1
    /\ Delivered(e) \cap e.skipped = {}

Increasing(s) == \A i, j \in DOMAIN s : i < j => s[i] < s[j]

\* The types of what the sequencer itself keeps.
SeqTypeOK == /\ session \in Sessions \cup {NoSession}
             /\ next \in Nat
             /\ lost \in Nat
             /\ log \in Seq(Epoch)
             /\ (next = 0) <=> (log = <<>>)

\* The invariant of the sequencer: Accounted, with the base it starts from.
SeqInv == /\ SeqTypeOK
          /\ next # 0 => session = Latest.session /\ Tallied(Latest, next)
          /\ InOrder

\* The inductive invariant of the receive loop.
IInv == TypeOK /\ SeqInv

\* What is known of every packet: its header, and how many blocks are intact.
IsPacket(p, intact) ==
    p.session \in Sessions /\ p.sequence \in Nat /\ p.sequence >= 1 /\ intact \in Nat

-----------------------------------------------------------------------------
(* One packet.                                                             *)

\* The baseline, the gap and the fresh blocks of a packet fit together.
LEMMA PacketArithmetic ==
    ASSUME SeqTypeOK, NEW p, NEW intact, IsPacket(p, intact)
    PROVE  /\ Baseline(p) \in Nat \ {0}
           /\ Expected(p) \in Nat /\ Expected(p) >= Baseline(p)
           /\ Gap(p) = Baseline(p) .. Expected(p) - 1
           /\ Fresh(p, intact) \in Seq(Nat)
           /\ Len(Fresh(p, intact)) \in Nat
           /\ \A i \in 1 .. Len(Fresh(p, intact)) : Fresh(p, intact)[i] = Expected(p) + i - 1
           /\ Len(Fresh(p, intact)) # 0
                  => Expected(p) + Len(Fresh(p, intact)) = p.sequence + intact
<1>1. p.sequence \in Nat /\ p.sequence >= 1 /\ intact \in Nat
  BY DEF IsPacket
<1>2. next \in Nat
  BY DEF SeqTypeOK
<1>3. Baseline(p) \in Nat \ {0}
  BY <1>1, <1>2 DEF Baseline, Rebaselines
<1>4. Expected(p) \in Nat /\ Expected(p) >= Baseline(p) /\ Gap(p) = Baseline(p) .. Expected(p) - 1
  BY <1>1, <1>3 DEF Expected, Gap
<1> DEFINE k == (p.sequence + intact) - Expected(p)
<1>5. Fresh(p, intact) = [i \in 1 .. k |-> Expected(p) + i - 1]
  BY DEF Fresh
<1>6. k \in Int
  BY <1>1, <1>4
<1> HIDE DEF k
<1>7. PICK m \in Nat : 1 .. k = 1 .. m /\ (m = 0 \/ m = k)
  <2>1. CASE k >= 0
    BY <1>6, <2>1
  <2>2. CASE k < 0
    <3>1. 1 .. k = 1 .. 0
      BY <1>6, <2>2
    <3> QED BY <3>1
  <2> QED BY <1>6, <2>1, <2>2
<1>8. Fresh(p, intact) = [i \in 1 .. m |-> Expected(p) + i - 1]
  BY <1>5, <1>7
<1>9. \A i \in 1 .. m : Expected(p) + i - 1 \in Nat
  BY <1>4
<1>10. /\ Fresh(p, intact) \in Seq(Nat) /\ Len(Fresh(p, intact)) = m
       /\ \A i \in 1 .. m : Fresh(p, intact)[i] = Expected(p) + i - 1
  BY <1>8, <1>9, IsASeq, LenProperties
<1>11. m # 0 => Expected(p) + m = p.sequence + intact
  BY <1>1, <1>4, <1>7 DEF k
<1> QED BY <1>3, <1>4, <1>10, <1>11

\* The epoch the packet belongs to is tallied up to the packet's baseline.
LEMMA CurrentTallied ==
    ASSUME SeqInv, NEW p, p.session \in Sessions, p.sequence \in Nat, p.sequence >= 1
    PROVE  /\ Tallied(Current(p), Baseline(p))
           /\ Increasing(Current(p).got)
           /\ Current(p).session = p.session
<1>1. p.session \in Sessions /\ p.sequence \in Nat /\ p.sequence >= 1
  OBVIOUS
<1>2. CASE Rebaselines(p)
  <2> DEFINE c == Current(p)
  <2>1. c = [session |-> p.session, base |-> p.sequence, got |-> <<>>, skipped |-> {}]
    BY <1>2 DEF Current
  <2>2. Baseline(p) = p.sequence
    BY <1>2 DEF Baseline
  <2>3. /\ c \in Epoch /\ c.base = p.sequence /\ c.got = <<>> /\ c.skipped = {}
        /\ c.session = p.session
    BY <1>1, <2>1 DEF Epoch
  <2> HIDE DEF c
  <2>4. Delivered(c) = {} /\ Increasing(c.got)
    BY <2>3 DEF Delivered, Increasing
  <2>5. c.base .. Baseline(p) - 1 = {}
    BY <1>1, <2>2, <2>3
  <2>6. Tallied(c, Baseline(p))
    BY <1>1, <2>2, <2>3, <2>4, <2>5 DEF Tallied
  <2> QED BY <2>3, <2>4, <2>6 DEF c
<1>3. CASE ~Rebaselines(p)
  <2>1. next # 0 /\ p.session = session
    BY <1>3 DEF Rebaselines
  <2>2. Current(p) = Latest /\ Baseline(p) = next
    BY <1>3 DEF Current, Baseline, Latest
  <2>3. log \in Seq(Epoch) /\ log # <<>>
    BY <2>1 DEF SeqInv, SeqTypeOK
  <2>4. Len(log) \in DOMAIN log
    BY <2>3
  <2>5. Increasing(Latest.got)
    BY <2>4 DEF SeqInv, InOrder, Increasing, Latest
  <2> QED BY <2>1, <2>2, <2>5 DEF SeqInv
<1> QED BY <1>2, <1>3

\* g ends in a run of the k numbers from x on, after m others.
Run(g, m, k, x) ==
    /\ DOMAIN g = 1 .. m + k
    /\ \A i \in m + 1 .. m + k : g[i] = x + (i - m) - 1

\* The numbers of the run come after the others and in order.
LEMMA RunIncreases ==
    ASSUME NEW g, NEW m \in Nat, NEW k \in Nat, NEW x \in Nat, NEW b \in Nat, x >= b,
           Run(g, m, k, x),
           \A i \in 1 .. m : g[i] \in 0 .. b - 1,
           \A i, j \in 1 .. m : i < j => g[i] < g[j]
    PROVE  Increasing(g)
<1> USE DEF Run
<1> SUFFICES ASSUME NEW i \in 1 .. m + k, NEW j \in 1 .. m + k, i < j
             PROVE  g[i] < g[j]
  BY DEF Increasing
<1>1. CASE i \in 1 .. m /\ j \in 1 .. m
  BY <1>1
<1>2. CASE j \in m + 1 .. m + k
  <2>1. g[j] = x + (j - m) - 1 /\ g[j] >= x
    BY <1>2
  <2>2. CASE i \in 1 .. m
    <3>1. g[i] \in 0 .. b - 1
      BY <2>2
    <3> QED BY <2>1, <3>1
  <2>3. CASE i \in m + 1 .. m + k
    <3>1. g[i] = x + (i - m) - 1
      BY <2>3
    <3> QED BY <2>1, <3>1
  <2> QED BY <2>2, <2>3
<1> QED BY <1>1, <1>2

\* An epoch after a packet that jumps from b to x and delivers f.
Extended(c, f, b, x) == [c EXCEPT !.got = @ \o f, !.skipped = @ \cup (b .. x - 1)]

\* Jumping the gap and delivering the fresh blocks keeps an epoch tallied and
\* in order.
LEMMA StepTallied ==
    ASSUME NEW c, NEW b \in Nat, Tallied(c, b), Increasing(c.got), NEW x \in Nat, x >= b,
           NEW f \in Seq(Nat), \A i \in 1 .. Len(f) : f[i] = x + i - 1
    PROVE  /\ Tallied(Extended(c, f, b, x), x + Len(f))
           /\ Increasing(Extended(c, f, b, x).got)
           /\ Extended(c, f, b, x).session = c.session
           /\ Delivered(Extended(c, f, b, x)) = Delivered(c) \cup (x .. (x + Len(f)) - 1)
<1>0. PICK e : e = Extended(c, f, b, x)
  OBVIOUS
<1>1. /\ c \in Epoch /\ c.got \in Seq(Nat) /\ c.skipped \in SUBSET Nat /\ c.base \in 1 .. b
      /\ Delivered(c) \cup c.skipped = c.base .. b - 1
      /\ Delivered(c) \cap c.skipped = {}
  BY DEF Tallied, Epoch
<1>2. /\ e.got = c.got \o f /\ e.skipped = c.skipped \cup (b .. x - 1)
      /\ e.base = c.base /\ e.session = c.session
  BY <1>0, <1>1 DEF Epoch, Extended
<1>3. PICK m \in Nat, k \in Nat : m = Len(c.got) /\ k = Len(f)
  BY <1>1, LenProperties
<1>4. /\ e.got \in Seq(Nat)
      /\ DOMAIN e.got = 1 .. m + k
      /\ DOMAIN c.got = 1 .. m
      /\ \A i \in 1 .. m : e.got[i] = c.got[i]
      /\ \A i \in m + 1 .. m + k : e.got[i] = x + (i - m) - 1
  <2>1. PICK s \in Seq(Nat) : s = c.got
    BY <1>1
  <2>2. PICK g : g = s \o f
    OBVIOUS
  <2>3. /\ g \in Seq(Nat) /\ Len(g) = m + k
        /\ \A i \in 1 .. m + k : g[i] = IF i <= m THEN s[i] ELSE f[i - m]
    BY <1>3, <2>1, <2>2, ConcatProperties
  <2>4. DOMAIN g = 1 .. m + k /\ DOMAIN s = 1 .. m
    BY <1>3, <2>1, <2>3, LenProperties
  <2>5. \A i \in 1 .. m : g[i] = s[i]
    BY <2>3
  <2>6. ASSUME NEW i \in m + 1 .. m + k PROVE g[i] = x + (i - m) - 1
    <3>1. g[i] = f[i - m] /\ i - m \in 1 .. k
      BY <2>3
    <3> QED BY <1>3, <3>1
  <2> QED BY <1>2, <2>1, <2>2, <2>3, <2>4, <2>5, <2>6
<1>5. e \in Epoch
  <2>1. e = [session |-> e.session, base |-> e.base, got |-> e.got, skipped |-> e.skipped]
    BY <1>0, <1>1 DEF Epoch, Extended
  <2>2. e.skipped \in SUBSET Nat
    BY <1>1, <1>2
  <2> QED BY <1>1, <1>2, <1>4, <2>1, <2>2 DEF Epoch
<1>6. \A i \in 1 .. m : c.got[i] \in c.base .. b - 1
  BY <1>1, <1>4 DEF Delivered
<1>7. Delivered(e) = Delivered(c) \cup (x .. (x + k) - 1)
  <2>1. PICK g : g = e.got
    OBVIOUS
  <2>2. DOMAIN g = 1 .. m + k /\ \A i \in m + 1 .. m + k : g[i] = x + (i - m) - 1
    BY <1>4, <2>1
  <2>3. /\ \A i \in 1 .. m + k : i \in 1 .. m \/ g[i] \in x .. (x + k) - 1
        /\ \A n \in x .. (x + k) - 1 : \E i \in 1 .. m + k : g[i] = n
    <3>1. ASSUME NEW i \in 1 .. m + k
          PROVE  i \in 1 .. m \/ g[i] \in x .. (x + k) - 1
      <4>1. CASE i \in 1 .. m
        BY <4>1
      <4>2. CASE i \in m + 1 .. m + k
        <5>1. PICK n \in Int : n = i - m
          BY <4>2
        <5>2. g[i] = x + n - 1 /\ 1 <= n /\ n <= k
          BY <2>2, <4>2, <5>1
        <5>3. x + n - 1 \in x .. (x + k) - 1
          BY <5>2
        <5> QED BY <5>2, <5>3
      <4> QED BY <4>1, <4>2
    <3>2. ASSUME NEW n \in x .. (x + k) - 1
          PROVE  \E i \in 1 .. m + k : g[i] = n
      <4>1. PICK i \in m + 1 .. m + k : n = x + (i - m) - 1
        <5>1. m + (n - x) + 1 \in m + 1 .. m + k /\ n = x + ((m + (n - x) + 1) - m) - 1
          OBVIOUS
        <5> QED BY <5>1
      <4>2. i \in 1 .. m + k /\ g[i] = n
        BY <2>2, <4>1
      <4> QED BY <4>2
    <3> QED BY ONLY <3>1, <3>2
  <2>4. Delivered(e) = {g[i] : i \in 1 .. m + k}
    BY <2>1, <2>2 DEF Delivered
  <2>5. Delivered(c) = {g[i] : i \in 1 .. m}
    BY <1>4, <2>1 DEF Delivered
  <2>6. \A i \in 1 .. m : i \in 1 .. m + k
    OBVIOUS
  <2> QED BY ONLY <2>3, <2>4, <2>5, <2>6
<1>8. Increasing(e.got)
  <2>1. \A i, j \in 1 .. m : i < j => e.got[i] < e.got[j]
    BY <1>4 DEF Increasing
  <2>2. \A i \in 1 .. m : e.got[i] \in 0 .. b - 1
    <3>1. c.base \in Nat /\ \A n \in c.base .. b - 1 : n \in 0 .. b - 1
      BY <1>1
    <3> QED BY <1>4, <1>6, <3>1
  <2>3. Run(e.got, m, k, x) /\ x \in Nat /\ b \in Nat /\ x >= b
    BY <1>1, <1>4 DEF Run
  <2> QED BY <2>1, <2>2, <2>3, RunIncreases
<1>9. Delivered(e) \cup e.skipped = e.base .. (x + k) - 1
  BY <1>1, <1>2, <1>7
<1>10. Delivered(e) \cap e.skipped = {}
  BY <1>1, <1>2, <1>7
<1>11. e.base \in 1 .. x + k
  BY <1>1, <1>2
<1> QED BY <1>0, <1>2, <1>3, <1>5, <1>7, <1>8, <1>9, <1>10, <1>11 DEF Tallied

\* Handling a packet keeps the invariant, and next_ grows within a session.
LEMMA PacketKeeps ==
    ASSUME SeqInv, NEW p, NEW intact, IsPacket(p, intact), OnPacket(p, intact)
    PROVE  SeqInv' /\ (session' = session => next' >= next)
<1> DEFINE c == Current(p)
           b == Baseline(p)
           x == Expected(p)
           f == Fresh(p, intact)
           e == [c EXCEPT !.got = @ \o f, !.skipped = @ \cup Gap(p)]
<1>1. SeqTypeOK
  BY DEF SeqInv
<1>2. /\ b \in Nat \ {0} /\ x \in Nat /\ x >= b /\ Gap(p) = b .. x - 1
      /\ f \in Seq(Nat) /\ Len(f) \in Nat
      /\ \A i \in 1 .. Len(f) : f[i] = x + i - 1
  BY <1>1, PacketArithmetic
<1>3. Tallied(c, b) /\ Increasing(c.got) /\ c.session = p.session
  <2>1. p.session \in Sessions /\ p.sequence \in Nat /\ p.sequence >= 1
    BY DEF IsPacket
  <2> QED BY <2>1, CurrentTallied
<1>4. /\ session' = p.session /\ next' = x + Len(f) /\ lost' = lost + Cardinality(Gap(p))
      /\ log' = Append(Earlier(p), e)
  BY DEF OnPacket
<1>5. Cardinality(Gap(p)) \in Nat
  <2>1. IsFiniteSet(b .. x - 1)
    BY <1>2, FS_Interval
  <2> QED BY <1>2, <2>1, FS_CardinalityType
<1>6. p.session \in Sessions
  BY DEF IsPacket
<1>7. Earlier(p) \in Seq(Epoch) /\ \A n \in DOMAIN Earlier(p) : n \in DOMAIN log /\ Earlier(p)[n] = log[n]
  <2>1. CASE Rebaselines(p)
    BY <1>1, <2>1 DEF Earlier, SeqTypeOK
  <2>2. CASE ~Rebaselines(p)
    <3>1. log \in Seq(Epoch) /\ log # <<>>
      BY <1>1, <2>2 DEF SeqTypeOK, Rebaselines
    <3>2. PICK k \in Nat : Len(log) = k + 1
      BY <3>1, EmptySeq
    <3>3. Earlier(p) = SubSeq(log, 1, k)
      BY <2>2, <3>2 DEF Earlier
    <3>4. DOMAIN log = 1 .. k + 1 /\ \A n \in 1 .. k : log[n] \in Epoch
      BY <3>1, <3>2
    <3>5. /\ SubSeq(log, 1, k) \in Seq(Epoch) /\ Len(SubSeq(log, 1, k)) = k
          /\ \A n \in 1 .. k : SubSeq(log, 1, k)[n] = log[n]
      BY <3>1, <3>2
    <3>6. DOMAIN SubSeq(log, 1, k) = 1 .. k
      BY <3>5
    <3> QED BY <3>3, <3>4, <3>5, <3>6
  <2> QED BY <2>1, <2>2
<1> HIDE DEF c, b, x, f, e
<1>8. Tallied(e, x + Len(f)) /\ Increasing(e.got) /\ e.session = c.session
  <2>1. e = Extended(c, f, b, x)
    BY <1>2 DEF e, Extended
  <2>2. b \in Nat /\ x \in Nat /\ x >= b
    BY <1>2
  <2>3. f \in Seq(Nat) /\ \A i \in 1 .. Len(f) : f[i] = x + i - 1
    BY <1>2
  <2> QED BY <1>3, <2>1, <2>2, <2>3, StepTallied
<1>9. e \in Epoch
  BY <1>8 DEF Tallied
<1>10. PICK s \in Seq(Epoch) : s = Earlier(p)
  BY <1>7
<1>11. /\ log' \in Seq(Epoch) /\ log' # <<>> /\ Len(log') = Len(s) + 1
       /\ \A n \in 1 .. Len(s) : log'[n] = s[n]
       /\ log'[Len(s) + 1] = e
  BY <1>4, <1>9, <1>10, AppendProperties
<1>12. Latest' = e
  BY <1>11 DEF Latest
<1>13. InOrder'
  <2> SUFFICES ASSUME NEW n \in DOMAIN log' PROVE Increasing(log'[n].got)
    BY DEF InOrder, Increasing
  <2>1. DOMAIN log' = 1 .. Len(s) + 1 /\ DOMAIN s = 1 .. Len(s) /\ Len(s) \in Nat
    BY <1>11
  <2>2. CASE n \in 1 .. Len(s)
    <3>1. n \in DOMAIN log /\ log'[n] = log[n]
      BY <1>7, <1>10, <1>11, <2>1, <2>2
    <3> QED BY <3>1 DEF SeqInv, InOrder, Increasing
  <2>3. CASE n = Len(s) + 1
    BY <1>8, <1>11, <2>3
  <2> QED BY <2>1, <2>2, <2>3
<1>14. session' = session => next' >= next
  <2>1. ~Rebaselines(p) => b = next
    BY DEF Baseline, b
  <2>2. session' = session /\ Rebaselines(p) => next = 0
    BY <1>4 DEF Rebaselines
  <2> QED BY <1>1, <1>2, <1>4, <2>1, <2>2 DEF SeqTypeOK
<1>15. next' \in Nat \ {0} /\ lost' \in Nat
  BY <1>1, <1>2, <1>4, <1>5 DEF SeqTypeOK
<1>16. log' \in Seq(Epoch) /\ log' # <<>> /\ Tallied(Latest', next') /\ session' = Latest'.session
  BY <1>3, <1>4, <1>8, <1>11, <1>12
<1>17. SeqTypeOK'
  BY <1>4, <1>6, <1>15, <1>16 DEF SeqTypeOK
<1> QED BY <1>13, <1>14, <1>16, <1>17 DEF SeqInv

\* A step that leaves the sequencer alone keeps its part of the invariant.
LEMMA IdleKeeps ==
    ASSUME SeqInv, UNCHANGED <<session, next, lost, log>>
    PROVE  SeqInv' /\ next' >= next
BY DEF SeqInv, SeqTypeOK, InOrder, Latest

-----------------------------------------------------------------------------
(* The receive loop.                                                       *)

\* A step of the sequencer's variables that the two lemmas above describe.
Step == /\ IInv'
        /\ session' = session => next' >= next

\* Every step keeps the invariant and never moves next_ back.
LEMMA StepKeeps == IInv /\ [Next]_vars => Step
<1> SUFFICES ASSUME IInv, [Next]_vars PROVE Step
  OBVIOUS
<1>1. TypeOK /\ SeqInv /\ MaxBatch \in Nat /\ LastSeq \in Nat
  BY MoldAssumption DEF IInv
<1>2. ASSUME SeqInv', session' = session => next' >= next, running' \in BOOLEAN,
             left' \in 0 .. MaxBatch, eos' \subseteq EndPackets
      PROVE  Step
  <2>1. TypeOK'
    BY <1>2 DEF TypeOK, SeqInv, SeqTypeOK
  <2> QED BY <1>2, <2>1 DEF Step, IInv
<1>3. ASSUME UNCHANGED seqVars, running' \in BOOLEAN, left' \in 0 .. MaxBatch,
             eos' \subseteq EndPackets
      PROVE  Step
  <2>1. SeqInv' /\ next' >= next
    BY <1>1, <1>3, IdleKeeps DEF seqVars
  <2> QED BY <1>2, <1>3, <2>1
<1>4. ASSUME NEW n \in 1 .. MaxBatch, Poll(n) PROVE Step
  BY <1>1, <1>3, <1>4 DEF Poll, TypeOK
<1>5. ASSUME NEW p \in Packets, NEW intact \in 0 .. p.count, Receive(p, intact)
      PROVE  Step
  <2>1. OnPacket(p, intact)
    BY <1>5 DEF Receive
  <2>2. IsPacket(p, intact)
    BY <1>1 DEF Packets, IsPacket
  <2>3. SeqInv' /\ (session' = session => next' >= next)
    BY <1>1, <2>1, <2>2, PacketKeeps
  <2>4. left' \in 0 .. MaxBatch /\ running' = running /\ eos' = eos
    BY <1>1, <1>5 DEF Receive, TypeOK
  <2> QED BY <1>1, <1>2, <2>3, <2>4 DEF TypeOK
<1>6. ASSUME NEW p \in EndPackets, ReceiveEnd(p) PROVE Step
  <2>1. /\ UNCHANGED seqVars /\ running' = FALSE
        /\ left' = left - 1 /\ eos' = eos \cup {p} /\ left > 0
    BY <1>6 DEF ReceiveEnd
  <2>2. left' \in 0 .. MaxBatch /\ eos' \subseteq EndPackets
    BY <1>1, <2>1 DEF TypeOK
  <2> QED BY <1>3, <2>1, <2>2
<1>7. CASE Interrupt
  BY <1>1, <1>3, <1>7 DEF Interrupt, TypeOK
<1>8. CASE UNCHANGED vars
  BY <1>1, <1>3, <1>8 DEF vars, seqVars, TypeOK
<1> QED BY <1>4, <1>5, <1>6, <1>7, <1>8 DEF Next, HandlePacket, Finished

\* The invariant holds from the first packet on.
THEOREM Invariant == Spec => []IInv
<1>1. Init => IInv
  BY MoldAssumption DEF Init, IInv, TypeOK, SeqInv, SeqTypeOK, InOrder
<1>2. IInv /\ [Next]_vars => IInv'
  BY StepKeeps DEF Step
<1> QED BY <1>1, <1>2, PTL DEF Spec

\* Every variable keeps its type.
THEOREM TypeCorrect == Spec => []TypeOK
<1>1. IInv => TypeOK
  BY DEF IInv
<1> QED BY <1>1, Invariant, PTL

\* Every number since the baseline is delivered or reported lost, never both,
\* however packets are lost, copied, reordered or cut.
THEOREM NothingForgotten == Spec => []Accounted
<1>1. IInv => Accounted
  BY DEF IInv, SeqInv, Accounted, Tallied
<1> QED BY <1>1, Invariant, PTL

\* Messages are delivered in order and at most once between two baselines.
THEOREM OrderedDelivery == Spec => []InOrder
<1>1. IInv => InOrder
  BY DEF IInv, SeqInv
<1> QED BY <1>1, Invariant, PTL

\* next_ never goes back while the session stays the same.
THEOREM NoStepBack == Spec => NeverBack
<1>1. IInv /\ [Next]_vars => [session' = session => next' >= next]_vars
  BY StepKeeps DEF Step
<1> QED BY <1>1, Invariant, PTL DEF Spec, NeverBack
=============================================================================
