----------------------------- MODULE XdpReceiver -----------------------------
(***************************************************************************)
(* The AF_XDP receiver (src/net/xdp_receiver.cpp): open() acquires what a  *)
(* socket needs step by step, and each step may fail; poll() returns the   *)
(* frames of the previous poll to the kernel through the fill ring and     *)
(* takes received frames from the rx ring; close() releases what open()    *)
(* acquired, also after a failure.                                         *)
(*                                                                         *)
(* The kernel works at the same time, and is modelled from what poll()     *)
(* relies on: it takes frames from the fill ring as far as it has read the *)
(* ring's producer index, publishes its consumer index at the latest when  *)
(* it reads the producer index again, and puts a frame that holds a packet *)
(* of the flow into the rx ring.  A slot of the fill ring is free for the  *)
(* receiver only when the consumer index has passed it.                    *)
(***************************************************************************)
EXTENDS UdpFrames, SequencesExt

CONSTANTS NumFrames,   \* frames of the UMEM, a power of two
          RxSize,      \* slots of the rx ring
          Batch,       \* kBatch
          Wire,        \* frames that may arrive at the interface
          NoFrame      \* before the first

ASSUME XdpAssumption == /\ NumFrames \in Nat /\ NumFrames > 0
                        /\ RxSize \in Nat /\ RxSize > 0
                        /\ Batch \in Nat /\ Batch > 0

ASSUME WireAssumption == \A w \in Wire : /\ {w.len, w.ihl, w.total, w.udp_len} \subseteq Nat
                                        /\ {w.tagged, w.fragment} \subseteq BOOLEAN

VARIABLES pc,        \* where the thread of the receiver stands
          held,      \* what open() has acquired and close() has not released
          fill,      \* frames between the published indices of the fill ring
          taken,     \* of those, the ones the kernel has taken
          window,    \* of those, the ones below the producer index it has read
          kernel,    \* frames the kernel has taken to receive into
          rx,        \* entries of the rx ring: a frame, and whether it parses
          pending,   \* frames handed out by the last poll()
          packets,   \* frames of the packets of the last poll()
          starved,   \* stats().fill_starve is not zero
          seen       \* the last frame the XDP program saw, and its verdict

ringVars == <<fill, taken, window, kernel, rx>>
pollVars == <<pending, packets, starved>>
vars == <<pc, held, ringVars, pollVars, seen>>

Frames == 0 .. NumFrames - 1

\* The steps of open(), in order.  All but "fill" acquire something.
Steps == <<"obj", "area", "umem", "xsk", "fill", "attached", "member">>

Resources == ToSet(Steps) \ {"fill"}

\* The BPF program is detached last.
DetachesLast == <<"member", "xsk", "umem", "area", "attached", "obj">>

\* The socket that holds the membership is never closed.
LeavesMember == <<"attached", "xsk", "umem", "area", "obj">>

\* What close() releases, in order.
CloseOrder == <<"attached", "member", "xsk", "umem", "area", "obj">>

\* A fill ring with one slot for each frame.
OneSlotPerFrame == NumFrames

\* Twice the frame count.
FillSize == 2 * NumFrames

NoRings == fill = <<>> /\ taken = 0 /\ window = 0 /\ kernel = {} /\ rx = <<>>

Init == /\ pc = "closed"
        /\ held = {}
        /\ NoRings
        /\ pending = <<>>
        /\ packets = {}
        /\ starved = FALSE
        /\ seen = [frame |-> NoFrame, redirected |-> FALSE]

-----------------------------------------------------------------------------
(* open()                                                                  *)

Open ==
    /\ pc = "closed"
    /\ pc' = Steps[1]
    /\ UNCHANGED <<held, ringVars, pollVars, seen>>

\* One step of open() succeeds: the next one follows, and after the last the
\* receiver is ready to poll.
Goes(step) ==
    \E k \in DOMAIN Steps :
        /\ pc = step /\ step = Steps[k]
        /\ pc' = IF k = Len(Steps) THEN "return" ELSE Steps[k + 1]

Acquire(r) ==
    /\ Goes(r)
    /\ held' = held \cup {r}
    /\ UNCHANGED <<ringVars, pollVars, seen>>

\* Hand every frame to the kernel, if the fill ring has the room.
FillRing ==
    /\ NumFrames <= FillSize
    /\ Goes("fill")
    /\ fill' = [i \in 1 .. NumFrames |-> i - 1]
    /\ UNCHANGED <<held, taken, window, kernel, rx, pollVars, seen>>

\* No group to join.
NoGroup ==
    /\ Goes("member")
    /\ UNCHANGED <<held, ringVars, pollVars, seen>>

\* A step fails and open() returns the error; what it has acquired it keeps.
\* The membership fails with or without its socket.
OpenFails ==
    /\ pc \in ToSet(Steps)
    /\ pc' = "failed"
    /\ held' \in {held} \cup {held \cup {r} : r \in {pc} \cap {"member"}}
    /\ UNCHANGED <<ringVars, pollVars, seen>>

-----------------------------------------------------------------------------
(* close(), called by open() and by the destructor                         *)

\* After a failure, or when the loop ends: before its first poll or between two.
CloseBegin ==
    /\ pc \in {"failed", "return", "use"}
    /\ pc' = "close"
    /\ UNCHANGED <<held, ringVars, pollVars, seen>>

\* Release the first in order of what is held.  The rings go with the socket.
Release ==
    /\ pc = "close"
    /\ \E k \in DOMAIN CloseOrder :
           /\ CloseOrder[k] \in held
           /\ \A j \in 1 .. k - 1 : CloseOrder[j] \notin held
           /\ held' = held \ {CloseOrder[k]}
           /\ IF CloseOrder[k] = "xsk"
              THEN fill' = <<>> /\ taken' = 0 /\ window' = 0 /\ kernel' = {} /\ rx' = <<>>
              ELSE UNCHANGED ringVars
    /\ UNCHANGED <<pc, pollVars, seen>>

CloseEnd ==
    /\ pc = "close"
    /\ ToSet(CloseOrder) \cap held = {}
    /\ pc' = "closed"
    /\ pending' = <<>>
    /\ packets' = {}
    /\ UNCHANGED <<held, ringVars, starved, seen>>

-----------------------------------------------------------------------------
(* poll()                                                                  *)

\* Return the frames of the last poll; without room for all of them keep them,
\* count a starvation and report no packets.
Return ==
    /\ pc = "return"
    /\ packets' = {}
    /\ IF Len(pending) <= FillSize - Len(fill)
       THEN /\ fill' = fill \o pending
            /\ pending' = <<>>
            /\ pc' = "receive"
            /\ UNCHANGED starved
       ELSE /\ starved' = TRUE
            /\ pc' = "use"
            /\ UNCHANGED <<fill, pending>>
    /\ UNCHANGED <<held, taken, window, kernel, rx, seen>>

\* The frames of received entries, by their own address.
FramesOf(entries) == [i \in DOMAIN entries |-> entries[i].frame]

Parsed(entries) == {e.frame : e \in {f \in ToSet(entries) : f.udp}}

\* A poll that forgets the frames that do not parse.
ReceiveKeepsParsed ==
    /\ pc = "receive"
    /\ pc' = "use"
    /\ \E n \in 0 .. Batch :
           /\ n <= Len(rx)
           /\ n = 0 => rx = <<>>
           /\ pending' = FramesOf(SelectSeq(SubSeq(rx, 1, n), LAMBDA e : e.udp))
           /\ packets' = Parsed(SubSeq(rx, 1, n))
           /\ rx' = SubSeq(rx, n + 1, Len(rx))
    /\ UNCHANGED <<held, fill, taken, window, kernel, starved, seen>>

\* A poll that returns the frames it receives at once.
ReceiveReturns ==
    /\ pc = "receive"
    /\ pc' = "use"
    /\ \E n \in 0 .. Batch :
           /\ n <= Len(rx)
           /\ n = 0 => rx = <<>>
           /\ fill' = fill \o FramesOf(SubSeq(rx, 1, n))
           /\ packets' = Parsed(SubSeq(rx, 1, n))
           /\ rx' = SubSeq(rx, n + 1, Len(rx))
    /\ UNCHANGED <<held, taken, window, kernel, pending, starved, seen>>

\* Take up to a batch of received frames.  A peek returns none only when there
\* are none; when the receiver has read an older producer index it returns fewer.
Receive ==
    /\ pc = "receive"
    /\ pc' = "use"
    /\ \E n \in 0 .. Batch :
           /\ n <= Len(rx)
           /\ n = 0 => rx = <<>>
           /\ pending' = FramesOf(SubSeq(rx, 1, n))
           /\ packets' = Parsed(SubSeq(rx, 1, n))
           /\ rx' = SubSeq(rx, n + 1, Len(rx))
    /\ UNCHANGED <<held, fill, taken, window, kernel, starved, seen>>

\* The loop has handled the packets and polls again.
PollAgain ==
    /\ pc = "use"
    /\ pc' = "return"
    /\ UNCHANGED <<held, ringVars, pollVars, seen>>

-----------------------------------------------------------------------------
(* The kernel.                                                             *)

KernelTakes ==
    /\ "xsk" \in held
    /\ taken < window
    /\ taken' = taken + 1
    /\ kernel' = kernel \cup {fill[taken + 1]}
    /\ UNCHANGED <<pc, held, fill, window, rx, pollVars, seen>>

\* Publish the consumer index.
KernelPublishes ==
    /\ "xsk" \in held
    /\ taken > 0
    /\ fill' = SubSeq(fill, taken + 1, Len(fill))
    /\ taken' = 0
    /\ window' = window - taken
    /\ UNCHANGED <<pc, held, kernel, rx, pollVars, seen>>

\* Nothing is left of what it has read: publish, and read the producer index.
KernelRefreshes ==
    /\ "xsk" \in held
    /\ taken = window
    /\ fill' = SubSeq(fill, taken + 1, Len(fill))
    /\ taken' = 0
    /\ window' = Len(fill')
    /\ UNCHANGED <<pc, held, kernel, rx, pollVars, seen>>

\* The program redirects a frame to the socket, which need not be a datagram.
KernelDelivers(f, w) ==
    /\ {"attached", "xsk"} \subseteq held
    /\ Redirects(w)
    /\ f \in kernel
    /\ Len(rx) < RxSize
    /\ kernel' = kernel \ {f}
    /\ rx' = Append(rx, [frame |-> f, udp |-> IsDatagram(w)])
    /\ seen' = [frame |-> w, redirected |-> TRUE]
    /\ UNCHANGED <<pc, held, fill, taken, window, pollVars>>

\* The program passes any other frame to the network stack.
KernelPasses(w) ==
    /\ "attached" \in held
    /\ ~Redirects(w)
    /\ seen' = [frame |-> w, redirected |-> FALSE]
    /\ UNCHANGED <<pc, held, ringVars, pollVars>>

Kernel == \/ KernelTakes \/ KernelPublishes \/ KernelRefreshes
          \/ \E f \in Frames, w \in Wire : KernelDelivers(f, w)
          \/ \E w \in Wire : KernelPasses(w)

-----------------------------------------------------------------------------
Close == CloseBegin \/ Release \/ CloseEnd

Next == \/ Open
        \/ \E r \in Resources : Acquire(r)
        \/ FillRing \/ NoGroup \/ OpenFails
        \/ Close
        \/ Return \/ Receive \/ PollAgain
        \/ Kernel

\* The caller destroys a receiver whose open() failed, and close() runs to its
\* end.  Nothing makes packets arrive or the caller stop.
Spec == Init /\ [][Next]_vars /\ WF_vars(Release \/ CloseEnd)
                              /\ WF_vars(pc = "failed" /\ CloseBegin)

-----------------------------------------------------------------------------
(* Properties.                                                             *)

\* Every variable has its type, and neither ring holds more than it has slots.
TypeOK == /\ pc \in ToSet(Steps) \cup {"closed", "failed", "close", "return", "receive", "use"}
          /\ held \subseteq Resources
          /\ fill \in Seq(Frames) /\ Len(fill) <= FillSize
          /\ window \in 0 .. Len(fill) /\ taken \in 0 .. window
          /\ kernel \subseteq Frames
          /\ rx \in Seq([frame : Frames, udp : BOOLEAN]) /\ Len(rx) <= RxSize
          /\ pending \in Seq(Frames)
          /\ packets \subseteq Frames
          /\ starved \in BOOLEAN
          /\ seen \in [frame : Wire \cup {NoFrame}, redirected : BOOLEAN]

\* the frames the kernel may take from the fill ring
Offered == SubSeq(fill, taken + 1, Len(fill))

\* every frame the receiver, the rings and the kernel know of
Known == Offered \o FramesOf(rx) \o pending

Running == pc \in {"attached", "member", "return", "receive", "use"}

\* No frame is lost and none is in two places: while the socket runs every
\* frame is offered to the kernel, or taken by it, or received, or pending,
\* a frame whose packet did not parse included.
FramesKept ==
    Running => /\ IsInjective(Known)
               /\ ToSet(Known) \cap kernel = {}
               /\ ToSet(Known) \cup kernel = Frames

\* "they stay valid until the next poll()": while the loop works on the packets
\* of a poll, the kernel neither has their frames nor is offered them, however
\* far it runs ahead.
PacketsStay ==
    pc = "use" => packets \cap (kernel \cup ToSet(Offered) \cup ToSet(FramesOf(rx))) = {}

\* The fill ring, twice the frame count, always has room for the frames of the
\* last poll, however long the kernel waits to publish its consumer index:
\* fill_starve stays zero.
NeverStarves == ~starved

\* The program and the parser agree on the flow although they check different
\* things: no datagram of the flow that parse_udp_frame would accept is left to
\* the stack, and what it accepts of the redirected frames is of the flow and
\* lies within the frame, whatever lengths the headers claim.
FilterAgrees ==
    seen.frame # NoFrame =>
        LET w == seen.frame
        IN  IsDatagram(w) =>
                /\ InFlow(w) <=> seen.redirected
                /\ Payload(w) \subseteq 0 .. w.len - 1

\* The kernel never works in memory that is gone: as long as the program
\* redirects to the socket or the socket has frames, what they rest on is there,
\* wherever open() failed and however far close() has come.
KernelHasMemory ==
    /\ "attached" \in held => {"obj", "xsk"} \subseteq held
    /\ "xsk" \in held => {"umem", "area"} \subseteq held
    /\ ~NoRings => "xsk" \in held

\* After an open() that failed at any step everything it acquired is released.
FailureReleases == (pc = "failed") ~> (pc = "closed" /\ held = {})
=============================================================================
