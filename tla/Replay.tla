------------------------------- MODULE Replay -------------------------------
(***************************************************************************)
(* Replay of a capture file (run_replay in feed_handler_main.cpp) through  *)
(* the record parser (parser.hpp).  The file is a sequence of records, a   *)
(* length of two bytes and so many bytes of message, and may end inside    *)
(* its last record.  It is parsed slice by slice, so that a signal is      *)
(* honoured between slices, with a lookahead of Distance records; or, to   *)
(* measure latencies, record by record.                                    *)
(*                                                                         *)
(* A record is its type, its length and the locate it names; a byte of the *)
(* file is known by its position alone.                                    *)
(***************************************************************************)
EXTENDS AddOrderDecode, LatencyHistogram

CONSTANTS Records,     \* records a file is made of: [type, length, locate]
          MaxRecords,  \* the longest file
          Missing,     \* bytes the last record may lack
          Wanted,      \* locates for which the handler's wants() is true
          Slice,       \* kSlice
          Distance,    \* records of lookahead, 0 for none
          Samples,     \* what a record may take, in ticks of the clock
          Percents     \* the percentiles asked for, in hundredths of a percent

Kinds == {"message", "filtered", "unknown_type", "bad_length", "empty"}

\* Every record fits into a slice, as the lengths of 16 bits do.
ASSUME ReplayAssumption ==
    /\ \A r \in Records : r.length \in Nat /\ 2 + r.length <= Slice
    /\ MaxRecords \in Nat /\ Slice \in Nat /\ Distance \in Nat
    /\ Missing \subseteq Nat /\ Percents \subseteq 0 .. 10000
    /\ Samples \subseteq 0 .. Pow2[WordBits] - 1

VARIABLES file,     \* the records, the last of them perhaps cut
          len,      \* bytes in the file
          pc,       \* where run_replay stands
          running,  \* g_running
          start,    \* first byte of the slice
          end,      \* byte after the slice
          off,      \* next byte to parse
          ahead,    \* next byte to prefetch
          warmup,   \* prefetches left before the first record of the slice
          handled,  \* messages the handler has got, by their place in the file
          message,  \* the last of them, decoded
          stats,    \* Parser::Stats
          hist,     \* the latencies of --latency
          timed     \* how often each of the samples was taken

results == <<handled, message, stats>>
vars == <<file, len, pc, running, start, end, off, ahead, warmup, results, hist, timed>>
input == <<file, len>>

\* The byte at which record k starts.
StartOf(k) == FoldLeft(LAMBDA sum, r : sum + 2 + r.length, 0, SubSeq(file, 1, k - 1))

\* The record whose length is read at byte b.
At(b) == CHOOSE k \in DOMAIN file : StartOf(k) = b

\* The record at byte b ends within a limit.
Complete(b, limit) == b + 2 <= limit /\ b + 2 + file[At(b)].length <= limit

After(b) == b + 2 + file[At(b)].length

\* The buffer of the parser; a handler finds what follows it Beyond.
Buffer == [b \in 0 .. len + Overread |-> IF b < len THEN b ELSE Beyond]

Init == /\ file \in BoundedSeq(Records, MaxRecords)
        /\ \E cut \in Missing : len = StartOf(Len(file) + 1) - cut
        /\ file # <<>> => len > StartOf(Len(file))
        /\ len > 0         \* an empty file is refused by ItchFile::open
        /\ pc \in {"slices", "latency"}
        /\ running = TRUE
        /\ start = 0 /\ end = 0 /\ off = 0 /\ ahead = 0 /\ warmup = 0
        /\ handled = <<>> /\ message = <<>>
        /\ stats = [k \in Kinds |-> 0]
        /\ hist = Empty
        /\ timed = [v \in Samples |-> 0]

-----------------------------------------------------------------------------
(* The parser.                                                             *)

\* A check that lets a longer record of a known type pass.
AcceptsLonger(r) ==
    IF r.length = 0 THEN "empty"
    ELSE IF MessageLength(r.type) = 0 THEN "unknown_type"
    ELSE IF r.length < MessageLength(r.type) THEN "bad_length"
    ELSE IF r.locate \in Wanted THEN "message" ELSE "filtered"

\* what parse() makes of a record
KindOf(r) ==
    IF r.length = 0 THEN "empty"
    ELSE IF MessageLength(r.type) = 0 THEN "unknown_type"
    ELSE IF MessageLength(r.type) # r.length THEN "bad_length"
    ELSE IF r.locate \in Wanted THEN "message" ELSE "filtered"

\* the statistics a record counts in: a filtered one is a message too
Counters(kind) == IF kind = "filtered" THEN {"message", "filtered"} ELSE {kind}

\* parse(), for the record at off
Parse ==
    LET k == At(off)
        kind == KindOf(file[k])
    IN  /\ stats' = [c \in Kinds |-> IF c \in Counters(kind) THEN stats[c] + 1 ELSE stats[c]]
        /\ IF kind = "message"
           THEN /\ handled' = Append(handled, k)
                /\ message' = Decode(file[k].type, Buffer, off + 2)
           ELSE UNCHANGED <<handled, message>>
        /\ off' = After(off)

\* Hints that trust the type of a record for its length.
HintedUnchecked(r) ==
    CASE r.type \in {"A", "F"} -> {"ref", "locate", "side"}
      [] r.type \in {"E", "C", "X", "D"} -> {"ref", "locate"}
      [] r.type = "U" -> {"original_ref", "new_ref", "locate"}
      [] OTHER -> {}

\* BookBuilder::prefetch: the fields of a record it reads, whose length has not
\* been checked against its type yet.
Hinted(r) ==
    IF r.length < 19 \/ r.locate \notin Wanted THEN {}
    ELSE CASE r.type \in {"A", "F"} -> {"ref"} \cup IF r.length >= 20 THEN {"locate", "side"} ELSE {}
           [] r.type \in {"E", "C", "X", "D"} -> {"ref", "locate"}
           [] r.type = "U" -> {"original_ref", "locate"} \cup IF r.length >= 27 THEN {"new_ref"} ELSE {}
           [] OTHER -> {}

\* A lookahead that goes by the length of the file, not of the slice.
PrefetchPast == IF Complete(ahead, len) THEN After(ahead) ELSE ahead

\* prefetch_next()
PrefetchNext == IF Complete(ahead, end) THEN After(ahead) ELSE ahead

\* parse_stream_prefetch: the first Distance records
WarmUp ==
    /\ pc = "records" /\ warmup > 0
    /\ warmup' = warmup - 1
    /\ ahead' = PrefetchNext
    /\ UNCHANGED <<input, pc, running, start, end, off, results, hist, timed>>

\* parse_stream and parse_stream_prefetch: one turn of the loop
ParseRecord ==
    /\ pc = "records" /\ warmup = 0
    /\ Complete(off, end)
    /\ Parse
    /\ ahead' = IF Distance = 0 THEN ahead ELSE PrefetchNext
    /\ UNCHANGED <<input, pc, running, start, end, warmup, hist, timed>>

\* what for_each_frame makes of a record
FrameKind(r) == IF r.length = 0 THEN "empty"
                ELSE IF r.length # MessageLength(r.type) THEN "malformed" ELSE "frames"

\* for_each_frame, over the bytes before a limit, from record to record
ForEachFrame(limit) ==
    LET walk[k \in 1 .. Len(file) + 1] ==
            IF k \in DOMAIN file /\ Complete(StartOf(k), limit)
            THEN [walk[k + 1] EXCEPT ![FrameKind(file[k])] = @ + 1]
            ELSE [consumed |-> StartOf(k), frames |-> 0, malformed |-> 0, empty |-> 0]
    IN  walk[1]

-----------------------------------------------------------------------------
(* run_replay                                                              *)

AtMostSlice(n) == IF n > Slice THEN Slice ELSE n

BeginSlice ==
    /\ pc = "slices" /\ running
    /\ off < len
    /\ start' = off
    /\ end' = off + AtMostSlice(len - off)
    /\ ahead' = off
    /\ warmup' = Distance
    /\ pc' = "records"
    /\ UNCHANGED <<input, running, off, results, hist, timed>>

\* A loop that goes on where the slice ends.
EndSliceSkips ==
    /\ pc = "records" /\ warmup = 0
    /\ ~Complete(off, end)
    /\ pc' = IF off = start THEN "done" ELSE "slices"
    /\ off' = end
    /\ UNCHANGED <<input, running, start, end, ahead, warmup, results, hist, timed>>

\* A loop that takes any bytes left over for the end of the file.
EndSliceStops ==
    /\ pc = "records" /\ warmup = 0
    /\ ~Complete(off, end)
    /\ pc' = IF off # end THEN "done" ELSE "slices"
    /\ UNCHANGED <<input, running, start, end, off, ahead, warmup, results, hist, timed>>

\* The record at off is cut by the slice: parse it with the next slice, unless
\* this one made no progress.
EndSlice ==
    /\ pc = "records" /\ warmup = 0
    /\ ~Complete(off, end)
    /\ pc' = IF off = start THEN "done" ELSE "slices"
    /\ UNCHANGED <<input, running, start, end, off, ahead, warmup, results, hist, timed>>

\* The whole file has been parsed, or a signal has come.
EndFile ==
    /\ pc = "slices"
    /\ off >= len \/ ~running
    /\ pc' = "done"
    /\ UNCHANGED <<input, running, start, end, off, ahead, warmup, results, hist, timed>>

\* --latency: one record between two reads of the clock
TimeRecord ==
    /\ pc = "latency" /\ running
    /\ Complete(off, len)
    /\ Parse
    /\ \E v \in Samples : /\ hist' = Record(hist, v)
                          /\ timed' = [timed EXCEPT ![v] = @ + 1]
    /\ UNCHANGED <<input, pc, running, start, end, ahead, warmup>>

EndLatency ==
    /\ pc = "latency"
    /\ ~Complete(off, len) \/ ~running
    /\ pc' = "done"
    /\ UNCHANGED <<input, running, start, end, off, ahead, warmup, results, hist, timed>>

\* SIGINT or SIGTERM
Interrupt ==
    /\ running /\ pc # "done"
    /\ running' = FALSE
    /\ UNCHANGED <<input, pc, start, end, off, ahead, warmup, results, hist, timed>>

Finished == pc = "done" /\ UNCHANGED vars

Work == \/ BeginSlice \/ WarmUp \/ ParseRecord \/ EndSlice \/ EndFile
        \/ TimeRecord \/ EndLatency

Next == Work \/ Interrupt \/ Finished

\* The feed thread never waits for anything.
Spec == Init /\ [][Next]_vars /\ WF_vars(Work)

-----------------------------------------------------------------------------
(* Properties.                                                             *)

\* the records that end within the file
Whole == {k \in DOMAIN file : StartOf(k + 1) <= len}

\* the records before byte b
Before(b) == {k \in DOMAIN file : StartOf(k) < b}

\* How many of the records before byte b count in a statistic.
Count(c, b) == Cardinality({k \in Before(b) : c \in Counters(KindOf(file[k]))})

\* The parser never loses the framing and takes every record once: it stands
\* at the start of a record, the statistics count the records before it, and
\* the handler has got the messages it wants in the order of the file.  A record
\* cut by a slice is parsed with the next one, not twice and not in halves.
EachRecordOnce ==
    /\ \E k \in 1 .. Len(file) + 1 : off = StartOf(k)
    /\ \A c \in Kinds : stats[c] = Count(c, off)
    /\ \A i, j \in DOMAIN handled : i < j => handled[i] < handled[j]
    /\ ToSet(handled) = {k \in Before(off) : KindOf(file[k]) = "message"}

\* The records the lookahead has hinted at and the parser has not reached.
HintedAt == {k \in DOMAIN file : off <= StartOf(k) /\ StartOf(k) < ahead}

\* The lookahead hints at records that are whole within the slice, never at one
\* that is behind the parser, and at most Distance records ahead; it lags only
\* at the end of the slice.
LookaheadInSlice ==
    pc = "records" /\ warmup = 0 /\ Distance > 0 =>
        /\ off <= ahead
        /\ \A k \in HintedAt : StartOf(k + 1) <= end
        /\ Cardinality(HintedAt) <= Distance
        /\ Cardinality(HintedAt) < Distance => ~Complete(ahead, end)

\* Before its length is checked a record may be shorter than its type: what the
\* hint reads of it (BookBuilder::prefetch) lies within it all the same, and a
\* record that turns out to be an order message is hinted at with every
\* reference it names.
HintsWithinRecord ==
    pc = "records" => \A k \in HintedAt :
        file[k].type \in DOMAIN OrderMessages =>
            LET r == file[k]
                fields == FieldsOf(r.type)
            IN  /\ \A f \in Hinted(r) : fields[f][1] + fields[f][2] <= r.length
                /\ KindOf(r) = "message" =>
                       {"ref", "original_ref", "new_ref"} \cap DOMAIN fields \subseteq Hinted(r)

\* A message holds the bytes of its own record and of nothing else: encoded
\* again it is that record byte for byte, a field that is loaded with the bytes
\* before it included.  The three decoders of an add order, two of which read
\* past its end, give the same bytes for it.
DecodesItsBytes ==
    handled # <<>> =>
        LET k == Last(handled)
            p == StartOf(k) + 2
            r == file[k]
            bytes == Encode(r.type, message)
        IN  /\ \A b \in 1 .. r.length - 1 : bytes[b] = p + b
            /\ r.type = "A" /\ p + Overread <= len =>
                   /\ DecodeSsse3(Buffer, p) = DecodeScalar(Buffer, p)
                   /\ DecodeAvx2(Buffer, p) = DecodeScalar(Buffer, p)

\* The walk that does not decode (for_each_frame) applies the framing and the
\* checks of the parser, whose slices it does not know: after a replay that no
\* signal stopped both have consumed and counted the same.
SameFraming ==
    pc = "done" /\ running =>
        LET scan == ForEachFrame(len)
        IN  /\ scan.consumed = off
            /\ scan.frames = stats["message"]
            /\ scan.malformed = stats["unknown_type"] + stats["bad_length"]
            /\ scan.empty = stats["empty"]

\* how many samples were at most v
AtMost(v) == Total(timed, {u \in Samples : u <= v})

\* The smallest sample that p percent of the samples do not exceed; where the rank
\* carries, the sample of the rank after it.
NearestRank(p) ==
    CHOOSE v \in Samples :
        /\ timed[v] > 0 /\ 10000 * AtMost(v) >= Asked(p, hist.count)
        /\ \A u \in Samples : u < v /\ timed[u] > 0 => 10000 * AtMost(u) < Asked(p, hist.count)

\* histogram.hpp:34, "Nearest-rank percentile": a percentile is the sample of the
\* nearest rank (of the next one where the double carries), or above it by less than
\* one part in Half, and never above the largest sample; and to merge histograms is
\* to record the samples of both in one.
PercentileBound ==
    hist.count > 0 =>
        /\ \A p \in Percents :
               LET exact == NearestRank(p)
               IN  /\ exact <= Percentile(hist, p)
                   /\ (Percentile(hist, p) - exact) * Half <= exact
                   /\ Percentile(hist, p) <= hist.max
        /\ \A v \in {u \in Samples : timed[u] > 0} :
               LowerBound(Index(v)) <= v /\ v <= UpperBound(Index(v))
        /\ \A v \in Samples : Merge(hist, Record(Empty, v)) = Record(hist, v)
        /\ Merge(hist, Empty) = hist /\ Merge(Empty, hist) = hist

\* A replay that no signal stops ends, and then has parsed every record the
\* file holds whole: no slice is given up before the last partial record.
Completes == <>(\/ ~running
                \/ pc = "done" /\ Whole \subseteq Before(off))
=============================================================================
