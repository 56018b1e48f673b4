-------------------------- MODULE LatencyHistogram --------------------------
(***************************************************************************)
(* The log-linear histogram of latencies (histogram.hpp).  Values below    *)
(* Linear have a bucket each; above, every power of two is split into Half *)
(* buckets of the same size.                                               *)
(***************************************************************************)
EXTENDS Integers, FiniteSetsExt

CONSTANTS SubBits,   \* kSubBits, 8 in the code
          WordBits,  \* bits of a sample, 64 in the code
          Carries    \* <<percentage, count>> for which p / 100.0 * count, in doubles, is
                     \* more than the slack of 1e-9 above what it should be

\* A percentage of 0 or of 100 and more has no rank.
ASSUME HistogramAssumption ==
    /\ SubBits \in Nat /\ WordBits \in Nat /\ 1 <= SubBits /\ SubBits <= WordBits
    /\ Carries \subseteq (1 .. 9999) \X Nat

\* 1 << k
Pow2[k \in 0 .. WordBits] == IF k = 0 THEN 1 ELSE 2 * Pow2[k - 1]

Linear == Pow2[SubBits]
Half == Pow2[SubBits - 1]
Buckets == Linear + (WordBits - SubBits) * Half

\* std::bit_width(v) - 1
TopBit(v) == CHOOSE e \in 0 .. WordBits - 1 : Pow2[e] <= v /\ v < Pow2[e + 1]

\* index(): the leading SubBits bits of a value tell its bucket
Index(v) ==
    IF v < Linear THEN v
    ELSE LET shift == TopBit(v) - (SubBits - 1)
         IN  Linear + (shift - 1) * Half + (v \div Pow2[shift] - Half)

Shift(i) == (i - Linear) \div Half + 1
Leading(i) == Half + ((i - Linear) % Half)

LowerBound(i) == IF i < Linear THEN i ELSE Leading(i) * Pow2[Shift(i)]

UpperBound(i) == IF i < Linear THEN i ELSE (Leading(i) + 1) * Pow2[Shift(i)] - 1

Empty == [counts |-> [i \in 0 .. Buckets - 1 |-> 0],
          count |-> 0, min |-> Pow2[WordBits] - 1, max |-> 0]

Smaller(a, b) == IF b < a THEN b ELSE a
Larger(a, b) == IF b > a THEN b ELSE a

\* record()
Record(h, v) == [counts |-> [h.counts EXCEPT ![Index(v)] = @ + 1],
                 count |-> h.count + 1,
                 min |-> Smaller(h.min, v),
                 max |-> Larger(h.max, v)]

\* merge(): the minimum of an empty histogram is no sample
Merge(h, o) == [counts |-> [i \in DOMAIN h.counts |-> h.counts[i] + o.counts[i]],
                count |-> h.count + o.count,
                min |-> IF o.count # 0 THEN Smaller(h.min, o.min) ELSE h.min,
                max |-> Larger(h.max, o.max)]

\* p percent of n samples, in parts of 10000.  The double may carry beyond it by less
\* than one such part.
Asked(p, n) == p * n + (IF <<p, n>> \in Carries THEN 1 ELSE 0)

\* Rounded down: the rank may be 0, or one sample too low.
TargetRoundedDown(p, n) == Asked(p, n) \div 10000

\* the rank ceil(p / 100% * n) of the sample that p percent ask for, at least 1; one
\* more where a whole rank carries
Target(p, n) == Larger((Asked(p, n) + 9999) \div 10000, 1)

\* the sum of f over S
Total(f, S) == MapThenSumSet(LAMBDA x : f[x], S)

\* percentile(), for a percentage p in hundredths: the end of the bucket that holds the
\* sample of that rank
Percentile(h, p) ==
    IF h.count = 0 THEN 0
    ELSE IF p <= 0 THEN h.min
    ELSE IF p >= 10000 THEN h.max
    ELSE LET Upto(i) == Total(h.counts, 0 .. i)
             i == CHOOSE b \in DOMAIN h.counts :
                      /\ Upto(b) >= Target(p, h.count)
                      /\ \A c \in 0 .. b - 1 : Upto(c) < Target(p, h.count)
         IN  Smaller(UpperBound(i), h.max)
=============================================================================
