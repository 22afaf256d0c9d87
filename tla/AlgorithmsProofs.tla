-------------------------- MODULE AlgorithmsProofs --------------------------
(***************************************************************************)
(* What TLC checks of the algorithms on bounded inputs, for every input    *)
(* (tables, feeds, sweeps and catalogues of any size); and from that the   *)
(* invariants of Algorithms.  What a fold computes is proved by induction  *)
(* over its steps, what a sort returns by the uniqueness of sorting        *)
(* (InductionLemmas).                                                      *)
(***************************************************************************)
EXTENDS Algorithms, InductionLemmas, SequenceTheorems

-----------------------------------------------------------------------------
(* Comparison.                                                             *)

Values == Int \cup {Null, NonFinite}
MetricSet(metrics) == \A name \in DOMAIN metrics : metrics[name] \in Values

\* math.isclose treats its arguments alike.
LEMMA CloseIsSymmetric ==
  ASSUME NEW left \in Int, NEW right \in Int, NEW tolerance
  PROVE  IsClose(left, right, tolerance) <=> IsClose(right, left, tolerance)
<1>1. Distance(left, right) = Distance(right, left)
  BY DEF Distance
<1>2. Larger(Distance(left, 0), Distance(right, 0)) = Larger(Distance(right, 0), Distance(left, 0))
  BY DEF Larger, Distance
<1>3. QED
  BY <1>1, <1>2 DEF IsClose

\* A number is close to itself: tolerances are not negative.
LEMMA CloseIsReflexive ==
  ASSUME NEW name, NEW value \in Int
  PROVE  IsClose(value, value, Tolerance(name))
<1> DEFINE t == Tolerance(name)
           far == Larger(Distance(value, 0), Distance(value, 0))
<1>1. t.rel \in Nat /\ t.abs \in Nat
  BY ReportsAssumption DEF Tolerance
<1>2. far \in Int
  BY DEF Larger, Distance
<1>3. t.rel * far \in Int
  BY <1>1, <1>2
<1>4. Larger(t.rel * far, 100 * t.abs) >= 0
  <2> DEFINE product == t.rel * far
  <2>1. product \in Int
    BY <1>3
  <2> HIDE DEF product
  <2>2. Larger(product, 100 * t.abs) >= 0
    BY <1>1, <2>1 DEF Larger
  <2>3. QED
    BY <2>2 DEF product
<1>5. Distance(value, value) = 0
  BY DEF Distance
<1>6. QED
  BY <1>4, <1>5 DEF IsClose

\* A metric is reported for both orders of the runs or for none.
LEMMA MismatchIsSymmetric ==
  ASSUME NEW name, NEW left \in Int \cup {Null}, NEW right \in Int \cup {Null}
  PROVE  /\ FloatMismatch(name, left, right) = FloatMismatch(name, right, left)
         /\ FloatMismatch(name, left, left) = {}
<1>1. CASE Null \in {left, right}
  <2>1. FloatMismatch(name, left, right) = FloatMismatch(name, right, left)
    BY <1>1 DEF FloatMismatch
  <2>2. FloatMismatch(name, left, left) = {}
    BY CloseIsReflexive DEF FloatMismatch
  <2>3. QED
    BY <2>1, <2>2
<1>2. CASE Null \notin {left, right}
  <2>1. left \in Int /\ right \in Int
    BY <1>2
  <2>2. QED
    BY <1>2, <2>1, CloseIsSymmetric, CloseIsReflexive DEF FloatMismatch
<1>3. QED
  BY <1>1, <1>2

\* What is compared after normalisation is an integer or null.
LEMMA NormalizedValues ==
  ASSUME NEW metrics, MetricSet(metrics), WellFormed(metrics)
  PROVE  /\ Normalize(metrics).standard = [name \in StandardMetrics |-> metrics[name]]
         /\ \A name \in FloatMetrics : Normalize(metrics).standard[name] \in Int \cup {Null}
         /\ \A name : Value(Normalize(metrics).extra, name) \in Int \cup {Null}
<1> DEFINE kept == {n \in DOMAIN metrics \ StandardMetrics : metrics[n] # NonFinite}
<1>1. /\ Normalize(metrics).standard = [name \in StandardMetrics |-> metrics[name]]
      /\ Normalize(metrics).extra = [name \in kept |-> metrics[name]]
  BY DEF Normalize, NormalizedAs
<1>2. \A name \in FloatMetrics : name \in StandardMetrics /\ metrics[name] \in Int \cup {Null}
  BY DEF WellFormed, MetricSet, Values, StandardMetrics
<1>3. \A name \in kept : metrics[name] \in Int \cup {Null}
  BY DEF MetricSet, Values
<1>4. \A name : Value(Normalize(metrics).extra, name) \in Int \cup {Null}
  BY <1>1, <1>3 DEF Value
<1>5. QED
  BY <1>1, <1>2, <1>4

\* Metrics that were normalised are well formed, and normalising them again changes nothing.
THEOREM NormalizingIsIdempotent ==
  ASSUME NEW metrics, MetricSet(metrics), WellFormed(metrics)
  PROVE  /\ WellFormed(StoredMetrics(metrics))
         /\ Normalize(StoredMetrics(metrics)).standard = StoredMetrics(metrics)
<1> DEFINE stored == [name \in StandardMetrics |-> metrics[name]]
<1>1. StoredMetrics(metrics) = stored
  BY NormalizedValues DEF StoredMetrics
<1>2. WellFormed(stored)
  BY DEF WellFormed, StandardMetrics
<1>3. Normalize(stored).standard = stored
  BY <1>2 DEF Normalize, NormalizedAs
<1>4. QED
  BY <1>1, <1>2, <1>3

\* Two runs of any metrics are told apart in the same way from both sides, and a run is
\* not told apart from itself.
THEOREM ComparingIsSymmetric ==
  ASSUME NEW left, NEW right, MetricSet(left.metrics), MetricSet(right.metrics),
         WellFormed(left.metrics), WellFormed(right.metrics)
  PROVE  /\ CompareRuns(left, left) = {}
         /\ CompareRuns(left, right) = CompareRuns(right, left)
<1> DEFINE L == Normalize(left.metrics)
           R == Normalize(right.metrics)
<1>1. /\ \A name \in FloatMetrics : L.standard[name] \in Int \cup {Null}
      /\ \A name : Value(L.extra, name) \in Int \cup {Null}
  BY NormalizedValues
<1>2. /\ \A name \in FloatMetrics : R.standard[name] \in Int \cup {Null}
      /\ \A name : Value(R.extra, name) \in Int \cup {Null}
  BY NormalizedValues
<1> HIDE DEF L, R
<1>3. Diagnostics(L, L) = {}
  <2>1. \A name \in FloatMetrics : FloatMismatch(name, L.standard[name], L.standard[name]) = {}
    BY <1>1, MismatchIsSymmetric
  <2>2. \A name : FloatMismatch(name, Value(L.extra, name), Value(L.extra, name)) = {}
    BY <1>1, MismatchIsSymmetric
  <2>3. QED
    BY <2>1, <2>2 DEF Diagnostics
<1>4. Diagnostics(L, R) = Diagnostics(R, L)
  <2>1. {<<name, "exact_mismatch">> : name \in {n \in IntegerMetrics : L.standard[n] # R.standard[n]}}
          = {<<name, "exact_mismatch">> : name \in {n \in IntegerMetrics : R.standard[n] # L.standard[n]}}
    OBVIOUS
  <2>2. {FloatMismatch(name, L.standard[name], R.standard[name]) : name \in FloatMetrics}
          = {FloatMismatch(name, R.standard[name], L.standard[name]) : name \in FloatMetrics}
    BY <1>1, <1>2, MismatchIsSymmetric
  <2>3. {FloatMismatch(name, Value(L.extra, name), Value(R.extra, name)) :
           name \in DOMAIN L.extra \cup DOMAIN R.extra}
          = {FloatMismatch(name, Value(R.extra, name), Value(L.extra, name)) :
               name \in DOMAIN R.extra \cup DOMAIN L.extra}
    <3>1. \A name : FloatMismatch(name, Value(L.extra, name), Value(R.extra, name))
                      = FloatMismatch(name, Value(R.extra, name), Value(L.extra, name))
      BY <1>1, <1>2, MismatchIsSymmetric
    <3>2. DOMAIN L.extra \cup DOMAIN R.extra = DOMAIN R.extra \cup DOMAIN L.extra
      OBVIOUS
    <3>3. QED
      BY <3>1, <3>2
  <2>4. QED
    BY <2>1, <2>2, <2>3 DEF Diagnostics
<1>5. QED
  BY <1>3, <1>4 DEF CompareRuns, L, R

-----------------------------------------------------------------------------
(* Feed evidence.                                                          *)

\* Of any bindings to frozen feeds that have rows, the evidence of an honest run is
\* accepted exactly when no two have one name, every name is a plain one and every one
\* delivered a bar.
THEOREM HonestEvidence ==
  ASSUME NEW n \in Nat \ {0}, NEW bindings, DOMAIN bindings = 1..n,
         NEW configs, \A i \in 1..n : bindings[i].feed \in DOMAIN configs,
         NEW rows, \A f \in DOMAIN configs : rows[f] >= 1,
         NEW bars
  PROVE  EvidenceAccepted(Evidence(bindings, configs, rows, bars), configs) <=>
           /\ \A i, k \in 1..n : bindings[i].name = bindings[k].name => i = k
           /\ \A i \in 1..n : bindings[i].name \in PlainNames /\ bars[i] >= 1
<1> DEFINE evidence == Evidence(bindings, configs, rows, bars)
<1>1. DOMAIN evidence = 1..n
  BY DEF Evidence
<1>2. \A i \in 1..n : /\ evidence[i].dataset_feed = bindings[i].feed
                      /\ evidence[i].strategy_feed = bindings[i].name
                      /\ evidence[i].described_as = configs[bindings[i].feed]
                      /\ evidence[i].source_rows = rows[bindings[i].feed]
                      /\ evidence[i].output_bars = bars[i]
  BY DEF Evidence
<1>3. evidence # <<>>
  <2>1. 1 \in DOMAIN evidence
    BY <1>1
  <2>2. DOMAIN <<>> = {}
    OBVIOUS
  <2>3. QED
    BY <2>1, <2>2
<1> HIDE DEF evidence
<1>4. QED
  BY <1>1, <1>2, <1>3 DEF EvidenceAccepted, evidence

-----------------------------------------------------------------------------
(* Feeds.                                                                  *)

\* A stamp on its feed's frame is what the adapter's file keeps of it.
LEMMA AlignedIsKept ==
  ASSUME NEW feed, FeedAccepted(feed), NEW time \in Int, Aligned(feed.timeframe, time)
  PROVE  AdapterTime(feed.format, time) = time
<1>1. CASE feed.format = "yahoo_csv"
  <2>1. time % Day = 0
    BY <1>1 DEF FeedAccepted, FrameFits, Aligned, DailyFrames
  <2>2. QED
    BY <1>1, <2>1 DEF AdapterTime
<1>2. CASE feed.format = "mt5_csv"
  <2>1. time % Day = 0 \/ time % Minute = 0
    BY <1>2 DEF FeedAccepted, FrameFits, Aligned, Timeframes, DailyFrames, SubMinuteFrames
  <2>2. time % Minute = 0
    BY <2>1 DEF Day, Minute
  <2>3. QED
    BY <1>2, <2>2 DEF AdapterTime
<1>3. CASE feed.format \notin {"yahoo_csv", "mt5_csv"}
  BY <1>3 DEF AdapterTime
<1>4. QED
  BY <1>1, <1>2, <1>3

\* Whatever the descriptor and the table: a feed that is accepted is built, and keeps the
\* stamps of its bars.
THEOREM AcceptedFeed ==
  ASSUME NEW feed, FeedAccepted(feed), NEW stamps, stamps # <<>>,
         \A i \in DOMAIN stamps : stamps[i] \in Int
  PROVE  /\ Builds(FeedObject(feed), stamps)
         /\ feed.custom # {} => FeedObject(feed).input_format = "pandas_custom_lines"
         /\ (\A i \in DOMAIN stamps : Aligned(feed.timeframe, stamps[i])) =>
              \A i \in DOMAIN stamps : AdapterTime(feed.format, stamps[i]) = stamps[i]
<1>1. feed.operation.mode \in {"direct", "resample", "replay"}
  BY DEF FeedAccepted, BarOperationAccepted, Direct
<1>2. Builds(FeedObject(feed), stamps)
  BY <1>1 DEF Builds, FeedObject, FeedAccepted
<1>3. QED
  BY <1>2, AlignedIsKept DEF FeedObject, FeedAccepted

\* No derived feature column can be built, whatever its rows: its manifest names no
\* timeframe (data.py 893-1046, feed_runtime.py 117-132).
THEOREM NoDerivedFeedIsBuilt ==
  ASSUME NEW profile \in {"returns", "sma"}, NEW output, NEW rows
  PROVE  ~ Builds(DerivedObject(profile, output), rows)
<1>1. DerivedObject(profile, output).timeframe = "unspecified"
  BY DEF DerivedObject, PlainObject
<1>2. "unspecified" \notin Timeframes
  BY DEF Timeframes, SubMinuteFrames, DailyFrames
<1>3. QED
  BY <1>1, <1>2 DEF Builds

-----------------------------------------------------------------------------
(* Tables.                                                                 *)

\* Source rows before they are parsed.
SourceCell == Int \cup {Garbage}
TableRows == [time : SourceCell, open : SourceCell, high : SourceCell, low : SourceCell, close : SourceCell]

\* The rows up to the n-th parse, are consistent, and follow each other.
SoundUpTo(source, allow, n) ==
  /\ \A i \in 1..n : Parses(source[i]) /\ ValidBar(source[i], allow)
  /\ \A i \in 2..n : source[i - 1].time \div 2 < source[i].time \div 2

\* What the pass over a table has after its n-th row.
TakenUpTo(source, allow, n) ==
  IF SoundUpTo(source, allow, n)
    THEN [ok |-> TRUE, rows |-> [i \in 1..n |-> CanonicalRow(source[i])]]
    ELSE [ok |-> FALSE, rows |-> Refused]

\* The next row is taken if the rows so far were sound and it parses, is consistent and
\* follows the last one; else the table is refused (data.py 264-323).
LEMMA RowIsTaken ==
  ASSUME NEW n \in Nat, NEW source \in [1..n -> TableRows], NEW allow, NEW k \in 1..n
  PROVE  TakeRow(TakenUpTo(source, allow, k - 1), source[k], allow) = TakenUpTo(source, allow, k)
<1> DEFINE before == [i \in 1..(k - 1) |-> CanonicalRow(source[i])]
           row == source[k]
<1>1. /\ \A i \in 1..n : source[i] \in TableRows
      /\ row \in TableRows
  OBVIOUS
<1>2. /\ before \in Seq({CanonicalRow(source[i]) : i \in 1..n}) /\ Len(before) = k - 1
      /\ \A i \in 1..(k - 1) : before[i] = CanonicalRow(source[i])
  OBVIOUS
<1>3. SoundUpTo(source, allow, k) <=>
        /\ SoundUpTo(source, allow, k - 1)
        /\ Parses(row) /\ ValidBar(row, allow)
        /\ k > 1 => source[k - 1].time \div 2 < row.time \div 2
  BY DEF SoundUpTo
<1>4. ValidBar(CanonicalRow(row), allow) <=> ValidBar(row, allow)
  BY <1>1 DEF ValidBar, CanonicalRow, TableRows
<1>5. CASE SoundUpTo(source, allow, k - 1) /\ Parses(row)
  <2>1. Follows(before, row) <=> (k > 1 => source[k - 1].time \div 2 < row.time \div 2)
    <3>1. row.time \in Int
      BY <1>1, <1>5 DEF TableRows, Parses, SourceCell
    <3>2. CanonicalRow(row).time = row.time \div 2
      BY <1>1 DEF CanonicalRow, TableRows
    <3>3. CASE k = 1
      BY <1>2, <3>3 DEF Follows
    <3>4. CASE k > 1
      <4>1. before # <<>> /\ before[Len(before)] = before[k - 1]
        BY <1>2, <3>4
      <4>2. source[k - 1].time \in Int
        BY <1>1, <1>5, <3>4 DEF TableRows, Parses, SourceCell, SoundUpTo
      <4>3. before[k - 1].time = source[k - 1].time \div 2
        BY <1>1, <1>2, <3>4 DEF CanonicalRow, TableRows
      <4>4. QED
        BY <3>1, <3>2, <3>4, <4>1, <4>2, <4>3 DEF Follows
    <3>5. QED
      BY <3>3, <3>4
  <2>2. Append(before, CanonicalRow(row)) = [i \in 1..k |-> CanonicalRow(source[i])]
    BY <1>2
  <2>3. TakenUpTo(source, allow, k - 1) = [ok |-> TRUE, rows |-> before]
    BY <1>5 DEF TakenUpTo
  <2>4. TakenUpTo(source, allow, k) =
          IF SoundUpTo(source, allow, k)
            THEN [ok |-> TRUE, rows |-> Append(before, CanonicalRow(row))]
            ELSE [ok |-> FALSE, rows |-> Refused]
    BY <2>2 DEF TakenUpTo
  <2> HIDE DEF before
  <2>5. TakeRow([ok |-> TRUE, rows |-> before], row, allow) =
          IF Follows(before, row) /\ ValidBar(CanonicalRow(row), allow)
            THEN [ok |-> TRUE, rows |-> Append(before, CanonicalRow(row))]
            ELSE [ok |-> FALSE, rows |-> Refused]
    <3> DEFINE acc == [ok |-> TRUE, rows |-> before]
    <3>1. acc.ok /\ acc.rows = before
      OBVIOUS
    <3> HIDE DEF acc
    <3>2. TakeRow(acc, row, allow) =
            IF Follows(before, row) /\ ValidBar(CanonicalRow(row), allow)
              THEN [ok |-> TRUE, rows |-> Append(before, CanonicalRow(row))]
              ELSE [ok |-> FALSE, rows |-> Refused]
      BY <1>5, <3>1 DEF TakeRow
    <3>3. QED
      BY <3>2 DEF acc
  <2>6. SoundUpTo(source, allow, k) <=> Follows(before, row) /\ ValidBar(CanonicalRow(row), allow)
    BY <1>3, <1>4, <1>5, <2>1
  <2>7. QED
    BY <2>3, <2>4, <2>5, <2>6
<1>6. CASE ~ (SoundUpTo(source, allow, k - 1) /\ Parses(row))
  BY <1>3, <1>6 DEF TakeRow, TakenUpTo
<1>7. QED
  BY <1>5, <1>6

\* The pass over a table of any length registers all of it, or nothing
\* (data.py 264-323).
THEOREM CanonicalTable ==
  ASSUME NEW n \in Nat, NEW source \in [1..n -> TableRows], NEW allow
  PROVE  Canonical(source, allow) = TakenUpTo(source, allow, n).rows
<1> DEFINE start == [ok |-> TRUE, rows |-> <<>>]
           Steps(f) == f = [m \in 0..n |-> IF m = 0 THEN start
                                           ELSE TakeRow(f[m - 1], source[m], allow)]
           closed == [m \in 0..n |-> TakenUpTo(source, allow, m)]
           taken == CHOOSE f : Steps(f)
<1>1. Len(source) = n
  OBVIOUS
<1>2. TakenUpTo(source, allow, 0) = start
  BY DEF TakenUpTo, SoundUpTo
<1>3. Steps(closed)
  BY <1>2, RowIsTaken
<1>4. Steps(taken)
  BY <1>3, Zenon
<1>5. Canonical(source, allow) = taken[n].rows
  BY <1>1 DEF Canonical
<1> HIDE DEF taken, start
<1>6. \A m \in 0..n : taken[m] = IF m = 0 THEN start ELSE TakeRow(taken[m - 1], source[m], allow)
  BY <1>4
<1>7. 0..n \subseteq {m \in 0..n : taken[m] = closed[m]}
  <2> DEFINE S == {m \in 0..n : taken[m] = closed[m]}
  <2>1. 0 \in S
    <3>1. taken[0] = start
      BY <1>6
    <3>2. closed[0] = start
      BY <1>2
    <3>3. QED
      BY <3>1, <3>2
  <2>2. ASSUME NEW m \in 1..n, m - 1 \in S
        PROVE  m \in S
    <3>1. taken[m - 1] = TakenUpTo(source, allow, m - 1)
      BY <2>2
    <3>2. taken[m] = TakeRow(taken[m - 1], source[m], allow)
      BY <1>6
    <3>3. taken[m] = TakenUpTo(source, allow, m)
      BY <3>1, <3>2, RowIsTaken
    <3>4. QED
      BY <3>3
  <2> HIDE DEF S
  <2>3. 0..n \subseteq S
    BY <2>1, <2>2, InductionUpTo
  <2>4. QED
    BY <2>3 DEF S
<1>8. QED
  BY <1>5, <1>7

-----------------------------------------------------------------------------
(* The overlap of feeds.                                                   *)

\* The rows of a feed whose stamp the master has.
InMaster(tables, master, i) ==
  {k \in DOMAIN tables[i] : tables[i][k] \in Range(tables[master])}

\* The overlap of any number of feeds is what the last of those that are not the master
\* has in common with it (data.py 574-594).
THEOREM LastFeedDecides ==
  ASSUME NEW n \in Nat \ {0}, NEW tables, DOMAIN tables = 1..n, Len(tables) = n,
         NEW master \in 1..n
  PROVE  CommonCount(tables, master) =
           IF n = 1 THEN Cardinality(Range(tables[master]))
           ELSE Cardinality(InMaster(tables, master, IF master = n THEN n - 1 ELSE n))
<1> DEFINE start == Cardinality(Range(tables[master]))
           Steps(f) == f = [m \in 0..Len(tables) |-> IF m = 0 THEN start
                                           ELSE CountWith(f[m - 1], tables, master, m)]
           Of(m) == Cardinality(InMaster(tables, master, m))
           closed == [m \in 0..n |->
                        IF m = 0 \/ (m = master /\ m = 1) THEN start
                        ELSE Of(IF m = master THEN m - 1 ELSE m)]
           count == CHOOSE f : Steps(f)
<1>1. CommonCount(tables, master) = count[Len(tables)]
  BY DEF CommonCount
<1> HIDE DEF start
<1>2. \A m \in 1..n : \A c : CountWith(c, tables, master, m) = IF m = master THEN c ELSE Of(m)
  BY DEF CountWith, InMaster
<1> HIDE DEF Of
<1>3. Steps(closed)
  <2>1. \A m \in 1..n : closed[m] = CountWith(closed[m - 1], tables, master, m)
    BY <1>2
  <2>2. closed[0] = start
    OBVIOUS
  <2>3. closed = [m \in 0..n |-> closed[m]]
    OBVIOUS
  <2> HIDE DEF closed
  <2>4. \A m \in 0..n : closed[m] = IF m = 0 THEN start
                                   ELSE CountWith(closed[m - 1], tables, master, m)
    BY <2>1, <2>2
  <2>5. QED
    BY <2>3, <2>4
<1>4. Steps(count)
  BY <1>3, Zenon
<1> HIDE DEF count
<1>5. \A m \in 0..n : count[m] = IF m = 0 THEN start ELSE CountWith(count[m - 1], tables, master, m)
  BY <1>4
<1>6. ASSUME NEW m \in 1..n
      PROVE  count[m] = IF m = master THEN count[m - 1] ELSE Of(m)
  <2>1. count[m] = CountWith(count[m - 1], tables, master, m)
    BY <1>5
  <2>2. QED
    BY <1>2, <2>1
<1>7. CASE n = 1
  <2>1. count[1] = count[0] /\ count[0] = start
    BY <1>5, <1>6, <1>7
  <2>2. QED
    BY <1>1, <1>7, <2>1 DEF start
<1>8. CASE n # 1 /\ master = n
  <2>1. count[n] = count[n - 1] /\ count[n - 1] = Of(n - 1)
    BY <1>6, <1>8
  <2>2. QED
    BY <1>1, <1>8, <2>1 DEF Of
<1>9. CASE n # 1 /\ master # n
  <2>1. count[n] = Of(n)
    BY <1>6, <1>9
  <2>2. QED
    BY <1>1, <1>9, <2>1 DEF Of
<1>10. QED
  BY <1>7, <1>8, <1>9

\* The stamps of a canonical table are distinct.
Distinct(s) == \A i, k \in DOMAIN s : s[i] = s[k] => i = k

\* The overlap of two or more feeds is the number of the master's stamps that the last of
\* the others has: no less than what is common to all, no more than the master has, and
\* exactly what is common if there are two.
THEOREM OverlapBounds ==
  ASSUME NEW n \in Nat \ {0}, NEW tables, DOMAIN tables = 1..n, Len(tables) = n,
         NEW master \in 1..n,
         \A i \in 1..n : IsFiniteSet(DOMAIN tables[i]) /\ Distinct(tables[i])
  PROVE  LET both == {t \in Range(tables[master]) : \A i \in 1..n : t \in Range(tables[i])}
             count == CommonCount(tables, master)
         IN  /\ Cardinality(both) <= count
             /\ count <= Cardinality(Range(tables[master]))
             /\ n <= 2 => count = Cardinality(both)
<1> DEFINE all == Range(tables[master])
           both == {t \in all : \A i \in 1..n : t \in Range(tables[i])}
<1>1. IsFiniteSet(all) /\ Cardinality(all) \in Nat
  <2> DEFINE s == tables[master]
             f == [k \in DOMAIN s |-> s[k]]
  <2>1. f \in Surjection(DOMAIN s, all)
    BY DEF Surjection, Range
  <2>2. IsFiniteSet(DOMAIN s)
    OBVIOUS
  <2> HIDE DEF f, s, all
  <2>3. IsFiniteSet(all)
    BY <2>1, <2>2, FS_Surjection
  <2>4. QED
    BY <2>3, FS_CardinalityType
<1>2. CASE n = 1
  <2>1. both = all
    BY <1>2
  <2>2. CommonCount(tables, master) =
          IF n = 1 THEN Cardinality(all)
          ELSE Cardinality(InMaster(tables, master, IF master = n THEN n - 1 ELSE n))
    BY LastFeedDecides
  <2>3. CommonCount(tables, master) = Cardinality(both) /\ Cardinality(both) \in Nat
    BY <1>1, <1>2, <2>1, <2>2
  <2> DEFINE count == CommonCount(tables, master)
  <2>4. count = Cardinality(both) /\ count = Cardinality(all) /\ count \in Nat
    BY <2>1, <2>3
  <2> HIDE DEF all, both, count
  <2>5. /\ Cardinality(both) <= count /\ count <= Cardinality(all)
        /\ n <= 2 => count = Cardinality(both)
    BY <2>4
  <2>6. QED
    BY <2>5 DEF all, both, count
<1>3. CASE n # 1
  <2> DEFINE other == IF master = n THEN n - 1 ELSE n
             s == tables[other]
             found == InMaster(tables, master, other)
             shared == {t \in all : t \in Range(s)}
             f == [k \in found |-> s[k]]
  <2>1. other \in 1..n /\ (n <= 2 => \A i \in 1..n : i \in {master, other})
    BY <1>3
  <2>2. shared = {s[k] : k \in found}
    BY DEF InMaster, Range
  <2>3. IsFiniteSet(found)
    BY <2>1, FS_Subset DEF InMaster
  <2>4. f \in Bijection(found, shared)
    <3>1. found \subseteq DOMAIN s
      BY DEF InMaster
    <3>2. \A i, k \in found : f[i] = f[k] => i = k
      BY <2>1, <3>1 DEF Distinct
    <3>3. f \in [found -> shared]
      BY <2>2
    <3>4. \A t \in shared : \E k \in found : f[k] = t
      BY <2>2
    <3> HIDE DEF f, shared, found
    <3>5. QED
      BY <3>2, <3>3, <3>4 DEF Bijection, Injection, Surjection, IsInjective
  <2>5. CommonCount(tables, master) = Cardinality(found)
    <3>1. CommonCount(tables, master) =
            IF n = 1 THEN Cardinality(Range(tables[master]))
            ELSE Cardinality(InMaster(tables, master, IF master = n THEN n - 1 ELSE n))
      BY LastFeedDecides
    <3>2. QED
      BY <1>3, <3>1
  <2>6. Cardinality(shared) = Cardinality(found)
    <3> HIDE DEF f, shared, found
    <3>1. QED
      BY <2>3, <2>4, FS_Bijection DEF ExistsBijection
  <2>7. shared \in SUBSET all /\ both \in SUBSET shared /\ (n <= 2 => both = shared)
    BY <2>1
  <2> HIDE DEF f, shared, found, both, all, other
  <2>8. /\ IsFiniteSet(shared) /\ Cardinality(shared) <= Cardinality(all)
        /\ Cardinality(both) <= Cardinality(shared)
    BY <1>1, <2>7, FS_Subset
  <2>9. QED
    BY <2>5, <2>6, <2>7, <2>8 DEF all, both
<1>4. QED
  BY <1>2, <1>3

\* Of three feeds the overlap need not be the intersection: the last feed agrees with the
\* master, no stamp is common to all three, and one is counted (data.py 580-594).
THEOREM OverlapOfThreeOvercounts ==
  ASSUME NEW a, NEW b, a # b
  PROVE  LET tables == << <<a>>, <<b>>, <<a>> >> IN
         /\ CommonCount(tables, 1) = 1
         /\ {t \in Range(tables[1]) : \A i \in 1..3 : t \in Range(tables[i])} = {}
<1> DEFINE tables == << <<a>>, <<b>>, <<a>> >>
<1>1. DOMAIN tables = 1..3 /\ Len(tables) = 3
  OBVIOUS
<1>2. tables[1] = <<a>> /\ tables[2] = <<b>> /\ tables[3] = <<a>>
  OBVIOUS
<1>3. Range(tables[1]) = {a} /\ Range(tables[2]) = {b}
  <2>1. \A x : Range(<<x>>) = {x}
    <3>1. \A x : DOMAIN <<x>> = {1} /\ <<x>>[1] = x
      OBVIOUS
    <3>2. QED
      BY <3>1 DEF Range
  <2>2. QED
    BY <1>2, <2>1
<1> HIDE DEF tables
<1>4. CommonCount(tables, 1) = Cardinality(InMaster(tables, 1, 3))
  <2>1. 3 \in Nat \ {0} /\ 1 \in 1..3 /\ 3 # 1 /\ 1 # 3
    OBVIOUS
  <2>2. CommonCount(tables, 1) =
          IF 3 = 1 THEN Cardinality(Range(tables[1]))
          ELSE Cardinality(InMaster(tables, 1, IF 1 = 3 THEN 3 - 1 ELSE 3))
    BY <1>1, <2>1, LastFeedDecides
  <2>3. QED
    BY <2>1, <2>2
<1>5. InMaster(tables, 1, 3) = {1}
  <2>1. DOMAIN tables[3] = {1} /\ tables[3][1] = a
    BY <1>2
  <2>2. QED
    BY <1>3, <2>1 DEF InMaster
<1>6. Cardinality({1}) = 1
  BY FS_Singleton
<1>7. {t \in Range(tables[1]) : \A i \in 1..3 : t \in Range(tables[i])} = {}
  BY <1>3
<1>8. QED
  BY <1>4, <1>5, <1>6, <1>7 DEF tables

-----------------------------------------------------------------------------
(* Derived columns.                                                        *)

\* The running equation of a sum of cells.
LEMMA SumOfStep ==
  ASSUME NEW n \in Nat, NEW cells \in [1..n -> Int], NEW first \in Nat \ {0}
  PROVE  /\ \A last \in 0..n : SumOf(cells, first, last) \in Int
         /\ \A last \in 0..n : last < first => SumOf(cells, first, last) = 0
         /\ \A last \in 1..n : last >= first =>
              SumOf(cells, first, last) = SumOf(cells, first, last - 1) + cells[last]
<1> DEFINE Steps(f) == f = [i \in 0..Len(cells) |-> IF i < first THEN 0 ELSE f[i - 1] + cells[i]]
           sum == CHOOSE f : Steps(f)
           step == [p \in Int \X (1..n) |-> IF p[2] < first THEN 0 ELSE p[1] + cells[p[2]]]
<1>1. \A last : SumOf(cells, first, last) = sum[last]
  BY DEF SumOf
<1>2. Len(cells) = n
  OBVIOUS
<1>3. \E f \in [0..n -> Int] : Steps(f)
  <2>1. step \in [Int \X (1..n) -> Int]
    OBVIOUS
  <2>2. \A x \in Int, i \in 1..n : step[<<x, i>>] = IF i < first THEN 0 ELSE x + cells[i]
    OBVIOUS
  <2> DEFINE Sums == Int
  <2>3. 0 \in Sums /\ step \in [Sums \X (1..n) -> Sums]
    BY <2>1
  <2> HIDE DEF step, Sums
  <2>4. PICK f \in [0..n -> Sums] : Recursion(f, n, 0, step)
    BY <2>3, RecursionUpTo
  <2>5. /\ f \in [0..n -> Int]
        /\ f[0] = 0
        /\ \A i \in 1..n : f[i] = step[<<f[i - 1], i>>]
    BY <2>4 DEF Sums, Recursion
  <2>7. ASSUME NEW i \in 0..n
        PROVE  f[i] = IF i < first THEN 0 ELSE f[i - 1] + cells[i]
    <3>1. CASE i = 0
      <4>1. i < first
        BY <3>1
      <4>2. f[i] = 0
        BY <2>5, <3>1
      <4>3. QED
        BY <4>1, <4>2
    <3>2. CASE i # 0
      <4>1. i \in 1..n /\ f[i - 1] \in Int
        BY <2>5, <3>2
      <4>2. QED
        BY <2>2, <2>5, <3>2, <4>1
    <3>3. QED
      BY <3>1, <3>2
  <2>8. Steps(f)
    BY <1>2, <2>7
  <2>9. QED
    BY <2>5, <2>8
<1>4. Steps(sum)
  BY <1>3, Zenon
<1> HIDE DEF sum
<1>5. \A i \in 0..n : sum[i] = IF i < first THEN 0 ELSE sum[i - 1] + cells[i]
  BY <1>2, <1>4
<1>6. \A i \in 0..n : sum[i] \in Int
  <2> DEFINE S == {i \in 0..n : sum[i] \in Int}
  <2>1. 0 \in S
    BY <1>5
  <2>2. ASSUME NEW i \in 1..n, i - 1 \in S
        PROVE  i \in S
    BY <1>5, <2>2
  <2> HIDE DEF S
  <2>3. 0..n \subseteq S
    BY <2>1, <2>2, InductionUpTo
  <2>4. QED
    BY <2>3 DEF S
<1>7. \A last \in 0..n : last < first => sum[last] = 0
  BY <1>5
<1>8. \A last \in 1..n : last >= first => sum[last] = sum[last - 1] + cells[last]
  BY <1>5
<1> HIDE DEF Steps
<1>9. QED
  BY <1>1, <1>6, <1>7, <1>8

\* A sum may be taken from its first cell on as well.
LEMMA SumOfFirst ==
  ASSUME NEW n \in Nat, NEW cells \in [1..n -> Int], NEW first \in 1..n, NEW last \in first..n
  PROVE  SumOf(cells, first, last) = cells[first] + SumOf(cells, first + 1, last)
<1> DEFINE whole(i) == SumOf(cells, first, i)
           rest(i) == SumOf(cells, first + 1, i)
           S == {i \in 0..n : i >= first => whole(i) = cells[first] + rest(i)}
<1>1. first \in Nat \ {0} /\ first + 1 \in Nat \ {0}
  OBVIOUS
<1>2. /\ \A i \in 0..n : whole(i) \in Int
      /\ \A i \in 0..n : i < first => whole(i) = 0
      /\ \A i \in 1..n : i >= first => whole(i) = whole(i - 1) + cells[i]
  BY <1>1, SumOfStep
<1>3. /\ \A i \in 0..n : rest(i) \in Int
      /\ \A i \in 0..n : i < first + 1 => rest(i) = 0
      /\ \A i \in 1..n : i >= first + 1 => rest(i) = rest(i - 1) + cells[i]
  BY <1>1, SumOfStep
<1> HIDE DEF whole, rest
<1>4. 0 \in S
  OBVIOUS
<1>5. ASSUME NEW i \in 1..n, i - 1 \in S
      PROVE  i \in S
  <2>1. i \in 0..n /\ i - 1 \in 0..n /\ cells[i] \in Int /\ cells[first] \in Int
    OBVIOUS
  <2>2. CASE i < first
    BY <2>1, <2>2
  <2>3. CASE i = first
    <3>1. whole(i) = whole(i - 1) + cells[i] /\ whole(i - 1) = 0 /\ rest(i) = 0
      BY <1>2, <1>3, <2>1, <2>3
    <3>2. QED
      BY <2>1, <2>3, <3>1
  <2>4. CASE i > first
    <3>1. whole(i) = whole(i - 1) + cells[i] /\ rest(i) = rest(i - 1) + cells[i]
      BY <1>2, <1>3, <2>1, <2>4
    <3>2. whole(i - 1) = cells[first] + rest(i - 1)
      BY <1>5, <2>4
    <3>3. rest(i - 1) \in Int
      BY <1>3, <2>1
    <3>4. QED
      BY <2>1, <3>1, <3>2, <3>3
  <2>5. QED
    BY <2>1, <2>2, <2>3, <2>4
<1> HIDE DEF S
<1>6. 0..n \subseteq S
  BY <1>4, <1>5, InductionUpTo
<1>7. QED
  BY <1>6 DEF S, whole, rest

\* What a derivation keeps between two rows (data.py 984-1046).
DerivedRows == [row : Nat, cell : Int \X Int]
Derivations ==
  [previous : Int \cup {Garbage}, window : Seq(Int), rolling : Int, rows : Seq(DerivedRows)]

\* A step keeps a derivation one.
LEMMA DeriveStepType ==
  ASSUME NEW acc \in Derivations, NEW i \in Nat, NEW value \in Int,
         NEW profile \in Profiles, NEW period \in Nat \ {0}
  PROVE  DeriveStep(acc, i, value, profile, period) \in Derivations
<1>1. /\ acc.previous \in Int \cup {Garbage} /\ acc.window \in Seq(Int)
      /\ acc.rolling \in Int /\ acc.rows \in Seq(DerivedRows)
  BY DEF Derivations
<1>2. ASSUME NEW cell \in Int \X Int
      PROVE  Kept(acc, i, cell) \in Seq(DerivedRows)
  <2>1. [row |-> i, cell |-> cell] \in DerivedRows
    BY DEF DerivedRows
  <2>2. QED
    BY <1>1, <2>1 DEF Kept
<1>3. NoCell \in Int \X Int
  BY DEF NoCell
<1>4. ReturnsStep(acc, i, value) \in Derivations
  <2>1. acc.previous \notin {Garbage, 0} => Kept(acc, i, <<value, acc.previous>>) \in Seq(DerivedRows)
    BY <1>1, <1>2
  <2>2. QED
    BY <1>1, <2>1 DEF ReturnsStep, Derivations
<1>5. SmaStep(acc, i, value, period) \in Derivations
  <2> DEFINE window == Append(acc.window, value)
             full == Len(window) > period
             sum == acc.rolling + value - (IF full THEN Head(window) ELSE 0)
  <2>1. window \in Seq(Int) /\ window # <<>> /\ Tail(window) \in Seq(Int) /\ Head(window) \in Int
    BY <1>1
  <2>2. sum \in Int
    BY <1>1, <2>1
  <2> HIDE DEF window, sum
  <2>3. Kept(acc, i, <<sum, period>>) \in Seq(DerivedRows)
    BY <1>2, <2>2
  <2>4. SmaStep(acc, i, value, period) =
          [acc EXCEPT
             !.window = IF full THEN Tail(window) ELSE window,
             !.rolling = sum,
             !.rows = IF Len(window) < period THEN @ ELSE Kept(acc, i, <<sum, period>>)]
    BY DEF SmaStep, window, sum
  <2> HIDE DEF full
  <2>5. QED
    BY <1>1, <2>1, <2>2, <2>3, <2>4 DEF Derivations
<1>6. [acc EXCEPT !.rows = Kept(acc, i, NoCell)] \in Derivations
  BY <1>1, <1>2, <1>3 DEF Derivations
<1>7. [acc EXCEPT !.rows = IF value = Garbage THEN @ ELSE Kept(acc, i, NoCell)] \in Derivations
  BY <1>1, <1>2, <1>3 DEF Derivations
<1>8. QED
  BY <1>4, <1>5, <1>6, <1>7 DEF DeriveStep, Profiles

\* A derivation of n cells: its state after each of them.
Derivation(after, n, cells, profile, period) ==
  /\ after \in [0..n -> Derivations]
  /\ after[0] = DeriveStart
  /\ \A i \in 1..n : after[i] = DeriveStep(after[i - 1], i, cells[i], profile, period)

\* _stream_derived has what such a derivation ends with.
LEMMA DeriveRuns ==
  ASSUME NEW n \in Nat, NEW cells \in [1..n -> Int],
         NEW profile \in Profiles, NEW period \in Nat \ {0}
  PROVE  \E after : /\ Derivation(after, n, cells, profile, period)
                    /\ Derive(profile, period, cells) = after[n].rows
<1> DEFINE StepTo(acc, i) == DeriveStep(acc, i, cells[i], profile, period)
           Steps(f) == f = [i \in 0..Len(cells) |->
                              IF i = 0 THEN DeriveStart ELSE StepTo(f[i - 1], i)]
           after == CHOOSE f : Steps(f)
           step == [p \in Derivations \X (1..n) |-> StepTo(p[1], p[2])]
<1>1. Len(cells) = n
  OBVIOUS
<1>2. Derive(profile, period, cells) = after[n].rows
  BY <1>1 DEF Derive
<1>3. DeriveStart \in Derivations
  BY DEF DeriveStart, Derivations
<1>4. ASSUME NEW acc \in Derivations, NEW i \in 1..n
      PROVE  StepTo(acc, i) \in Derivations
  <2>1. i \in Nat /\ cells[i] \in Int
    OBVIOUS
  <2>2. QED
    BY <2>1, DeriveStepType
<1> HIDE DEF StepTo
<1>5. step \in [Derivations \X (1..n) -> Derivations]
  BY <1>4
<1>6. \A acc \in Derivations, i \in 1..n : step[<<acc, i>>] = StepTo(acc, i)
  OBVIOUS
<1> HIDE DEF step
<1>7. PICK f \in [0..n -> Derivations] : Recursion(f, n, DeriveStart, step)
  BY <1>3, <1>5, RecursionUpTo
<1>8. f[0] = DeriveStart /\ \A i \in 1..n : f[i] = StepTo(f[i - 1], i)
  <2>1. f[0] = DeriveStart /\ \A i \in 1..n : f[i] = step[<<f[i - 1], i>>]
    BY <1>7 DEF Recursion
  <2>2. ASSUME NEW i \in 1..n
        PROVE  f[i] = StepTo(f[i - 1], i)
    <3>1. f[i - 1] \in Derivations
      BY <1>7
    <3>2. QED
      BY <1>6, <2>1, <3>1
  <2>3. QED
    BY <2>1, <2>2
<1>9. f = [i \in 0..n |-> IF i = 0 THEN DeriveStart ELSE StepTo(f[i - 1], i)]
  <2>1. ASSUME NEW i \in 0..n
        PROVE  f[i] = IF i = 0 THEN DeriveStart ELSE StepTo(f[i - 1], i)
    BY <1>8
  <2>2. QED
    BY <2>1
<1>10. Steps(f)
  BY <1>1, <1>9
<1>11. Steps(after)
  BY <1>10, Zenon
<1> HIDE DEF after
<1>12. \A i \in 0..n : after[i] = IF i = 0 THEN DeriveStart ELSE StepTo(after[i - 1], i)
  BY <1>1, <1>11
<1>13. \A i \in 0..n : after[i] \in Derivations
  <2> DEFINE typed == {i \in 0..n : after[i] \in Derivations}
  <2>1. 0 \in typed
    BY <1>3, <1>12
  <2>2. ASSUME NEW i \in 1..n, i - 1 \in typed
        PROVE  i \in typed
    BY <1>4, <1>12, <2>2
  <2> HIDE DEF typed
  <2>3. 0..n \subseteq typed
    BY <2>1, <2>2, InductionUpTo
  <2>4. QED
    BY <2>3 DEF typed
<1>14. after \in [0..n -> Derivations]
  BY <1>1, <1>11, <1>13
<1>15. after[0] = DeriveStart /\ \A i \in 1..n : after[i] = StepTo(after[i - 1], i)
  BY <1>12
<1>16. QED
  BY <1>2, <1>14, <1>15 DEF Derivation, StepTo

\* Rows in order, one for each of done, that hold its cell.
RowsAre(rows, done, cell) ==
  /\ rows \in Seq(DerivedRows)
  /\ \A a, b \in 1..Len(rows) : a < b => rows[a].row < rows[b].row
  /\ \A a \in 1..Len(rows) : rows[a].row \in done /\ rows[a].cell = cell[rows[a].row]
  /\ \A i \in done : \E a \in 1..Len(rows) : rows[a].row = i

\* A later row may be appended.
LEMMA RowAppended ==
  ASSUME NEW cell, NEW done \in SUBSET Nat, NEW rows, RowsAre(rows, done, cell),
         NEW i \in Nat, \A d \in done : d < i, cell[i] \in Int \X Int
  PROVE  RowsAre(Append(rows, [row |-> i, cell |-> cell[i]]), done \cup {i}, cell)
<1> DEFINE new == [row |-> i, cell |-> cell[i]]
           more == Append(rows, new)
           n == Len(rows)
<1>1. new \in DerivedRows /\ new.row = i /\ new.cell = cell[i]
  BY DEF DerivedRows
<1>2. rows \in Seq(DerivedRows) /\ n \in Nat
  BY DEF RowsAre
<1> HIDE DEF new
<1>3. /\ more \in Seq(DerivedRows) /\ Len(more) = n + 1
      /\ \A a \in 1..n : more[a] = rows[a]
      /\ more[n + 1] = new
  BY <1>1, <1>2
<1> HIDE DEF more, n
<1>4. /\ \A a, b \in 1..n : a < b => rows[a].row < rows[b].row
      /\ \A a \in 1..n : rows[a].row \in done /\ rows[a].cell = cell[rows[a].row]
      /\ \A d \in done : \E a \in 1..n : rows[a].row = d
  BY DEF RowsAre, n
<1>5. ASSUME NEW a \in 1..(n + 1), NEW b \in 1..(n + 1), a < b
      PROVE  more[a].row < more[b].row
  <2>1. a \in 1..n
    BY <1>2, <1>5
  <2>2. CASE b \in 1..n
    BY <1>3, <1>4, <1>5, <2>1, <2>2
  <2>3. CASE b = n + 1
    BY <1>1, <1>3, <1>4, <2>1, <2>3
  <2>4. QED
    BY <1>2, <2>2, <2>3
<1>6. ASSUME NEW a \in 1..(n + 1)
      PROVE  more[a].row \in done \cup {i} /\ more[a].cell = cell[more[a].row]
  <2>1. CASE a \in 1..n
    BY <1>3, <1>4, <2>1
  <2>2. CASE a = n + 1
    BY <1>1, <1>3, <2>2
  <2>3. QED
    BY <1>2, <2>1, <2>2
<1>7. ASSUME NEW d \in done \cup {i}
      PROVE  \E a \in 1..(n + 1) : more[a].row = d
  <2>1. CASE d \in done
    <3>1. PICK a \in 1..n : rows[a].row = d
      BY <1>4, <2>1
    <3>2. a \in 1..(n + 1) /\ more[a].row = d
      BY <1>2, <1>3, <3>1
    <3>3. QED
      BY <3>2
  <2>2. CASE d = i
    <3>1. n + 1 \in 1..(n + 1) /\ more[n + 1].row = d
      BY <1>1, <1>2, <1>3, <2>2
    <3>2. QED
      BY <3>1
  <2>3. QED
    BY <2>1, <2>2
<1>8. QED
  BY <1>3, <1>5, <1>6, <1>7 DEF RowsAre, more, new

\* The rows after each cell: one more when the cell is to have one.
RowsGrow(rows, n, defined, cell) ==
  /\ rows[0] = <<>>
  /\ \A i \in 1..n :
       /\ i \in defined => rows[i] = Append(rows[i - 1], [row |-> i, cell |-> cell[i]])
       /\ i \notin defined => rows[i] = rows[i - 1]

\* What grows that way ends with a row for each cell that is to have one.
LEMMA RowsOfARun ==
  ASSUME NEW n \in Nat, NEW defined \in SUBSET (1..n), NEW cell \in [1..n -> Int \X Int],
         NEW rows, RowsGrow(rows, n, defined, cell)
  PROVE  RowsAre(rows[n], defined, cell)
<1> DEFINE until(k) == {i \in defined : i <= k}
           reached == {k \in 0..n : RowsAre(rows[k], until(k), cell)}
<1>1. \A i \in defined : i \in Int /\ 1 <= i /\ i <= n
  OBVIOUS
<1>2. ASSUME NEW k \in 1..n
      PROVE  /\ k \in Nat /\ k \in 0..n /\ k - 1 \in 0..n /\ cell[k] \in Int \X Int
             /\ k \in defined => rows[k] = Append(rows[k - 1], [row |-> k, cell |-> cell[k]])
             /\ k \notin defined => rows[k] = rows[k - 1]
  BY DEF RowsGrow
<1>3. rows[0] = <<>>
  BY DEF RowsGrow
<1>4. 0 \in reached
  <2>1. until(0) = {}
    <3>1. \A d \in defined : ~ d <= 0
      BY <1>1
    <3>2. QED
      BY <3>1
  <2>2. RowsAre(<<>>, {}, cell)
    BY DEF RowsAre
  <2>3. RowsAre(rows[0], until(0), cell)
    BY <1>3, <2>1, <2>2
  <2>4. QED
    BY <2>3
<1>5. ASSUME NEW k \in 1..n, k - 1 \in reached
      PROVE  k \in reached
  <2>1. RowsAre(rows[k - 1], until(k - 1), cell)
    BY <1>5
  <2>2. until(k - 1) \in SUBSET Nat
    <3>1. \A d \in defined : d \in Nat
      BY <1>1
    <3>2. QED
      BY <3>1
  <2>3. \A d \in until(k - 1) : d < k
    BY <1>1
  <2>4. CASE k \in defined
    <3>1. until(k) = until(k - 1) \cup {k}
      <4>1. \A d \in defined : d <= k <=> d <= k - 1 \/ d = k
        BY <1>1
      <4>2. QED
        BY <2>4, <4>1
    <3> HIDE DEF until
    <3>2. RowsAre(Append(rows[k - 1], [row |-> k, cell |-> cell[k]]),
                  until(k - 1) \cup {k}, cell)
      BY <1>2, <2>1, <2>2, <2>3, RowAppended
    <3>3. RowsAre(rows[k], until(k), cell)
      BY <1>2, <2>4, <3>1, <3>2
    <3>4. QED
      BY <1>2, <3>3
  <2>5. CASE k \notin defined
    <3>1. until(k) = until(k - 1)
      <4>1. \A d \in defined : d <= k <=> d <= k - 1
        BY <1>1, <2>5
      <4>2. QED
        BY <4>1
    <3> HIDE DEF until
    <3>2. RowsAre(rows[k], until(k), cell)
      BY <1>2, <2>1, <2>5, <3>1
    <3>3. QED
      BY <1>2, <3>2
  <2>6. QED
    BY <2>4, <2>5
<1>6. until(n) = defined
  BY <1>1
<1> HIDE DEF reached, until
<1>7. 0..n \subseteq reached
  BY <1>4, <1>5, InductionUpTo
<1>8. n \in reached
  BY <1>7
<1>9. QED
  BY <1>6, <1>8 DEF reached

\* identity and dropna keep every row of a table without empty cells (data.py 984-1003).
LEMMA PlainProfile ==
  ASSUME NEW n \in Nat, NEW cells \in [1..n -> Int],
         NEW profile \in {"identity", "dropna"}, NEW period \in Nat \ {0}
  PROVE  RowsAre(Derive(profile, period, cells), 1..n, [i \in 1..n |-> NoCell])
<1> DEFINE cell == [i \in 1..n |-> NoCell]
<1>1. profile \in Profiles
  BY DEF Profiles
<1>2. PICK after : /\ Derivation(after, n, cells, profile, period)
                   /\ Derive(profile, period, cells) = after[n].rows
  BY <1>1, DeriveRuns
<1> DEFINE rows == [k \in 0..n |-> after[k].rows]
<1>3. rows[0] = <<>>
  BY <1>2 DEF Derivation, DeriveStart
<1>4. ASSUME NEW i \in 1..n
      PROVE  rows[i] = Append(rows[i - 1], [row |-> i, cell |-> cell[i]])
  <2>1. after[i - 1] \in Derivations
    BY <1>2 DEF Derivation
  <2>2. cells[i] # Garbage
    BY FeedDataAssumption
  <2>3. after[i].rows = Kept(after[i - 1], i, NoCell)
    <3>1. after[i] = DeriveStep(after[i - 1], i, cells[i], profile, period)
      BY <1>2 DEF Derivation
    <3>2. CASE profile = "identity"
      BY <2>1, <3>1, <3>2 DEF DeriveStep, Derivations
    <3>3. CASE profile = "dropna"
      BY <2>1, <2>2, <3>1, <3>3 DEF DeriveStep, Derivations
    <3>4. QED
      BY <3>2, <3>3
  <2>4. QED
    BY <2>3 DEF Kept
<1>5. cell \in [1..n -> Int \X Int]
  BY DEF NoCell
<1> HIDE DEF rows, cell
<1>6. RowsGrow(rows, n, 1..n, cell)
  BY <1>3, <1>4 DEF RowsGrow
<1>7. RowsAre(rows[n], 1..n, cell)
  BY <1>5, <1>6, RowsOfARun
<1>8. QED
  BY <1>2, <1>7 DEF rows, cell

\* returns: the cell before is the one divided by, the rows without a divisor are dropped.
LEMMA ReturnsProfile ==
  ASSUME NEW n \in Nat, NEW cells \in [1..n -> Int], NEW period \in Nat \ {0}
  PROVE  RowsAre(Derive("returns", period, cells),
                 {i \in 2..n : cells[i - 1] # 0},
                 [i \in 1..n |-> IF i = 1 THEN NoCell ELSE <<cells[i], cells[i - 1]>>])
<1> DEFINE defined == {i \in 2..n : cells[i - 1] # 0}
           cell == [i \in 1..n |-> IF i = 1 THEN NoCell ELSE <<cells[i], cells[i - 1]>>]
<1>1. "returns" \in Profiles
  BY DEF Profiles
<1>2. PICK after : /\ Derivation(after, n, cells, "returns", period)
                   /\ Derive("returns", period, cells) = after[n].rows
  BY <1>1, DeriveRuns
<1>3. ASSUME NEW i \in 1..n
      PROVE  /\ after[i].previous = cells[i]
             /\ after[i].rows = IF after[i - 1].previous \in {Garbage, 0} THEN after[i - 1].rows
                                ELSE Append(after[i - 1].rows,
                                       [row |-> i, cell |-> <<cells[i], after[i - 1].previous>>])
  <2>1. after[i] = ReturnsStep(after[i - 1], i, cells[i])
    BY <1>2 DEF Derivation, DeriveStep
  <2>2. after[i - 1] \in Derivations
    BY <1>2 DEF Derivation
  <2>3. QED
    BY <2>1, <2>2 DEF ReturnsStep, Kept, Derivations
<1>4. after[0].previous = Garbage /\ after[0].rows = <<>>
  BY <1>2 DEF Derivation, DeriveStart
<1> DEFINE rows == [k \in 0..n |-> after[k].rows]
<1>5. rows[0] = <<>>
  BY <1>4
<1>6. ASSUME NEW i \in 1..n
      PROVE  /\ i \in defined => rows[i] = Append(rows[i - 1], [row |-> i, cell |-> cell[i]])
             /\ i \notin defined => rows[i] = rows[i - 1]
  <2>1. rows[i] = after[i].rows /\ rows[i - 1] = after[i - 1].rows
    OBVIOUS
  <2>2. CASE i = 1
    <3>1. after[i].rows = after[i - 1].rows
      <4>1. i - 1 = 0
        BY <2>2
      <4>2. after[i - 1].previous = Garbage
        BY <1>4, <4>1, Zenon
      <4>3. QED
        BY <1>3, <4>2
    <3>2. i \notin defined
      BY <2>2
    <3>3. QED
      BY <2>1, <3>1, <3>2
  <2>3. CASE i # 1
    <3>1. i - 1 \in 1..n /\ i \in 2..n
      BY <2>3
    <3>2. after[i - 1].previous = cells[i - 1] /\ cells[i - 1] \in Int /\ cells[i - 1] # Garbage
      BY <1>3, <3>1, FeedDataAssumption
    <3>3. cell[i] = <<cells[i], cells[i - 1]>>
      BY <2>3
    <3>4. i \in defined <=> cells[i - 1] # 0
      BY <3>1
    <3> HIDE DEF rows, cell, defined
    <3>5. QED
      BY <1>3, <2>1, <3>2, <3>3, <3>4
  <2>4. QED
    BY <2>2, <2>3
<1>7. cell \in [1..n -> Int \X Int]
  <2>1. ASSUME NEW i \in 1..n
        PROVE  (IF i = 1 THEN NoCell ELSE <<cells[i], cells[i - 1]>>) \in Int \X Int
    <3>1. i # 1 => i - 1 \in 1..n
      OBVIOUS
    <3>2. QED
      BY <3>1 DEF NoCell
  <2>2. QED
    BY <2>1
<1>8. defined \in SUBSET (1..n)
  OBVIOUS
<1> HIDE DEF rows, cell, defined
<1>9. RowsGrow(rows, n, defined, cell)
  BY <1>5, <1>6 DEF RowsGrow
<1>10. RowsAre(rows[n], defined, cell)
  BY <1>7, <1>8, <1>9, RowsOfARun
<1>11. QED
  BY <1>2, <1>10 DEF rows, cell, defined

\* The width of the window after k cells.
Wide(k, period) == IF k < period THEN k ELSE period

\* The window is the last cells, and the running sum is theirs.
Averages(acc, k, cells, period) ==
  /\ Len(acc.window) = Wide(k, period)
  /\ \A j \in 1..Wide(k, period) : acc.window[j] = cells[k - Wide(k, period) + j]
  /\ acc.rolling = SumOf(cells, k - Wide(k, period) + 1, k)

\* A step keeps that, and once the window is full it emits the mean of the last period
\* cells: what leaves the window leaves the sum.
LEMMA SmaStepAverages ==
  ASSUME NEW n \in Nat, NEW cells \in [1..n -> Int], NEW period \in Nat \ {0},
         NEW i \in 1..n, NEW acc \in Derivations, Averages(acc, i - 1, cells, period)
  PROVE  /\ Averages(SmaStep(acc, i, cells[i], period), i, cells, period)
         /\ SmaStep(acc, i, cells[i], period).rows =
              IF i < period THEN acc.rows
              ELSE Append(acc.rows,
                     [row |-> i, cell |-> <<SumOf(cells, i - period + 1, i), period>>])
<1> DEFINE value == cells[i]
           window == Append(acc.window, value)
           wide == Wide(i - 1, period)
           first == i - wide
           full == Len(window) > period
           sum == acc.rolling + value - (IF full THEN Head(window) ELSE 0)
           left == IF full THEN Tail(window) ELSE window
           new == SmaStep(acc, i, value, period)
<1>1. /\ i \in Nat /\ i >= 1 /\ i <= n /\ value \in Int /\ i - 1 \in 0..n /\ i \in 0..n
      /\ period \in Nat /\ period >= 1
  OBVIOUS
<1>2. wide \in Nat /\ wide <= i - 1 /\ wide <= period /\ (wide < period => wide = i - 1)
  BY <1>1 DEF Wide
<1>3. /\ acc.window \in Seq(Int) /\ Len(acc.window) = wide
      /\ \A j \in 1..wide : acc.window[j] = cells[first - 1 + j]
      /\ acc.rolling = SumOf(cells, first, i - 1)
  <2>1. i - 1 - wide = first - 1 /\ i - 1 - wide + 1 = first
    BY <1>1, <1>2
  <2> HIDE DEF wide, first
  <2>2. acc.window \in Seq(Int)
    BY DEF Derivations
  <2>3. /\ Len(acc.window) = wide
        /\ \A j \in 1..wide : acc.window[j] = cells[i - 1 - wide + j]
        /\ acc.rolling = SumOf(cells, i - 1 - wide + 1, i - 1)
    BY DEF Averages, wide
  <2>4. QED
    BY <2>1, <2>2, <2>3
<1>4. /\ window \in Seq(Int) /\ Len(window) = wide + 1
      /\ \A j \in 1..wide : window[j] = cells[first - 1 + j]
      /\ window[wide + 1] = cells[i]
  <2>1. acc.window \in Seq(Int) /\ value \in Int
    BY <1>1, <1>3
  <2> HIDE DEF value, wide, first
  <2>2. /\ window \in Seq(Int) /\ Len(window) = wide + 1
        /\ \A j \in 1..wide : window[j] = acc.window[j]
        /\ window[wide + 1] = value
    BY <1>2, <1>3, <2>1
  <2> HIDE DEF window
  <2>3. QED
    BY <1>3, <2>2 DEF value
<1>5. \A j \in 1..(wide + 1) : window[j] = cells[first - 1 + j]
  <2>1. first - 1 + (wide + 1) = i
    BY <1>1, <1>2
  <2> HIDE DEF window, wide, first
  <2>2. \A j \in 1..(wide + 1) : j \in 1..wide \/ j = wide + 1
    BY <1>2
  <2>3. QED
    BY <1>4, <2>1, <2>2
<1>6. first \in 1..n /\ first <= i
  BY <1>1, <1>2
<1> HIDE DEF value, window, wide, first
<1>7. new = [acc EXCEPT
               !.window = left,
               !.rolling = sum,
               !.rows = IF Len(window) < period THEN @ ELSE Kept(acc, i, <<sum, period>>)]
  BY DEF SmaStep, window
<1>8. acc.rolling + value = SumOf(cells, first, i)
  <2>1. first \in Nat \ {0} /\ i >= first
    BY <1>6
  <2>2. SumOf(cells, first, i) = SumOf(cells, first, i - 1) + cells[i]
    BY <2>1, SumOfStep
  <2>3. QED
    BY <1>3, <2>2 DEF value
<1>9. full <=> wide = period
  BY <1>1, <1>2, <1>4
<1>10. CASE full
  <2>1. wide = period /\ first = i - period
    BY <1>9, <1>10 DEF first
  <2>2. Head(window) = cells[first]
    <3>1. window[1] = cells[first]
      BY <1>2, <1>5, <1>6
    <3>2. QED
      BY <1>2, <1>4, <3>1
  <2>3. sum = SumOf(cells, first + 1, i)
    <3>1. /\ SumOf(cells, first, i) = cells[first] + SumOf(cells, first + 1, i)
      <4>1. i \in first..n
        BY <1>1, <1>6
      <4>2. QED
        BY <1>6, <4>1, SumOfFirst
    <3>2. SumOf(cells, first + 1, i) \in Int /\ cells[first] \in Int
      <4>1. first + 1 \in Nat \ {0}
        BY <1>6
      <4>2. QED
        BY <1>1, <1>6, <4>1, SumOfStep
    <3>3. sum = acc.rolling + value - Head(window)
      BY <1>10
    <3>4. acc.rolling \in Int /\ value \in Int
      BY <1>1 DEF Derivations
    <3> HIDE DEF sum, full, left, new
    <3>5. acc.rolling + value = cells[first] + SumOf(cells, first + 1, i)
      BY <1>8, <3>1
    <3>6. sum = acc.rolling + value - cells[first]
      BY <2>2, <3>3
    <3> DEFINE old == acc.rolling
    <3> DEFINE gone == cells[first]
    <3> DEFINE rest == SumOf(cells, first + 1, i)
    <3>7. old + value = gone + rest /\ {old, value, gone, rest} \subseteq Int
      BY ONLY <3>2, <3>4, <3>5
    <3> HIDE DEF old, gone, rest
    <3>8. old + value - gone = rest
      BY ONLY <3>7
    <3> USE DEF old, gone, rest
    <3>9. QED
      BY ONLY <3>6, <3>8
  <2>4. Len(left) = period /\ \A j \in 1..period : left[j] = cells[first + j]
    <3>1. left = Tail(window) /\ window # <<>>
      BY <1>2, <1>4, <1>10
    <3> HIDE DEF left
    <3>2. Len(left) = period /\ \A j \in 1..period : left[j] = window[j + 1]
      BY <1>1, <1>4, <2>1, <3>1
    <3>3. ASSUME NEW j \in 1..period
          PROVE  left[j] = cells[first + j]
      <4>1. j + 1 \in 1..(wide + 1) /\ first - 1 + (j + 1) = first + j
        BY <1>1, <1>6, <2>1
      <4>2. window[j + 1] = cells[first - 1 + (j + 1)]
        BY <1>5, <4>1
      <4>3. QED
        BY <3>2, <4>1, <4>2
    <3>4. QED
      BY <3>2, <3>3
  <2>5. Wide(i, period) = period /\ ~ i < period /\ ~ Len(window) < period
    BY <1>1, <1>2, <1>4, <2>1 DEF Wide
  <2>6. i - period = first /\ i - period + 1 = first + 1
    BY <1>1, <2>1
  <2> HIDE DEF left, sum, new, full
  <2>7. /\ new.window = left /\ new.rolling = sum
        /\ new.rows = Append(acc.rows, [row |-> i, cell |-> <<sum, period>>])
    BY <1>7, <2>5 DEF Derivations, Kept
  <2>8. Averages(new, i, cells, period)
    BY <2>3, <2>4, <2>5, <2>6, <2>7 DEF Averages
  <2>9. QED
    BY <2>3, <2>5, <2>6, <2>7, <2>8 DEF new, value
<1>11. CASE ~ full
  <2>1. wide < period /\ wide = i - 1 /\ first = 1
    BY <1>1, <1>2, <1>9, <1>11 DEF first
  <2>2. sum = SumOf(cells, 1, i) /\ left = window
    <3>1. acc.rolling + value \in Int
      <4>1. 1 \in Nat \ {0} /\ acc.rolling + value = SumOf(cells, 1, i)
        BY <1>8, <2>1
      <4>2. QED
        BY <1>1, <4>1, SumOfStep
    <3>2. acc.rolling \in Int /\ value \in Int
      BY <1>1 DEF Derivations, value
    <3>3. QED
      BY <1>8, <1>11, <2>1, <3>2
  <2>3. Wide(i, period) = i /\ i - i + 1 = 1 /\ Len(window) = i
    BY <1>1, <1>4, <2>1 DEF Wide
  <2>4. \A j \in 1..i : window[j] = cells[i - i + j]
    <3>1. ASSUME NEW j \in 1..i
          PROVE  window[j] = cells[i - i + j]
      <4>1. j \in 1..(wide + 1) /\ first - 1 + j = j /\ i - i + j = j
        BY <1>1, <2>1
      <4>2. QED
        BY <1>5, <4>1
    <3>2. QED
      BY <3>1
  <2>5. ~ i < period => i - period + 1 = 1
    BY <1>1, <2>1
  <2> HIDE DEF left, sum, new, full
  <2>6. /\ new.window = window /\ new.rolling = sum
        /\ new.rows = IF i < period THEN acc.rows
                      ELSE Append(acc.rows, [row |-> i, cell |-> <<sum, period>>])
    BY <1>7, <2>2, <2>3 DEF Derivations, Kept
  <2>7. Averages(new, i, cells, period)
    BY <2>2, <2>3, <2>4, <2>6 DEF Averages
  <2>8. QED
    BY <2>2, <2>5, <2>6, <2>7 DEF new, value
<1>12. QED
  BY <1>10, <1>11

\* sma: a row for each full window, with its sum.
LEMMA SmaProfile ==
  ASSUME NEW n \in Nat, NEW cells \in [1..n -> Int], NEW period \in Nat \ {0}
  PROVE  RowsAre(Derive("sma", period, cells),
                 {i \in 1..n : i >= period},
                 [i \in 1..n |-> <<IF i < period THEN 0 ELSE SumOf(cells, i - period + 1, i), period>>])
<1> DEFINE defined == {i \in 1..n : i >= period}
           cell == [i \in 1..n |-> <<IF i < period THEN 0 ELSE SumOf(cells, i - period + 1, i), period>>]
<1>1. "sma" \in Profiles
  BY DEF Profiles
<1>2. PICK after : /\ Derivation(after, n, cells, "sma", period)
                   /\ Derive("sma", period, cells) = after[n].rows
  BY <1>1, DeriveRuns
<1>3. /\ after \in [0..n -> Derivations] /\ after[0] = DeriveStart
      /\ \A i \in 1..n : after[i] = SmaStep(after[i - 1], i, cells[i], period)
  BY <1>2 DEF Derivation, DeriveStep
<1> DEFINE held == {k \in 0..n : Averages(after[k], k, cells, period)}
<1>4. 0 \in held
  <2>1. Wide(0, period) = 0 /\ 0 - 0 + 1 = 1 /\ 1 \in Nat \ {0} /\ 0 \in 0..n
    BY DEF Wide
  <2>2. SumOf(cells, 1, 0) = 0
    BY <2>1, SumOfStep
  <2>3. Averages(DeriveStart, 0, cells, period)
    BY <2>1, <2>2 DEF Averages, DeriveStart
  <2>4. QED
    BY <1>3, <2>1, <2>3
<1>5. ASSUME NEW i \in 1..n, i - 1 \in held
      PROVE  i \in held
  <2>1. after[i - 1] \in Derivations /\ Averages(after[i - 1], i - 1, cells, period)
    BY <1>3, <1>5
  <2>2. Averages(SmaStep(after[i - 1], i, cells[i], period), i, cells, period)
    BY <2>1, SmaStepAverages
  <2>3. QED
    BY <1>3, <2>2
<1> HIDE DEF held
<1>6. 0..n \subseteq held
  BY <1>4, <1>5, InductionUpTo
<1> DEFINE rows == [k \in 0..n |-> after[k].rows]
<1>7. rows[0] = <<>>
  BY <1>3 DEF DeriveStart
<1>8. ASSUME NEW i \in 1..n
      PROVE  /\ i \in defined => rows[i] = Append(rows[i - 1], [row |-> i, cell |-> cell[i]])
             /\ i \notin defined => rows[i] = rows[i - 1]
  <2>1. rows[i] = after[i].rows /\ rows[i - 1] = after[i - 1].rows
    OBVIOUS
  <2>2. after[i - 1] \in Derivations /\ Averages(after[i - 1], i - 1, cells, period)
    BY <1>3, <1>6 DEF held
  <2>3. after[i].rows =
          IF i < period THEN after[i - 1].rows
          ELSE Append(after[i - 1].rows,
                 [row |-> i, cell |-> <<SumOf(cells, i - period + 1, i), period>>])
    <3> DEFINE acc == after[i - 1]
    <3>1. after[i] = SmaStep(acc, i, cells[i], period)
      BY <1>3
    <3>2. acc \in Derivations /\ Averages(acc, i - 1, cells, period)
      BY <2>2
    <3> HIDE DEF acc
    <3>3. SmaStep(acc, i, cells[i], period).rows =
            IF i < period THEN acc.rows
            ELSE Append(acc.rows,
                   [row |-> i, cell |-> <<SumOf(cells, i - period + 1, i), period>>])
      BY <3>2, SmaStepAverages
    <3>4. QED
      BY <3>1, <3>3 DEF acc
  <2>4. i \in defined <=> ~ i < period
    OBVIOUS
  <2>5. ~ i < period => cell[i] = <<SumOf(cells, i - period + 1, i), period>>
    OBVIOUS
  <2> HIDE DEF rows, cell, defined
  <2>6. QED
    BY <2>1, <2>3, <2>4, <2>5
<1>9. cell \in [1..n -> Int \X Int]
  <2>1. ASSUME NEW i \in 1..n
        PROVE  (IF i < period THEN 0 ELSE SumOf(cells, i - period + 1, i)) \in Int
    <3>1. CASE i < period
      BY <3>1
    <3>2. CASE ~ i < period
      <4>1. i - period + 1 \in Nat \ {0} /\ i \in 0..n
        BY <3>2
      <4>2. QED
        BY <3>2, <4>1, SumOfStep
    <3>3. QED
      BY <3>1, <3>2
  <2>2. QED
    BY <2>1
<1>10. defined \in SUBSET (1..n)
  OBVIOUS
<1> HIDE DEF rows, cell, defined
<1>11. RowsGrow(rows, n, defined, cell)
  BY <1>7, <1>8 DEF RowsGrow
<1>12. RowsAre(rows[n], defined, cell)
  BY <1>9, <1>10, <1>11, RowsOfARun
<1>13. QED
  BY <1>2, <1>12 DEF rows, cell, defined

\* Rows as a set.
RowSet(done, cell) == {[row |-> i, cell |-> cell[i]] : i \in done}

\* Such rows are in order, and as a set they are those of done.
LEMMA RowsAsDefined ==
  ASSUME NEW rows, NEW done \in SUBSET Nat, NEW cell, RowsAre(rows, done, cell)
  PROVE  /\ \A a, b \in DOMAIN rows : a < b => rows[a].row < rows[b].row
         /\ Range(rows) = RowSet(done, cell)
<1>1. rows \in Seq(DerivedRows) /\ DOMAIN rows = 1..Len(rows)
  BY DEF RowsAre
<1>2. \A a, b \in DOMAIN rows : a < b => rows[a].row < rows[b].row
  BY <1>1 DEF RowsAre
<1>3. ASSUME NEW a \in DOMAIN rows
      PROVE  rows[a].row \in done /\ rows[a] = [row |-> rows[a].row, cell |-> cell[rows[a].row]]
  <2>1. rows[a] \in DerivedRows /\ rows[a].row \in done /\ rows[a].cell = cell[rows[a].row]
    BY <1>1 DEF RowsAre
  <2>2. rows[a] = [row |-> rows[a].row, cell |-> rows[a].cell]
    BY <2>1 DEF DerivedRows
  <2>3. QED
    BY <2>1, <2>2
<1>4. ASSUME NEW i \in done
      PROVE  \E a \in DOMAIN rows : rows[a] = [row |-> i, cell |-> cell[i]]
  <2>1. PICK a \in DOMAIN rows : rows[a].row = i
    BY <1>1 DEF RowsAre
  <2>2. QED
    BY <1>3, <2>1
<1>5. Range(rows) = RowSet(done, cell)
  <2>1. ASSUME NEW x \in Range(rows)
        PROVE  x \in RowSet(done, cell)
    <3>1. PICK a \in DOMAIN rows : x = rows[a]
      BY DEF Range
    <3>2. QED
      BY <1>3, <3>1 DEF RowSet
  <2>2. ASSUME NEW x \in RowSet(done, cell)
        PROVE  x \in Range(rows)
    <3>1. PICK i \in done : x = [row |-> i, cell |-> cell[i]]
      BY DEF RowSet
    <3>2. PICK a \in DOMAIN rows : rows[a] = x
      BY <1>4, <3>1
    <3>3. QED
      BY <3>2 DEF Range
  <2>3. QED
    BY <2>1, <2>2
<1>6. QED
  BY <1>2, <1>5

\* A derived table of any column and period has the rows its profile defines and no other
\* (data.py 984-1046).
THEOREM DerivedColumn ==
  ASSUME NEW n \in Nat, NEW cells \in [1..n -> Int],
         NEW profile \in Profiles, NEW period \in Nat \ {0}
  PROVE  DerivedAsDefined(cells, profile, period)
<1> DEFINE rows == Derive(profile, period, cells)
           C(i) == DefinedCell(cells, profile, period, i)
           D == DefinedRows(cells, profile, period)
<1>1. DOMAIN cells = 1..n
  OBVIOUS
<1>2. ASSUME NEW cell, RowsAre(rows, D, cell), \A i \in D : cell[i] = C(i), D \in SUBSET Nat
      PROVE  DerivedAsDefined(cells, profile, period)
  <2> HIDE DEF rows, C, D
  <2>1. /\ \A a, b \in DOMAIN rows : a < b => rows[a].row < rows[b].row
        /\ Range(rows) = RowSet(D, cell)
    BY <1>2, RowsAsDefined
  <2>2. RowSet(D, cell) = {[row |-> i, cell |-> C(i)] : i \in D}
    BY <1>2 DEF RowSet
  <2>3. StrictlyIncreasing([a \in DOMAIN rows |-> rows[a].row])
    BY <2>1 DEF StrictlyIncreasing
  <2>4. QED
    BY <2>1, <2>2, <2>3 DEF DerivedAsDefined, rows, C, D
<1>3. CASE profile \in {"identity", "dropna"}
  <2> DEFINE cell == [i \in 1..n |-> NoCell]
  <2>1. D = 1..n /\ \A i \in D : cell[i] = C(i)
    BY <1>1, <1>3 DEF DefinedRows, DefinedCell
  <2>2. RowsAre(rows, 1..n, cell)
    BY <1>3, PlainProfile
  <2> HIDE DEF rows, C, D, cell
  <2>3. QED
    BY <1>2, <2>1, <2>2
<1>4. CASE profile = "returns"
  <2> DEFINE cell == [i \in 1..n |-> IF i = 1 THEN NoCell ELSE <<cells[i], cells[i - 1]>>]
             E == {i \in 2..n : cells[i - 1] # 0}
  <2>1. D = E
    <3>1. \A i \in 1..n : i # 1 <=> i \in 2..n
      OBVIOUS
    <3>2. D = {i \in 1..n \ {1} : cells[i - 1] # 0}
      BY <1>1, <1>4 DEF DefinedRows
    <3>3. 1..n \ {1} = 2..n
      OBVIOUS
    <3>4. QED
      BY <3>2, <3>3
  <2>2. \A i \in E : cell[i] = C(i)
    BY <1>4 DEF DefinedCell
  <2>3. RowsAre(rows, E, cell)
    BY <1>4, ReturnsProfile
  <2>4. E \in SUBSET Nat
    OBVIOUS
  <2> HIDE DEF rows, C, D, E, cell
  <2>5. QED
    BY <1>2, <2>1, <2>2, <2>3, <2>4
<1>5. CASE profile = "sma"
  <2> DEFINE cell == [i \in 1..n |->
                        <<IF i < period THEN 0 ELSE SumOf(cells, i - period + 1, i), period>>]
             E == {i \in 1..n : i >= period}
  <2>1. D = E
    BY <1>1, <1>5 DEF DefinedRows
  <2>2. \A i \in E : cell[i] = C(i)
    BY <1>5 DEF DefinedCell
  <2>3. RowsAre(rows, E, cell)
    BY <1>5, SmaProfile
  <2>4. E \in SUBSET Nat
    OBVIOUS
  <2> HIDE DEF rows, C, D, E, cell
  <2>5. QED
    BY <1>2, <2>1, <2>2, <2>3, <2>4
<1>6. QED
  BY <1>3, <1>4, <1>5 DEF Profiles

-----------------------------------------------------------------------------
(* Sweeps.                                                                 *)

\* The sort key of a sweep: the higher rate, then the earlier combination.
RankedBefore(rates) ==
  {p \in (DOMAIN rates) \X (DOMAIN rates) : Ahead(rates, p[1], p[2])}

\* The set of pairs is the order.
LEMMA RankedPairs ==
  ASSUME NEW n \in Nat, NEW rates \in [1..n -> Int \cup {Null}]
  PROVE  \A i, k \in 1..n : <<i, k>> \in RankedBefore(rates) <=> Ahead(rates, i, k)
<1> SUFFICES ASSUME NEW i \in 1..n, NEW k \in 1..n
             PROVE  <<i, k>> \in RankedBefore(rates) <=> Ahead(rates, i, k)
  OBVIOUS
<1>1. DOMAIN rates = 1..n
  OBVIOUS
<1>2. <<i, k>> \in (DOMAIN rates) \X (DOMAIN rates)
  BY <1>1
<1>3. QED
  BY <1>2 DEF RankedBefore, Ahead

\* A ranking is the combinations in that order (worker.py 459-494).
LEMMA RankingIsSorted ==
  ASSUME NEW n \in Nat, NEW rates \in [1..n -> Int \cup {Null}]
  PROVE  /\ IsFiniteSet(1..n) /\ Cardinality(1..n) = n
         /\ Orders(RankedBefore(rates), 1..n)
         /\ SortedBy(Ranking(rates), RankedBefore(rates), 1..n)
<1> DEFINE R == RankedBefore(rates)
<1>1. IsFiniteSet(1..n) /\ Cardinality(1..n) = n
  BY FS_Interval
<1>2. \A i, k \in 1..n : <<i, k>> \in R <=> Ahead(rates, i, k)
  BY RankedPairs
<1>3. \A i \in 1..n : Rate(rates, i) \in Int
  BY DEF Rate
<1> HIDE DEF R
<1>4. Orders(R, 1..n)
  BY <1>2, <1>3 DEF Orders, Ahead
<1>5. PICK s : SortedBy(s, R, 1..n)
  BY <1>1, <1>4, SortingExists
<1>6. s \in [1..n -> 1..n] /\ \A i, k \in 1..n : i < k => Ahead(rates, s[i], s[k])
  BY <1>1, <1>2, <1>5 DEF SortedBy
<1>7. Ranking(rates) = CHOOSE r \in [1..n -> 1..n] : \A i, k \in 1..n : i < k => Ahead(rates, r[i], r[k])
  <2>1. DOMAIN rates = 1..n
    OBVIOUS
  <2>2. Ranking(rates) =
          CHOOSE r \in [1..Cardinality(DOMAIN rates) -> DOMAIN rates] :
            \A i, k \in 1..Cardinality(DOMAIN rates) : i < k => Ahead(rates, r[i], r[k])
    BY DEF Ranking, Sorted
  <2>3. QED
    BY <1>1, <2>1, <2>2
<1>8. /\ Ranking(rates) \in [1..n -> 1..n]
      /\ \A i, k \in 1..n : i < k => Ahead(rates, Ranking(rates)[i], Ranking(rates)[k])
  BY <1>6, <1>7
<1>9. SortedBy(Ranking(rates), R, 1..n)
  BY <1>1, <1>2, <1>8 DEF SortedBy
<1>10. QED
  BY <1>1, <1>4, <1>9 DEF R

\* The combination a sweep reports as best leads its ranking, which lists every
\* combination once by falling rate: of any number of combinations.
THEOREM BestIsRankedFirst ==
  ASSUME NEW n \in Nat \ {0}, NEW rates \in [1..n -> Int \cup {Null}]
  PROVE  /\ Ranking(rates) \in [1..n -> 1..n]
         /\ Ranking(rates)[1] = Best(rates)
         /\ \A i \in 1..n : \E k \in 1..n : Ranking(rates)[k] = i
         /\ \A i \in 2..n : Rate(rates, Ranking(rates)[i - 1]) >= Rate(rates, Ranking(rates)[i])
<1> DEFINE r == Ranking(rates)
           R == RankedBefore(rates)
<1>1. n \in Nat /\ 1 \in 1..n
  OBVIOUS
<1>2. /\ r \in [1..n -> 1..n]
      /\ \A i, k \in 1..n : i < k => <<r[i], r[k]>> \in R
      /\ Orders(R, 1..n)
  BY <1>1, RankingIsSorted DEF SortedBy
<1>3. \A i \in 1..n : \E k \in 1..n : r[k] = i
  <2> DEFINE S == 1..n
  <2> HIDE DEF r, R, S
  <2>1. IsFiniteSet(S) /\ Cardinality(S) = n /\ SortedBy(r, R, S) /\ Orders(R, S)
    BY <1>1, RankingIsSorted DEF r, R, S
  <2>2. \A i \in S : \E k \in 1..Cardinality(S) : r[k] = i
    BY <2>1, SortingIsComplete
  <2>3. QED
    BY <2>1, <2>2 DEF S
<1>4. \A i, k \in 1..n : <<i, k>> \in R <=> Ahead(rates, i, k)
  BY <1>1, RankedPairs
<1>5. \A i \in 1..n : Rate(rates, i) \in Int
  BY DEF Rate
<1> HIDE DEF r, R
<1>6. ASSUME NEW k \in 1..n
      PROVE  k = r[1] \/ <<r[1], k>> \in R
  <2>1. PICK j \in 1..n : r[j] = k
    BY <1>3
  <2>2. j = 1 \/ 1 < j
    OBVIOUS
  <2>3. QED
    BY <1>1, <1>2, <2>1, <2>2
<1>7. ASSUME NEW i \in 1..n
      PROVE  (/\ \A k \in 1..n : Rate(rates, k) <= Rate(rates, i)
              /\ \A k \in 1..n : k < i => Rate(rates, k) < Rate(rates, i))
             <=> i = r[1]
  <2>1. r[1] \in 1..n
    BY <1>1, <1>2
  <2>2. \A k \in 1..n : k = r[1] \/ Ahead(rates, r[1], k)
    BY <1>4, <1>6, <2>1
  <2>3. CASE i = r[1]
    BY <1>5, <2>1, <2>2, <2>3 DEF Ahead
  <2>4. CASE i # r[1]
    <3>1. \/ Rate(rates, r[1]) > Rate(rates, i)
          \/ Rate(rates, r[1]) = Rate(rates, i) /\ r[1] < i
      BY <2>2, <2>4 DEF Ahead
    <3>2. QED
      BY <1>5, <2>1, <2>4, <3>1
  <2>5. QED
    BY <2>3, <2>4
<1>8. r[1] = Best(rates)
  <2>1. r[1] \in 1..n
    BY <1>1, <1>2
  <2>2. Best(rates) = CHOOSE i \in 1..n : i = r[1]
    BY <1>7 DEF Best
  <2>3. QED
    BY <2>1, <2>2
<1>9. \A i \in 2..n : Rate(rates, r[i - 1]) >= Rate(rates, r[i])
  <2>1. ASSUME NEW i \in 2..n
        PROVE  Rate(rates, r[i - 1]) >= Rate(rates, r[i])
    <3>1. i \in 1..n /\ i - 1 \in 1..n /\ i - 1 < i
      OBVIOUS
    <3>2. <<r[i - 1], r[i]>> \in R /\ r[i - 1] \in 1..n /\ r[i] \in 1..n
      BY <1>2, <3>1
    <3>3. QED
      BY <1>4, <1>5, <3>2 DEF Ahead
  <2>2. QED
    BY <2>1
<1>10. QED
  BY <1>2, <1>3, <1>8, <1>9 DEF r

-----------------------------------------------------------------------------
(* The catalogue.                                                          *)

\* Entries as they are stored: a row each, and a canonical id.
Identified(entries, m) ==
  /\ DOMAIN entries = 1..m
  /\ \A i \in 1..m : entries[i].row \in Int /\ entries[i].id \in Int
  /\ \A i, k \in 1..m : entries[i].row = entries[k].row => i = k

\* What a search has to find, and where it is stored.
MatchingEntries(entries, terms, archetype) ==
  {e \in Range(entries) : Matches(e, terms, archetype)}
MatchingPlaces(entries, terms, archetype) ==
  {i \in DOMAIN entries : Matches(entries[i], terms, archetype)}

\* The order of the places as a set of pairs.
PlaceBefore(entries, terms, archetype) ==
  LET P == MatchingPlaces(entries, terms, archetype)
  IN  {p \in P \X P : Earlier(entries, p[1], p[2], terms, archetype)}

\* Scores are numbers.
LEMMA ScoreIsANumber ==
  ASSUME NEW terms, IsFiniteSet(terms), NEW archetype, NEW e
  PROVE  Score(e, terms, archetype) \in Int
<1>1. Cardinality(terms \cap e.tokens) \in Nat
  BY FS_Intersection, FS_CardinalityType
<1>2. QED
  BY <1>1 DEF Score

\* Score, id and place order the matching entries, whatever ids they share.
LEMMA PlacesAreOrdered ==
  ASSUME NEW m \in Nat, NEW entries, Identified(entries, m),
         NEW terms, IsFiniteSet(terms), NEW archetype
  PROVE  LET P == MatchingPlaces(entries, terms, archetype)
             R == PlaceBefore(entries, terms, archetype)
         IN  /\ P \subseteq 1..m /\ IsFiniteSet(P) /\ Cardinality(P) \in Nat
             /\ \A i, k \in P : <<i, k>> \in R <=> Earlier(entries, i, k, terms, archetype)
             /\ Orders(R, P)
<1> DEFINE P == MatchingPlaces(entries, terms, archetype)
           R == PlaceBefore(entries, terms, archetype)
           score(i) == Score(entries[i], terms, archetype)
<1>1. P \subseteq 1..m
  BY DEF MatchingPlaces, Identified
<1>2. IsFiniteSet(P) /\ Cardinality(P) \in Nat
  <2>1. IsFiniteSet(1..m)
    BY FS_Interval
  <2> HIDE DEF P
  <2>2. IsFiniteSet(P)
    BY <1>1, <2>1, FS_Subset
  <2>3. QED
    BY <2>2, FS_CardinalityType
<1>3. ASSUME NEW i \in P, NEW k \in P
      PROVE  <<i, k>> \in R <=> Earlier(entries, i, k, terms, archetype)
  <2>1. <<i, k>> \in P \X P
    OBVIOUS
  <2> HIDE DEF P
  <2>2. QED
    BY <2>1 DEF PlaceBefore, P
<1>4. \A i \in P : score(i) \in Int
  BY ScoreIsANumber
<1> HIDE DEF P, R, score
<1>5. \A i \in P : i \in Int /\ entries[i].id \in Int
  BY <1>1 DEF Identified
<1>6. ASSUME NEW i \in P, NEW k \in P
      PROVE  <<i, k>> \in R <=>
               \/ score(i) > score(k)
               \/ score(i) = score(k) /\ entries[i].id < entries[k].id
               \/ score(i) = score(k) /\ entries[i].id = entries[k].id /\ i < k
  <2>1. <<i, k>> \in R <=> Earlier(entries, i, k, terms, archetype)
    BY <1>3
  <2> DEFINE a == entries[i]
             b == entries[k]
  <2>2. Earlier(entries, i, k, terms, archetype) <=>
          Before(a, b, terms, archetype) \/ (~Before(b, a, terms, archetype) /\ i < k)
    BY DEF Earlier
  <2>3. /\ score(i) = Score(a, terms, archetype) /\ score(k) = Score(b, terms, archetype)
        /\ score(i) \in Int /\ score(k) \in Int /\ a.id \in Int /\ b.id \in Int
        /\ i \in Int /\ k \in Int
    BY <1>4, <1>5 DEF score
  <2> HIDE DEF a, b
  <2>4. /\ Before(a, b, terms, archetype) <=>
             score(i) > score(k) \/ (score(i) = score(k) /\ a.id < b.id)
        /\ Before(b, a, terms, archetype) <=>
             score(k) > score(i) \/ (score(k) = score(i) /\ b.id < a.id)
    BY <2>3 DEF Before
  <2>5. QED
    BY <2>1, <2>2, <2>3, <2>4 DEF a, b
<1>7. Orders(R, P)
  BY <1>4, <1>5, <1>6 DEF Orders
<1>8. QED
  BY <1>1, <1>2, <1>3, <1>7 DEF P, R

\* A list of the members of a set, each of them once, in which none comes before one with
\* a better key.
Ranks(list, M, terms, archetype) ==
  LET c == Cardinality(M) IN
  /\ list \in [1..c -> M]
  /\ \A i, k \in 1..c : list[i] = list[k] => i = k
  /\ \A e \in M : \E i \in 1..c : list[i] = e
  /\ \A i, k \in 1..c : i < k => ~Before(list[k], list[i], terms, archetype)

\* A search is such a list of the entries that match.
LEMMA RankedIsSorted ==
  ASSUME NEW m \in Nat, NEW entries, Identified(entries, m),
         NEW terms, IsFiniteSet(terms), NEW archetype
  PROVE  LET M == MatchingEntries(entries, terms, archetype) IN
         /\ IsFiniteSet(M) /\ Cardinality(M) \in Nat
         /\ \A e \in M : e.id \in Int
         /\ Ranks(Ranked(entries, terms, archetype), M, terms, archetype)
<1> DEFINE M == MatchingEntries(entries, terms, archetype)
           P == MatchingPlaces(entries, terms, archetype)
           R == PlaceBefore(entries, terms, archetype)
           entry == [i \in P |-> entries[i]]
           c == Cardinality(P)
           order == CHOOSE o \in [1..c -> P] :
                      \A i, k \in 1..c : i < k => Earlier(entries, o[i], o[k], terms, archetype)
           ranked == [i \in DOMAIN order |-> entries[order[i]]]
<1>1. Ranked(entries, terms, archetype) = ranked
  BY DEF Ranked, Sorted, MatchingPlaces
<1>2. /\ P \subseteq 1..m /\ IsFiniteSet(P) /\ c \in Nat
      /\ \A i, k \in P : <<i, k>> \in R <=> Earlier(entries, i, k, terms, archetype)
      /\ Orders(R, P)
  BY PlacesAreOrdered
<1>3. /\ \A i \in P : entries[i] \in M
      /\ \A e \in M : e.id \in Int /\ \E i \in P : entries[i] = e
  BY DEF MatchingEntries, MatchingPlaces, Range, Identified
<1> HIDE DEF M, P, R, c
<1>4. \A i, k \in P : entries[i] = entries[k] => i = k
  BY <1>2 DEF Identified
<1>5. IsFiniteSet(M) /\ Cardinality(M) = c
  <2>1. entry \in [P -> M] /\ \A i, k \in P : entry[i] = entry[k] => i = k
    BY <1>3, <1>4
  <2>2. \A e \in M : \E i \in P : entry[i] = e
    BY <1>3
  <2> HIDE DEF entry
  <2>3. entry \in Bijection(P, M)
    BY <2>1, <2>2 DEF Bijection, Injection, Surjection, IsInjective
  <2>4. QED
    BY <1>2, <2>3, FS_Bijection DEF ExistsBijection, c
<1>6. PICK s : SortedBy(s, R, P)
  BY <1>2, SortingExists
<1>7. s \in [1..c -> P]
      /\ \A i, k \in 1..c : i < k => Earlier(entries, s[i], s[k], terms, archetype)
  BY <1>2, <1>6 DEF SortedBy, c
<1>8. order \in [1..c -> P]
      /\ \A i, k \in 1..c : i < k => Earlier(entries, order[i], order[k], terms, archetype)
  BY <1>7
<1> HIDE DEF order
<1>9. SortedBy(order, R, P)
  BY <1>2, <1>8 DEF SortedBy, c
<1>10. /\ \A i, k \in 1..c : order[i] = order[k] => i = k
       /\ \A x \in P : \E i \in 1..c : order[i] = x
  BY <1>2, <1>9, SortingIsComplete DEF c
<1>11. DOMAIN ranked = 1..c /\ \A i \in 1..c : ranked[i] = entries[order[i]] /\ order[i] \in P
  BY <1>8
<1>12. ranked \in [1..c -> M]
  BY <1>3, <1>8
<1> HIDE DEF ranked
<1>13. \A i, k \in 1..c : ranked[i] = ranked[k] => i = k
  BY <1>4, <1>10, <1>11
<1>14. ASSUME NEW e \in M
       PROVE  \E i \in 1..c : ranked[i] = e
  <2>1. PICK x \in P : entries[x] = e
    BY <1>3
  <2>2. PICK i \in 1..c : order[i] = x
    BY <1>10
  <2>3. QED
    BY <1>11, <2>1, <2>2
<1>15. ASSUME NEW i \in 1..c, NEW k \in 1..c, i < k
       PROVE  ~Before(ranked[k], ranked[i], terms, archetype)
  <2> DEFINE x == order[i]
             y == order[k]
  <2>1. x \in P /\ y \in P /\ ranked[i] = entries[x] /\ ranked[k] = entries[y]
    BY <1>11
  <2>2. Earlier(entries, x, y, terms, archetype)
    BY <1>8, <1>15
  <2> HIDE DEF x, y
  <2>3. entries[x].id \in Int /\ entries[y].id \in Int
    BY <1>2, <2>1 DEF Identified
  <2>4. /\ Score(entries[x], terms, archetype) \in Int
        /\ Score(entries[y], terms, archetype) \in Int
    BY ScoreIsANumber
  <2>5. ~Before(entries[y], entries[x], terms, archetype)
    BY <2>2, <2>3, <2>4 DEF Earlier, Before
  <2>6. QED
    BY <2>1, <2>5
<1>16. Ranks(ranked, M, terms, archetype)
  BY <1>5, <1>12, <1>13, <1>14, <1>15 DEF Ranks
<1>17. QED
  BY <1>1, <1>2, <1>3, <1>5, <1>16 DEF M

\* A search finds every match once and nothing else.
LEMMA RangeOfRanked ==
  ASSUME NEW m \in Nat, NEW entries, Identified(entries, m),
         NEW terms, IsFiniteSet(terms), NEW archetype
  PROVE  LET M == MatchingEntries(entries, terms, archetype)
             ranked == Ranked(entries, terms, archetype)
         IN  ranked \in Seq(M) /\ Range(ranked) = M /\ Len(ranked) = Cardinality(M)
<1> DEFINE M == MatchingEntries(entries, terms, archetype)
           ranked == Ranked(entries, terms, archetype)
           n == Cardinality(M)
<1>1. n \in Nat /\ Ranks(ranked, M, terms, archetype)
  BY RankedIsSorted
<1> HIDE DEF M, ranked
<1>2. ranked \in [1..n -> M] /\ \A x \in M : \E i \in 1..n : ranked[i] = x
  BY <1>1 DEF Ranks
<1> HIDE DEF n
<1>3. ranked \in Seq(M) /\ Len(ranked) = n
  BY <1>1, <1>2
<1>4. Range(ranked) = M
  BY <1>2 DEF Range
<1>5. QED
  BY <1>3, <1>4 DEF M, ranked, n

\* So many places up to a number.
LEMMA PlacesUpTo ==
  ASSUME NEW l \in Nat
  PROVE  IsFiniteSet(1..l) /\ Cardinality(1..l) = l
BY FS_Interval

\* Of two such lists neither has a better key in any place: more entries would have to be
\* ahead of that place in the one list than there are places before it in the other.
LEMMA NoneIsAhead ==
  ASSUME NEW M, Cardinality(M) \in Nat, \A e \in M : e.id \in Int,
         NEW terms, IsFiniteSet(terms), NEW archetype,
         NEW one, Ranks(one, M, terms, archetype),
         NEW two, Ranks(two, M, terms, archetype),
         NEW i \in 1..Cardinality(M)
  PROVE  ~Before(one[i], two[i], terms, archetype)
<1> DEFINE c == Cardinality(M)
           place == [j \in 1..i |-> CHOOSE k \in 1..c : two[k] = one[j]]
<1>1. /\ one \in [1..c -> M] /\ two \in [1..c -> M] /\ c \in Nat /\ i \in 1..c
      /\ \A j, k \in 1..c : one[j] = one[k] => j = k
      /\ \A e \in M : \E k \in 1..c : two[k] = e
      /\ \A j, k \in 1..c : j < k => ~Before(one[k], one[j], terms, archetype)
      /\ \A j, k \in 1..c : j < k => ~Before(two[k], two[j], terms, archetype)
  BY DEF Ranks
<1>9. c \in Nat /\ i \in 1..c /\ i \in Nat \ {0}
  BY <1>1
<1> HIDE DEF c
<1> SUFFICES ASSUME Before(one[i], two[i], terms, archetype)
             PROVE  FALSE
  OBVIOUS
<1>2. ASSUME NEW a \in M, NEW b \in M, NEW d \in M,
             ~Before(b, a, terms, archetype), Before(b, d, terms, archetype)
      PROVE  Before(a, d, terms, archetype)
  <2>1. /\ Score(a, terms, archetype) \in Int /\ Score(b, terms, archetype) \in Int
        /\ Score(d, terms, archetype) \in Int
    BY ScoreIsANumber
  <2>2. a.id \in Int /\ b.id \in Int /\ d.id \in Int
    OBVIOUS
  <2>3. QED
    BY <1>2, <2>1, <2>2 DEF Before
<1>3. ASSUME NEW a \in M
      PROVE  ~Before(a, a, terms, archetype)
  BY ScoreIsANumber DEF Before
<1>4. ASSUME NEW j \in 1..i
      PROVE  place[j] \in 1..(i - 1) /\ two[place[j]] = one[j]
  <2>1. j \in 1..c /\ one[j] \in M /\ one[i] \in M /\ two[i] \in M
    <3>1. j \in 1..c
      BY <1>9
    <3>2. QED
      BY <1>1, <3>1
  <2>2. place[j] \in 1..c /\ two[place[j]] = one[j]
    BY <1>1, <2>1
  <2>3. j = i \/ ~Before(one[i], one[j], terms, archetype)
    BY <1>1, <2>1
  <2>4. Before(one[j], two[i], terms, archetype)
    BY <1>2, <2>1, <2>3
  <2> HIDE DEF place
  <2>5. ~ i < place[j]
    BY <1>1, <2>2, <2>4, <1>2, <1>3, <2>1
  <2>6. i # place[j]
    BY <1>3, <2>1, <2>2, <2>4
  <2>7. QED
    BY <1>9, <2>2, <2>5, <2>6
<1>5. place \in [1..i -> 1..(i - 1)]
  BY <1>4
<1> HIDE DEF place
<1>6. PICK j \in 1..i, k \in 1..i : j # k /\ place[j] = place[k]
  <2>1. i \in Int /\ i - 1 \in Int /\ i > 0
    BY <1>9
  <2>2. /\ IsFiniteSet(1..i) /\ Cardinality(1..i) = i
        /\ IsFiniteSet(1..(i - 1)) /\ Cardinality(1..(i - 1)) = i - 1
    <3>1. i \in Nat /\ i - 1 \in Nat
      BY <2>1
    <3>2. QED
      BY <3>1, PlacesUpTo
  <2>3. Cardinality(1..(i - 1)) < Cardinality(1..i)
    BY <2>1, <2>2
  <2> DEFINE S == 1..i
             T == 1..(i - 1)
  <2>4. place \in [S -> T] /\ IsFiniteSet(S) /\ IsFiniteSet(T) /\ Cardinality(T) < Cardinality(S)
    BY <1>5, <2>2, <2>3
  <2> HIDE DEF S, T
  <2>5. \E x, y \in S : x # y /\ place[x] = place[y]
    BY <2>4, FS_PigeonHole
  <2>6. QED
    BY <2>5 DEF S
<1>7. one[j] = one[k] /\ j \in 1..c /\ k \in 1..c
  BY <1>4, <1>6, <1>9
<1>8. QED
  BY <1>1, <1>6, <1>7

\* The order in which entries are stored decides nothing but the places of entries of one
\* score and canonical id: the scores and ids of an answer are the same in every place
\* (catalog.py 288-365).
THEOREM SearchIsUnordered ==
  ASSUME NEW m \in Nat, NEW entries, Identified(entries, m),
         NEW l \in Nat, NEW others, Identified(others, l), Range(entries) = Range(others),
         NEW terms, IsFiniteSet(terms), NEW archetype
  PROVE  Keys(Ranked(entries, terms, archetype), terms, archetype)
           = Keys(Ranked(others, terms, archetype), terms, archetype)
<1> DEFINE M == MatchingEntries(entries, terms, archetype)
           c == Cardinality(M)
           one == Ranked(entries, terms, archetype)
           two == Ranked(others, terms, archetype)
<1>1. /\ c \in Nat /\ \A e \in M : e.id \in Int
      /\ Ranks(one, M, terms, archetype)
  BY RankedIsSorted
<1>2. Ranks(two, M, terms, archetype)
  <2>1. MatchingEntries(others, terms, archetype) = M
    BY DEF MatchingEntries
  <2> DEFINE N == MatchingEntries(others, terms, archetype)
  <2>2. Ranks(two, N, terms, archetype)
    BY RankedIsSorted
  <2> HIDE DEF M, N, two
  <2>3. QED
    BY <2>1, <2>2 DEF N
<1> HIDE DEF M, one, two
<1>3. one \in [1..c -> M] /\ two \in [1..c -> M]
  BY <1>1, <1>2 DEF Ranks
<1>4. ASSUME NEW i \in 1..c
      PROVE  <<Score(one[i], terms, archetype), one[i].id>>
               = <<Score(two[i], terms, archetype), two[i].id>>
  <2>1. /\ ~Before(one[i], two[i], terms, archetype)
        /\ ~Before(two[i], one[i], terms, archetype)
    BY <1>1, <1>2, NoneIsAhead
  <2>2. Score(one[i], terms, archetype) \in Int /\ Score(two[i], terms, archetype) \in Int
    BY ScoreIsANumber
  <2>3. one[i].id \in Int /\ two[i].id \in Int
    <3> HIDE DEF c
    <3>1. QED
      BY <1>1, <1>3
  <2>4. QED
    BY <2>1, <2>2, <2>3 DEF Before
<1> HIDE DEF c
<1>5. DOMAIN one = 1..c /\ DOMAIN two = 1..c
  BY <1>3
<1>6. Keys(one, terms, archetype) = Keys(two, terms, archetype)
  BY <1>4, <1>5 DEF Keys
<1>7. QED
  BY <1>6 DEF one, two

\* The entries sorted by row are the same entries.
LEMMA SortedByRow ==
  ASSUME NEW m \in Nat, NEW entries, Identified(entries, m)
  PROVE  LET byRow == Sorted(Range(entries), EarlierRow) IN
         /\ Identified(byRow, Cardinality(Range(entries)))
         /\ Cardinality(Range(entries)) \in Nat
         /\ Range(byRow) = Range(entries)
<1> DEFINE E == Range(entries)
           R == {p \in E \X E : p[1].row < p[2].row}
           n == Cardinality(E)
           byRow == CHOOSE s \in [1..n -> E] : \A i, k \in 1..n : i < k => s[i].row < s[k].row
<1>1. Sorted(E, EarlierRow) = byRow
  BY DEF Sorted, EarlierRow
<1>2. /\ \A e \in E : e.row \in Int /\ e.id \in Int /\ \E i \in 1..m : entries[i] = e
      /\ \A i \in 1..m : entries[i] \in E
      /\ \A a, b \in E : a.row = b.row => a = b
  BY DEF Identified, Range
<1>3. IsFiniteSet(E) /\ n \in Nat
  <2> DEFINE f == [i \in 1..m |-> entries[i]]
  <2>1. IsFiniteSet(1..m)
    BY FS_Interval
  <2>2. f \in Surjection(1..m, E)
    BY <1>2 DEF Surjection
  <2> HIDE DEF f, E
  <2>3. IsFiniteSet(E)
    BY <2>1, <2>2, FS_Surjection
  <2>4. QED
    BY <2>3, FS_CardinalityType
<1> HIDE DEF E
<1>4. \A a, b \in E : <<a, b>> \in R <=> a.row < b.row
  OBVIOUS
<1> HIDE DEF R
<1>5. Orders(R, E)
  BY <1>2, <1>4 DEF Orders
<1>6. PICK s : SortedBy(s, R, E)
  BY <1>3, <1>5, SortingExists
<1>7. s \in [1..n -> E] /\ \A i, k \in 1..n : i < k => s[i].row < s[k].row
  BY <1>4, <1>6 DEF SortedBy
<1>8. byRow \in [1..n -> E] /\ \A i, k \in 1..n : i < k => byRow[i].row < byRow[k].row
  BY <1>7
<1> HIDE DEF byRow
<1>9. SortedBy(byRow, R, E)
  BY <1>4, <1>8 DEF SortedBy
<1>10. /\ \A i, k \in 1..n : byRow[i] = byRow[k] => i = k
       /\ \A x \in E : \E i \in 1..n : byRow[i] = x
  BY <1>3, <1>5, <1>9, SortingIsComplete
<1> HIDE DEF n
<1>11. Identified(byRow, n)
  <2>1. ASSUME NEW i \in 1..n, NEW k \in 1..n, byRow[i].row = byRow[k].row
        PROVE  i = k
    BY <1>2, <1>8, <1>10, <2>1
  <2>2. QED
    BY <1>2, <1>8, <2>1 DEF Identified
<1>12. Range(byRow) = E
  BY <1>8, <1>10 DEF Range
<1>13. QED
  BY <1>1, <1>3, <1>11, <1>12 DEF E, n

\* A client that asks for the next page for as long as there is more has the whole list,
\* every item once and in order, whatever the list and the page size
\* (catalog.py 288-365, jobs.py 594-627).
THEOREM PagesAreTheList ==
  ASSUME NEW S, NEW list \in Seq(S), NEW limit \in Nat \ {0}
  PROVE  AllPages(list, limit) = list
<1> DEFINE N == Len(list)
           After(f, o) == IF HasMore(list, o, limit)
                            THEN Page(list, o, limit) \o f[o + Len(Page(list, o, limit))]
                            ELSE Page(list, o, limit)
           Steps(f) == f = [o \in 0..Len(list) |-> After(f, o)]
           from == CHOOSE f : Steps(f)
           rest == [o \in 0..N |-> SubSeq(list, o + 1, N)]
<1>1. AllPages(list, limit) = from[0]
  BY DEF AllPages
<1>2. N \in Nat
  OBVIOUS
<1>3. ASSUME NEW o \in 0..N
      PROVE  IF o + limit < N
               THEN /\ HasMore(list, o, limit)
                    /\ Len(Page(list, o, limit)) = limit
                    /\ Page(list, o, limit) \o SubSeq(list, o + limit + 1, N)
                         = SubSeq(list, o + 1, N)
               ELSE /\ ~HasMore(list, o, limit)
                    /\ Page(list, o, limit) = SubSeq(list, o + 1, N)
  <2>1. CASE o + limit < N
    <3>1. Page(list, o, limit) = SubSeq(list, o + 1, o + limit)
      BY <2>1 DEF Page
    <3>2. Len(SubSeq(list, o + 1, o + limit)) = limit
      BY <2>1
    <3>3. SubSeq(list, o + 1, o + limit) \o SubSeq(list, o + limit + 1, N) = SubSeq(list, o + 1, N)
      <4>1. /\ o + 1 \in 1..(Len(list) + 1) /\ o + limit \in (o + 1) - 1..Len(list)
            /\ N \in o + limit..Len(list)
        BY <2>1
      <4>2. QED
        BY <4>1, ConcatAdjacentSubSeq
    <3>4. QED
      BY <2>1, <3>1, <3>2, <3>3 DEF HasMore
  <2>2. CASE ~ o + limit < N
    <3>1. Page(list, o, limit) = SubSeq(list, o + 1, N)
      BY <2>2 DEF Page
    <3>2. Len(SubSeq(list, o + 1, N)) = N - o
      OBVIOUS
    <3>3. QED
      BY <2>2, <3>1, <3>2 DEF HasMore
  <2>3. QED
    BY <2>1, <2>2
<1> HIDE DEF N
<1>4. Steps(rest)
  <2>1. ASSUME NEW o \in 0..N
        PROVE  rest[o] = After(rest, o)
    <3>1. rest[o] = SubSeq(list, o + 1, N)
      OBVIOUS
    <3>2. CASE o + limit < N
      <4>1. o + limit \in 0..N
        BY <1>2, <3>2
      <4>2. rest[o + limit] = SubSeq(list, o + limit + 1, N)
        BY <4>1
      <4> HIDE DEF rest
      <4>3. QED
        BY <1>3, <3>1, <3>2, <4>2
    <3>3. CASE ~ o + limit < N
      BY <1>3, <3>1, <3>3
    <3>4. QED
      BY <3>2, <3>3
  <2>2. QED
    BY <2>1 DEF N
<1>5. Steps(from)
  BY <1>4, Zenon
<1> HIDE DEF from
<1>6. \A o \in 0..N : from[o] = After(from, o)
  BY <1>5 DEF N
<1> DEFINE apart == {d \in 0..N : from[N - d] # rest[N - d]}
<1>7. ASSUME apart # {}
      PROVE  FALSE
  <2>1. PICK d \in apart : \A e \in apart : d <= e
    <3>1. apart \in SUBSET Nat
      OBVIOUS
    <3> HIDE DEF apart
    <3>2. QED
      BY <1>7, <3>1, LeastNatural
  <2> DEFINE o == N - d
  <2>2. o \in 0..N /\ from[o] # rest[o]
    BY <1>2, <2>1
  <2>3. CASE o + limit < N
    <3>1. from[o + limit] = rest[o + limit]
      <4>1. d - limit \in 0..N /\ d - limit \notin apart
        <5>1. d \in 0..N /\ d - limit \in 0..N /\ ~ d <= d - limit
          BY <1>2, <2>1, <2>3
        <5> HIDE DEF apart
        <5>2. QED
          BY <2>1, <5>1
      <4>2. N - (d - limit) = o + limit
        BY <1>2, <2>1
      <4>3. QED
        BY <4>1, <4>2
    <3>2. from[o] = Page(list, o, limit) \o from[o + limit]
      BY <1>3, <1>6, <2>2, <2>3
    <3> HIDE DEF apart, o
    <3>3. rest[o + limit] = SubSeq(list, o + limit + 1, N) /\ rest[o] = SubSeq(list, o + 1, N)
      <4>1. o + limit \in 0..N
        BY <1>2, <2>2, <2>3
      <4>2. QED
        BY <2>2, <4>1
    <3> HIDE DEF rest
    <3>4. from[o] = rest[o]
      BY <1>3, <2>2, <2>3, <3>1, <3>2, <3>3
    <3>5. QED
      BY <2>2, <3>4
  <2>4. CASE ~ o + limit < N
    BY <1>3, <1>6, <2>2, <2>4
  <2>5. QED
    BY <2>3, <2>4
<1>8. from[0] = SubSeq(list, 1, N)
  <2>1. N \in 0..N /\ N \notin apart
    <3>1. apart = {}
      BY <1>7
    <3> HIDE DEF apart
    <3>2. QED
      BY <1>2, <3>1
  <2>2. N - N = 0
    BY <1>2
  <2>3. from[0] = rest[0]
    BY <2>1, <2>2
  <2>4. QED
    BY <1>2, <2>3
<1>9. QED
  BY <1>1, <1>8 DEF N

-----------------------------------------------------------------------------
(* The computations asked for.                                             *)

\* The inputs of a computation are of the sets its action takes them from.
Asked ==
  /\ case.kind = "feed" => case.feed \in Feeds /\ case.stamps \in Stamps
  /\ case.kind = "compare" => case.left \in Runs /\ case.right \in Runs
  /\ case.kind = "evidence" =>
       /\ case.bindings \in SequencesUpTo(Bindings, MaxBindings)
       /\ case.bars \in [DOMAIN case.bindings -> 0..1]
  /\ case.kind = "table" =>
       case.source \in SequencesUpTo(SourceRows, MaxRows) /\ case.allow = FALSE
  /\ case.kind = "overlap" =>
       /\ case.tables \in SequencesUpTo(FeedStamps, MaxFeeds)
       /\ case.master \in DOMAIN case.tables
  /\ case.kind = "derive" =>
       /\ case.cells \in SequencesUpTo(Cells, MaxCells)
       /\ case.profile \in Profiles /\ case.period \in 2..3
  /\ case.kind = "sweep" => case.rates \in SequencesUpTo({-1, 0, 1, Null}, MaxCombos)
  /\ case.kind = "search" =>
       /\ case.store \in Stores
       /\ case.terms \in {{}, {"mean", "cross"}} /\ case.limit \in Limits

\* Each action takes its inputs from those sets.
LEMMA AskedHolds == Spec => []Asked
<1>1. Init => Asked
  BY DEF Init, NoCase, Asked
<1>2. Asked /\ [Next]_case => Asked'
  <2> SUFFICES ASSUME Asked, [Next]_case
               PROVE  Asked'
    OBVIOUS
  <2> USE DEF Asked
  <2>1. CASE RegisterTable
    <3>1. PICK source \in SequencesUpTo(SourceRows, MaxRows), format \in Formats,
               options \in SUBSET AdapterOptions :
             /\ AdapterOptionsAccepted(format, options)
             /\ case' = [kind |-> "table", source |-> source,
                         allow |-> "allow_non_positive_prices" \in options]
      BY <2>1 DEF RegisterTable
    <3>2. ("allow_non_positive_prices" \in options) = FALSE
      BY <3>1 DEF AdapterOptionsAccepted
    <3>3. case' = [kind |-> "table", source |-> source, allow |-> FALSE]
      BY <3>1, <3>2
    <3>4. QED
      BY <3>3
  <2>2. CASE RegisterFeed
    BY <2>2 DEF RegisterFeed
  <2>3. CASE AlignFeeds
    BY <2>3 DEF AlignFeeds
  <2>4. CASE DeriveTable
    BY <2>4 DEF DeriveTable
  <2>5. CASE Compare
    BY <2>5 DEF Compare
  <2>6. CASE CheckEvidence
    BY <2>6 DEF CheckEvidence
  <2>7. CASE RankSweep
    BY <2>7 DEF RankSweep
  <2>8. CASE SearchCatalog
    BY <2>8 DEF SearchCatalog
  <2>9. CASE Answer \/ UNCHANGED case
    BY <2>9 DEF Answer, NoCase
  <2>10. QED
    BY <2>1, <2>2, <2>3, <2>4, <2>5, <2>6, <2>7, <2>8, <2>9 DEF Next
<1>3. QED
  BY <1>1, <1>2, PTL DEF Spec

\* The metrics of a run are integers, null, or no numbers.
LEMMA MetricsAreSets ==
  ASSUME NEW run \in Runs
  PROVE  MetricSet(run.metrics)
<1>1. ASSUME NEW metrics \in Metrics
      PROVE  MetricSet(metrics)
  <2>1. PICK more \in SUBSET {"sqn"}, trades \in {0, 1}, value \in {4, 5}, sharpe \in {4, Null},
             rate \in {4, 5, NonFinite}, extra \in {5, NonFinite} :
          metrics = MetricsOf(more, trades, value, sharpe, rate, extra)
    BY DEF Metrics
  <2>2. {trades, value, sharpe, rate, extra} \subseteq Values
    BY DEF Values
  <2>3. \A name \in DOMAIN metrics : metrics[name] \in {trades, value, sharpe, rate, extra}
    BY <2>1 DEF MetricsOf
  <2>4. QED
    BY <2>2, <2>3 DEF MetricSet
<1>2. \E metrics \in Metrics : WellFormed(metrics)
  <2> DEFINE metrics == MetricsOf({}, 0, 4, 4, 4, 5)
  <2>1. metrics \in Metrics
    BY DEF Metrics
  <2>2. \A name \in StandardMetrics : metrics[name] \in {0, 4, 5}
    BY DEF MetricsOf
  <2>3. DOMAIN metrics = StandardMetrics
    BY DEF MetricsOf
  <2> HIDE DEF metrics
  <2>4. WellFormed(metrics)
    BY <2>2, <2>3, ReportsAssumption DEF WellFormed, StandardMetrics
  <2>5. QED
    BY <2>1, <2>4
<1>3. run.metrics \in Metrics
  BY <1>2 DEF Runs
<1>4. QED
  BY <1>1, <1>3

\* Results that were stored compare the same from both sides (worker.py 195-205,
\* reports.py 86-182, service.py 307-330).
THEOREM ComparisonCorrect == Spec => []ComparisonIsSymmetric
<1>1. Asked => ComparisonIsSymmetric
  <2> SUFFICES ASSUME Asked, case.kind = "compare",
                      WellFormed(case.left.metrics), WellFormed(case.right.metrics)
               PROVE  /\ WellFormed(StoredMetrics(case.left.metrics))
                      /\ Normalize(StoredMetrics(case.left.metrics)).standard
                           = StoredMetrics(case.left.metrics)
                      /\ CompareRuns(case.left, case.left) = {}
                      /\ CompareRuns(case.left, case.right) = CompareRuns(case.right, case.left)
    BY DEF ComparisonIsSymmetric
  <2>1. MetricSet(case.left.metrics) /\ MetricSet(case.right.metrics)
    BY MetricsAreSets DEF Asked
  <2>2. QED
    BY <2>1, NormalizingIsIdempotent, ComparingIsSymmetric
<1>2. QED
  BY <1>1, AskedHolds, PTL

\* The evidence of an honest candidate is accepted (feed_runtime.py 344-385, worker.py
\* 206-261).
THEOREM EvidenceCorrect == Spec => []HonestEvidenceIsAccepted
<1>1. Asked => HonestEvidenceIsAccepted
  <2> SUFFICES ASSUME Asked, case.kind = "evidence"
               PROVE  EvidenceAccepted(Evidence(case.bindings, Configs,
                                                [f \in DOMAIN Configs |-> 1], case.bars), Configs)
                      <=> /\ \A i, k \in DOMAIN case.bindings :
                               case.bindings[i].name = case.bindings[k].name => i = k
                          /\ \A i \in DOMAIN case.bindings :
                               case.bindings[i].name \in PlainNames /\ case.bars[i] >= 1
    BY DEF HonestEvidenceIsAccepted
  <2>1. PICK n \in 1..MaxBindings : case.bindings \in [1..n -> Bindings]
    BY DEF Asked, SequencesUpTo
  <2>2. n \in Nat \ {0}
    BY AlgorithmsAssumption DEF AlgorithmsAssumption
  <2>3. DOMAIN case.bindings = 1..n /\ \A i \in 1..n : case.bindings[i].feed \in DOMAIN Configs
    BY <2>1 DEF Bindings
  <2> DEFINE rows == [f \in DOMAIN Configs |-> 1]
             evidence == Evidence(case.bindings, Configs, rows, case.bars)
  <2>4. \A f \in DOMAIN Configs : rows[f] >= 1
    OBVIOUS
  <2> DEFINE bindings == case.bindings
             bars == case.bars
             configs == Configs
  <2>7. /\ DOMAIN bindings = 1..n /\ \A i \in 1..n : bindings[i].feed \in DOMAIN configs
        /\ \A f \in DOMAIN configs : rows[f] >= 1
    BY <2>3, <2>4
  <2> HIDE DEF rows, bindings, bars, configs
  <2>8. EvidenceAccepted(Evidence(bindings, configs, rows, bars), configs) <=>
          /\ \A i, k \in 1..n : bindings[i].name = bindings[k].name => i = k
          /\ \A i \in 1..n : bindings[i].name \in PlainNames /\ bars[i] >= 1
    BY <2>2, <2>7, HonestEvidence
  <2>5. EvidenceAccepted(evidence, Configs) <=>
          /\ \A i, k \in 1..n : case.bindings[i].name = case.bindings[k].name => i = k
          /\ \A i \in 1..n : case.bindings[i].name \in PlainNames /\ case.bars[i] >= 1
    BY <2>8 DEF bindings, bars, configs
  <2>6. QED
    BY <2>3, <2>5 DEF rows
<1>2. QED
  BY <1>1, AskedHolds, PTL

\* What registration accepts, the candidate can build (data.py 435-537, feed_runtime.py
\* 80-210).
THEOREM FeedCorrect == Spec => []AcceptedFeedIsBuilt
<1>1. Asked => AcceptedFeedIsBuilt
  <2> SUFFICES ASSUME Asked, case.kind = "feed", FeedAccepted(case.feed)
               PROVE  /\ Builds(FeedObject(case.feed), case.stamps)
                      /\ case.feed.custom # {} =>
                           FeedObject(case.feed).input_format = "pandas_custom_lines"
                      /\ (\A i \in DOMAIN case.stamps :
                            Aligned(case.feed.timeframe, case.stamps[i])) =>
                           StrictlyIncreasing([i \in DOMAIN case.stamps |->
                                                 AdapterTime(case.feed.format, case.stamps[i])])
    BY DEF AcceptedFeedIsBuilt
  <2>1. /\ case.stamps # <<>> /\ \A i \in DOMAIN case.stamps : case.stamps[i] \in Int
        /\ StrictlyIncreasing(case.stamps)
    <3>1. PICK a \in Int, b \in Int : case.stamps = <<a, b>> /\ a < b
      BY DEF Asked, Stamps, Minute, Day
    <3>2. DOMAIN case.stamps = 1..2 /\ case.stamps[1] = a /\ case.stamps[2] = b
      BY <3>1
    <3>3. QED
      BY <3>1, <3>2 DEF StrictlyIncreasing
  <2>2. QED
    BY <2>1, AcceptedFeed DEF StrictlyIncreasing
<1>2. QED
  BY <1>1, AskedHolds, PTL

\* A sequence of up to so many members of a set is one of some length.
LEMMA LengthOf ==
  ASSUME NEW S, NEW bound \in Nat \ {0}, NEW s \in SequencesUpTo(S, bound)
  PROVE  \E n \in Nat \ {0} : n <= bound /\ s \in [1..n -> S]
<1>1. PICK n \in 1..bound : s \in [1..n -> S]
  BY DEF SequencesUpTo
<1>2. n \in Nat \ {0} /\ n <= bound
  OBVIOUS
<1>3. QED
  BY <1>1, <1>2

\* A table is registered exactly when it is sound, and then bar for bar: no DataSpec gets
\* other bars in (data.py 52-66, 264-323, 356-371).
THEOREM TableCorrect == Spec => []TableIsItsSource
<1>1. Asked => TableIsItsSource
  <2> DEFINE source == case.source
             allow == case.allow
             sound ==
               /\ \A i \in DOMAIN source : Parses(source[i]) /\ ValidBar(source[i], FALSE)
               /\ \A i \in DOMAIN source \ {1} : source[i - 1].time \div 2 < source[i].time \div 2
             canonical == Canonical(source, allow)
  <2> SUFFICES ASSUME Asked, case.kind = "table"
               PROVE  /\ sound <=> canonical # Refused
                      /\ sound => /\ Len(canonical) = Len(source)
                                  /\ \A i \in DOMAIN source :
                                       canonical[i] = [source[i] EXCEPT !.time = @ \div 2]
    BY DEF TableIsItsSource
  <2>1. PICK n \in Nat \ {0} : source \in [1..n -> SourceRows]
    BY AlgorithmsAssumption, LengthOf DEF Asked
  <2>2. SourceRows \subseteq TableRows
    BY DEF SourceRows, SourceTimes, Bars, TableRows, SourceCell
  <2>10. allow = FALSE
    BY DEF Asked
  <2> HIDE DEF source, allow
  <2>3. source \in [1..n -> TableRows] /\ n \in Nat
    BY <2>1, <2>2
  <2>4. canonical = TakenUpTo(source, allow, n).rows
    BY <2>3, CanonicalTable
  <2>5. DOMAIN source = 1..n /\ Len(source) = n
    BY <2>3
  <2>6. sound <=> SoundUpTo(source, allow, n)
    <3>1. 1..n \ {1} = 2..n
      BY <2>3
    <3>2. QED
      BY <2>5, <2>10, <3>1 DEF SoundUpTo
  <2> HIDE DEF sound, canonical
  <2>7. CASE sound
    <3>1. canonical = [i \in 1..n |-> CanonicalRow(source[i])]
      BY <2>4, <2>6, <2>7 DEF TakenUpTo
    <3>2. DOMAIN canonical = 1..n /\ Len(canonical) = n
      BY <2>3, <3>1
    <3>3. canonical # <<>>
      BY <2>1, <3>2
    <3>4. QED
      BY <2>5, <2>7, <3>1, <3>2, <3>3 DEF Refused, CanonicalRow
  <2>8. CASE ~sound
    BY <2>4, <2>6, <2>8 DEF TakenUpTo
  <2>9. QED
    BY <2>7, <2>8
<1>2. QED
  BY <1>1, AskedHolds, PTL

\* However many feeds: minimum_overlap refuses nothing that shares enough stamps, and of
\* two feeds it counts the stamps they share (data.py 574-597).
THEOREM OverlapCorrect == Spec => []OverlapRefusesNoCommonStamps
<1>1. Asked => OverlapRefusesNoCommonStamps
  <2> DEFINE tables == case.tables
             master == case.master
             count == CommonCount(tables, master)
             common == Cardinality(CommonStamps(tables))
  <2> SUFFICES ASSUME Asked, case.kind = "overlap"
               PROVE  /\ common <= count /\ count <= Len(tables[master])
                      /\ Len(tables) <= 2 => count = common
    BY DEF OverlapRefusesNoCommonStamps
  <2>1. PICK n \in Nat \ {0} : n <= MaxFeeds /\ tables \in [1..n -> FeedStamps]
    BY AlgorithmsAssumption, LengthOf DEF Asked
  <2>2. master \in DOMAIN tables
    BY DEF Asked
  <2> HIDE DEF tables, master
  <2>3. DOMAIN tables = 1..n /\ Len(tables) = n /\ master \in 1..n
    BY <2>1, <2>2
  <2>4. ASSUME NEW s \in FeedStamps
        PROVE  /\ IsFiniteSet(DOMAIN s) /\ Distinct(s) /\ Range(s) \subseteq Instants
               /\ Cardinality(Range(s)) = Len(s)
    <3>1. s \in SequencesUpTo(Instants, Cardinality(Instants)) /\ StrictlyIncreasing(s)
      BY DEF FeedStamps
    <3>2. PICK l \in 1..Cardinality(Instants) : s \in [1..l -> Instants]
      BY <3>1 DEF SequencesUpTo
    <3>3. IsFiniteSet(1..l) /\ DOMAIN s = 1..l /\ l \in Nat
      BY <3>2, FS_Interval
    <3>4. \A i, k \in 1..l : s[i] \in Int /\ s[k] \in Int /\ (i < k => s[i] < s[k])
      BY <3>1, <3>2, <3>3 DEF StrictlyIncreasing, Instants
    <3>5. Distinct(s)
      <4>1. ASSUME NEW i \in 1..l, NEW k \in 1..l, s[i] = s[k]
            PROVE  i = k
        <5>1. i < k \/ k < i \/ i = k
          OBVIOUS
        <5>2. QED
          BY <3>4, <4>1, <5>1
      <4>2. QED
        BY <3>3, <4>1 DEF Distinct
    <3>6. Range(s) \subseteq Instants
      BY <3>2 DEF Range
    <3>7. Cardinality(Range(s)) = Len(s)
      <4> DEFINE places == 1..l
                 stamps == Range(s)
      <4>1. /\ \A i, k \in places : s[i] = s[k] => i = k
            /\ s \in [places -> stamps] /\ \A t \in stamps : \E i \in places : s[i] = t
        BY <3>2, <3>3, <3>5 DEF Distinct, Range
      <4>2. IsFiniteSet(places) /\ Cardinality(places) = l /\ Len(s) = l
        BY <3>2, <3>3, FS_Interval
      <4> HIDE DEF places, stamps
      <4>3. s \in Bijection(places, stamps)
        BY <4>1 DEF Bijection, Injection, Surjection, IsInjective
      <4>4. Cardinality(stamps) = l
        BY <4>2, <4>3, FS_Bijection DEF ExistsBijection
      <4>5. QED
        BY <4>2, <4>4 DEF stamps
    <3>8. QED
      BY <3>3, <3>5, <3>6, <3>7
  <2>5. \A i \in 1..n : tables[i] \in FeedStamps
    BY <2>1
  <2> DEFINE both == {t \in Range(tables[master]) : \A i \in 1..n : t \in Range(tables[i])}
  <2>6. /\ Cardinality(both) <= count /\ count <= Cardinality(Range(tables[master]))
        /\ n <= 2 => count = Cardinality(both)
    BY <2>3, <2>4, <2>5, OverlapBounds
  <2>7. both = CommonStamps(tables)
    BY <2>3, <2>4, <2>5 DEF CommonStamps
  <2>8. Cardinality(Range(tables[master])) = Len(tables[master])
    BY <2>3, <2>4, <2>5
  <2> HIDE DEF both, count
  <2>9. QED
    BY <2>3, <2>6, <2>7, <2>8
<1>2. QED
  BY <1>1, AskedHolds, PTL

\* The returns and means of a derived column are those of their definitions (data.py
\* 984-1046).
THEOREM DerivedCorrect == Spec => []DerivedIsItsDefinition
<1>1. Asked => DerivedIsItsDefinition
  <2> SUFFICES ASSUME Asked, case.kind = "derive"
               PROVE  DerivedAsDefined(case.cells, case.profile, case.period)
    BY DEF DerivedIsItsDefinition
  <2>1. PICK n \in Nat \ {0} : case.cells \in [1..n -> Cells]
    BY AlgorithmsAssumption, LengthOf DEF Asked
  <2>2. case.cells \in [1..n -> Int] /\ n \in Nat
    BY <2>1 DEF Cells
  <2>3. case.profile \in Profiles /\ case.period \in Nat \ {0}
    BY DEF Asked
  <2>4. QED
    BY <2>2, <2>3, DerivedColumn
<1>2. QED
  BY <1>1, AskedHolds, PTL

\* The best combination of a sweep leads its ranking (worker.py 459-494).
THEOREM RankingCorrect == Spec => []BestLeadsTheRanking
<1>1. Asked => BestLeadsTheRanking
  <2> DEFINE rates == case.rates
             ranking == Ranking(rates)
  <2> SUFFICES ASSUME Asked, case.kind = "sweep"
               PROVE  /\ ranking[1] = Best(rates)
                      /\ Len(ranking) = Len(rates) /\ Range(ranking) = DOMAIN rates
                      /\ \A i \in DOMAIN ranking \ {1} :
                           Rate(rates, ranking[i - 1]) >= Rate(rates, ranking[i])
    BY DEF BestLeadsTheRanking
  <2>1. PICK n \in Nat \ {0} : rates \in [1..n -> {-1, 0, 1, Null}]
    BY AlgorithmsAssumption, LengthOf DEF Asked
  <2> HIDE DEF rates
  <2>2. rates \in [1..n -> Int \cup {Null}] /\ DOMAIN rates = 1..n /\ Len(rates) = n
    BY <2>1
  <2>3. /\ ranking \in [1..n -> 1..n]
        /\ ranking[1] = Best(rates)
        /\ \A i \in 1..n : \E k \in 1..n : ranking[k] = i
        /\ \A i \in 2..n : Rate(rates, ranking[i - 1]) >= Rate(rates, ranking[i])
    BY <2>2, BestIsRankedFirst
  <2> HIDE DEF ranking
  <2>4. DOMAIN ranking = 1..n /\ Len(ranking) = n
    BY <2>1, <2>3
  <2>5. Range(ranking) = 1..n
    <3>1. \A k \in 1..n : ranking[k] \in 1..n
      BY <2>3
    <3> DEFINE all == 1..n
    <3>2. /\ DOMAIN ranking = all /\ \A k \in all : ranking[k] \in all
          /\ \A i \in all : \E k \in all : ranking[k] = i
      BY <2>3, <2>4, <3>1
    <3> HIDE DEF all
    <3>3. Range(ranking) = all
      BY <3>2 DEF Range
    <3>4. QED
      BY <3>3 DEF all
  <2>6. 1..n \ {1} = 2..n
    BY <2>1
  <2>7. QED
    BY <2>2, <2>3, <2>4, <2>5, <2>6
<1>2. QED
  BY <1>1, AskedHolds, PTL

\* A search finds every match once, whatever the stored order, and its pages are the
\* whole list (catalog.py 248-276, 288-365; jobs.py 594-627).
THEOREM SearchCorrect == Spec => []SearchMissesNothing
<1>1. Asked => SearchMissesNothing
  <2> DEFINE store == case.store
             terms == case.terms
             archetype == case.archetype
             byRow == Sorted(Range(store), EarlierRow)
             ranked == Ranked(store, terms, archetype)
             matches == {e \in Range(store) :
                           /\ archetype = Anything \/ archetype \in e.archetypes
                           /\ terms = {} \/ terms \cap e.tokens # {}}
  <2> SUFFICES ASSUME Asked, case.kind = "search"
               PROVE  /\ Range(ranked) = matches /\ Len(ranked) = Cardinality(matches)
                      /\ Keys(ranked, terms, archetype)
                           = Keys(Ranked(byRow, terms, archetype), terms, archetype)
                      /\ AllPages(ranked, case.limit) = ranked
    BY DEF SearchMissesNothing
  <2>1. store \in SequencesUpTo(Entries, 3)
        /\ \A i, k \in DOMAIN store : store[i].row = store[k].row => i = k
    BY DEF Asked, Stores
  <2>2. IsFiniteSet(terms) /\ case.limit \in Nat \ {0}
    <3>1. IsFiniteSet({}) /\ IsFiniteSet({"mean", "cross"})
      <4>1. IsFiniteSet({"mean"}) /\ IsFiniteSet({"cross"})
        BY FS_Singleton
      <4>2. {"mean", "cross"} = {"mean"} \cup {"cross"}
        OBVIOUS
      <4>3. QED
        BY <4>1, <4>2, FS_EmptySet, FS_Union
    <3>2. QED
      BY <3>1 DEF Asked, Limits
  <2>3. PICK m \in Nat \ {0} : store \in [1..m -> Entries]
    BY <2>1, LengthOf
  <2> HIDE DEF store, terms, archetype
  <2>4. m \in Nat /\ Identified(store, m)
    <3>1. \A e \in Entries : e.row \in Int /\ e.id \in Int
      BY DEF Entries
    <3>2. QED
      BY <2>1, <2>3, <3>1 DEF Identified
  <2>5. Keys(ranked, terms, archetype)
          = Keys(Ranked(byRow, terms, archetype), terms, archetype)
    <3> DEFINE l == Cardinality(Range(store))
    <3>1. Identified(byRow, l) /\ l \in Nat /\ Range(byRow) = Range(store)
      BY <2>4, SortedByRow
    <3> HIDE DEF byRow, l
    <3>2. QED
      BY <2>2, <2>4, <3>1, SearchIsUnordered
  <2>6. /\ ranked \in Seq(MatchingEntries(store, terms, archetype))
        /\ Range(ranked) = MatchingEntries(store, terms, archetype)
        /\ Len(ranked) = Cardinality(MatchingEntries(store, terms, archetype))
    BY <2>2, <2>4, RangeOfRanked
  <2>7. MatchingEntries(store, terms, archetype) = matches
    BY DEF MatchingEntries, Matches
  <2> HIDE DEF ranked, matches, byRow
  <2>8. AllPages(ranked, case.limit) = ranked
    BY <2>2, <2>6, PagesAreTheList
  <2>9. QED
    BY <2>5, <2>6, <2>7, <2>8
<1>2. QED
  BY <1>1, AskedHolds, PTL
=============================================================================
