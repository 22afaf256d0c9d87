------------------------------- MODULE Reports -------------------------------
(***************************************************************************)
(* What the worker and the service make of a candidate's result: metrics   *)
(* are normalised and compared (reports.py 50-182, service.py 307-330),    *)
(* runtime evidence is checked against the frozen feeds (worker.py         *)
(* 195-275), a sweep is ranked (worker.py 459-494).                        *)
(*                                                                         *)
(* A metric is an integer (floats are scaled), Null, or NonFinite, which   *)
(* stands for every value that is no number.  Tolerances: rel in percent,  *)
(* abs in the metric's unit.                                               *)
(***************************************************************************)
EXTENDS Integers, Sequences, Sorting

CONSTANTS
  IntegerMetrics, FloatMetrics,   \* the canonical fields of run-result-v1
  NullableMetrics,
  DefaultTolerance, Overrides,    \* comparison-profile-v1: [rel, abs], by metric
  PlainNames,   \* the names that match _IDENTIFIER_PATTERN: ASCII, up to 128 characters
  Null, NonFinite

StandardMetrics == IntegerMetrics \cup FloatMetrics

ASSUME ReportsAssumption ==
  /\ IntegerMetrics \cap FloatMetrics = {}
  /\ NullableMetrics \subseteq FloatMetrics
  /\ DOMAIN Overrides \subseteq FloatMetrics
  /\ \A name \in DOMAIN Overrides : Overrides[name].rel \in Nat /\ Overrides[name].abs \in Nat
  /\ DefaultTolerance.rel \in Nat /\ DefaultTolerance.abs \in Nat
  /\ Null \notin Int /\ NonFinite \notin Int /\ Null # NonFinite

-----------------------------------------------------------------------------
(* Normalised metrics.                                                     *)

NormalizedAs(standard, extra) == [standard |-> standard, extra |-> extra]
Invalid == NormalizedAs(<<>>, <<>>)   \* the result is refused

WellFormed(metrics) ==
  /\ StandardMetrics \subseteq DOMAIN metrics
  /\ \A name \in IntegerMetrics : metrics[name] \notin {Null, NonFinite} /\ metrics[name] >= 0
  /\ \A name \in FloatMetrics :
       /\ metrics[name] # NonFinite
       /\ metrics[name] = Null => name \in NullableMetrics

\* normalize_metrics: extras that are no numbers are dropped, not refused.
Normalize(metrics) ==
  IF ~WellFormed(metrics) THEN Invalid
  ELSE NormalizedAs(
         [name \in StandardMetrics |-> metrics[name]],
         [name \in {n \in DOMAIN metrics \ StandardMetrics : metrics[n] # NonFinite} |->
            metrics[name]])

-----------------------------------------------------------------------------
(* Comparison.                                                             *)

Distance(a, b) == IF a < b THEN b - a ELSE a - b
Larger(a, b) == IF a < b THEN b ELSE a

\* Mutation: the relative tolerance is taken of the left value only.
IsCloseToLeft(left, right, tolerance) ==
  100 * Distance(left, right) <=
    Larger(tolerance.rel * Distance(left, 0), 100 * tolerance.abs)

\* math.isclose
IsClose(left, right, tolerance) ==
  100 * Distance(left, right) <=
    Larger(tolerance.rel * Larger(Distance(left, 0), Distance(right, 0)),
           100 * tolerance.abs)

Tolerance(name) == IF name \in DOMAIN Overrides THEN Overrides[name] ELSE DefaultTolerance

Value(extra, name) == IF name \in DOMAIN extra THEN extra[name] ELSE Null

FloatMismatch(name, left, right) ==
  IF Null \in {left, right}
    THEN IF left = right THEN {} ELSE {<<name, "null_mismatch">>}
    ELSE IF IsClose(left, right, Tolerance(name)) THEN {} ELSE {<<name, "float_mismatch">>}

\* compare_metrics on normalised metrics: the diagnostics, as a set.
Diagnostics(left, right) ==
  {<<name, "exact_mismatch">> : name \in
     {n \in IntegerMetrics : left.standard[n] # right.standard[n]}}
  \cup UNION {FloatMismatch(name, left.standard[name], right.standard[name]) :
                name \in FloatMetrics}
  \cup UNION {FloatMismatch(name, Value(left.extra, name), Value(right.extra, name)) :
                name \in DOMAIN left.extra \cup DOMAIN right.extra}

\* compare_strategy_runs: the bound inputs are compared as well.  A run is
\* [metrics, artifact, dataset].
CompareRuns(left, right) ==
  {<<name, "provenance_mismatch">> : name \in
     {n \in {"artifact", "dataset"} : left[n] # right[n]}}
  \cup Diagnostics(Normalize(left.metrics), Normalize(right.metrics))

\* The metrics of a result that reaches result.json: _validate_result normalises what
\* the candidate wrote and pops the extras.
StoredMetrics(metrics) == Normalize(metrics).standard

-----------------------------------------------------------------------------
(* Feed evidence.                                                          *)

\* run_materialized_backtest: one item per binding, in order; bars[i] is what cerebro
\* delivered, from a table of rows[feed] rows.
Evidence(bindings, configs, rows, bars) ==
  [i \in DOMAIN bindings |->
     [dataset_feed |-> bindings[i].feed, strategy_feed |-> bindings[i].name,
      described_as |-> configs[bindings[i].feed],
      source_rows |-> rows[bindings[i].feed], output_bars |-> bars[i]]]

\* Mutation: a dataset feed may be named once only.
EvidenceAcceptedOnce(evidence, configs) ==
  /\ evidence # <<>>
  /\ \A i \in DOMAIN evidence :
       /\ evidence[i].dataset_feed \in DOMAIN configs
       /\ \A k \in DOMAIN evidence \ {i} : evidence[k].dataset_feed # evidence[i].dataset_feed

\* _validate_result; described_as abstracts input_format, adapter and bar_operation.  The
\* classes of a feed, whose names have to be plain as well, are those of backtrader.
EvidenceAccepted(evidence, configs) ==
  /\ evidence # <<>>
  /\ \A i \in DOMAIN evidence :
       LET item == evidence[i] IN
       /\ item.dataset_feed \in DOMAIN configs
       /\ item.strategy_feed \in PlainNames
       /\ \A k \in DOMAIN evidence \ {i} : evidence[k].strategy_feed # item.strategy_feed
       /\ item.described_as = configs[item.dataset_feed]
       /\ item.source_rows >= 1 /\ item.output_bars >= 1

-----------------------------------------------------------------------------
(* A sweep: rates[i] is the return rate of its i-th result, Null for one   *)
(* that has none.  There is a result for each combination of the grid in   *)
(* each run mode.                                                          *)

Rate(rates, i) == IF rates[i] = Null THEN 0 ELSE rates[i]

\* Mutation: the last of the best.
BestOfLast(rates) ==
  CHOOSE i \in DOMAIN rates :
    /\ \A k \in DOMAIN rates : Rate(rates, k) <= Rate(rates, i)
    /\ \A k \in DOMAIN rates : k > i => Rate(rates, k) < Rate(rates, i)

\* max() returns the first of the best.
Best(rates) ==
  CHOOSE i \in DOMAIN rates :
    /\ \A k \in DOMAIN rates : Rate(rates, k) <= Rate(rates, i)
    /\ \A k \in DOMAIN rates : k < i => Rate(rates, k) < Rate(rates, i)

\* sorted(..., reverse=True) is stable.
Ahead(rates, i, k) ==
  \/ Rate(rates, i) > Rate(rates, k)
  \/ Rate(rates, i) = Rate(rates, k) /\ i < k

Ranking(rates) == Sorted(DOMAIN rates, LAMBDA i, k : Ahead(rates, i, k))
=============================================================================
