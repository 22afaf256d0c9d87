------------------------------ MODULE Algorithms ------------------------------
(***************************************************************************)
(* The pure parts of the program against what they are meant to compute.   *)
(* A behaviour asks for one computation at a time, on any input from the   *)
(* bounded sets below; the properties compare the answer, which the        *)
(* operators of FeedData, Reports and CatalogSearch give, with a           *)
(* definition that is not the algorithm.                                   *)
(***************************************************************************)
EXTENDS FeedData, Reports, CatalogSearch

CONSTANTS
  MaxRows,       \* bound: rows of a source table
  MaxCells,      \* bound: cells of a derived column
  MaxFeeds,      \* bound: feeds of one DataSpec
  MaxCombos,     \* bound: combinations of a sweep
  MaxBindings,   \* bound: feeds a strategy binds
  FeedNames      \* bound: the names a StrategySpec gives them, any str.isidentifier()

ASSUME AlgorithmsAssumption ==
  {MaxRows, MaxCells, MaxFeeds, MaxCombos, MaxBindings} \subseteq Nat \ {0}

VARIABLE case   \* the computation asked for: its kind and inputs

NoCase == [kind |-> "none"]

SequencesUpTo(S, n) == UNION {[1..k -> S] : k \in 1..n}
StrictlyIncreasing(s) == \A i, k \in DOMAIN s : i < k => s[i] < s[k]

-----------------------------------------------------------------------------
(* Inputs.                                                                 *)

\* A bar like any other, one whose high is below its low, one that is not positive,
\* one with an empty cell.
Bars == {[open |-> 2, high |-> 3, low |-> 1, close |-> 2],
         [open |-> 2, high |-> 1, low |-> 2, close |-> 2],
         [open |-> 0, high |-> 1, low |-> -1, close |-> 1],
         [open |-> 2, high |-> 3, low |-> 1, close |-> Garbage]}
SourceTimes == {0, 1, 2, 3, 5, Garbage}
SourceRows ==
  {[time |-> t, open |-> b.open, high |-> b.high, low |-> b.low, close |-> b.close] :
     t \in SourceTimes, b \in Bars}

AdapterOptions == {"time_column", "allow_non_positive_prices"}

Feeds ==
  [format : Formats \cup {"parquet"}, source_type : {"materialized_dataframe", "local_file"},
   is_csv : BOOLEAN, timeframe : {"seconds", "minutes", "days", "months", "unspecified"},
   compression : {0, 1}, custom : SUBSET {"signal"}, mapped : SUBSET {"signal"},
   operation : {Direct,
                [mode |-> "resample", timeframe |-> "minutes", compression |-> 5],
                [mode |-> "replay", timeframe |-> "minutes", compression |-> 0],
                [mode |-> "resample", compression |-> 5]},
   options : SUBSET AdapterOptions]
Stamps == {<<0, 1>>, <<30, 90>>, <<0, Minute>>, <<Day, 2 * Day>>, <<0, Day - 1>>}

Instants == 0..2
FeedStamps == {s \in SequencesUpTo(Instants, Cardinality(Instants)) : StrictlyIncreasing(s)}

Cells == {-1, 0, 1, 2}
Profiles == {"identity", "dropna", "returns", "sma"}

MetricsOf(more, trades, value, sharpe, rate, extra) ==
  [name \in StandardMetrics \cup more |->
     CASE name = "trade_num" -> trades
       [] name = "final_value" -> value
       [] name = "sharpe_ratio" -> sharpe
       [] name = "return_rate" -> rate
       [] OTHER -> extra]
Metrics ==
  {MetricsOf(more, trades, value, sharpe, rate, extra) :
     more \in SUBSET {"sqn"}, trades \in {0, 1}, value \in {4, 5}, sharpe \in {4, Null},
     rate \in {4, 5, NonFinite}, extra \in {5, NonFinite}}
Runs == [metrics : Metrics, artifact : {"a"}, dataset : {"d"}]
        \cup [metrics : {CHOOSE m \in Metrics : WellFormed(m)}, artifact : {"b"}, dataset : {"d"}]

Configs == [f1 |-> "as frozen", f2 |-> "as frozen too"]
Bindings == [feed : DOMAIN Configs, name : FeedNames]

Entries ==
  {e \in [row : 1..3, id : 1..2, tokens : {{}, {"mean"}, {"mean", "cross"}},
          archetypes : {{"trend"}, {"trend", "pairs"}}, mapped : BOOLEAN] :
     e.archetypes = (IF e.row = 2 THEN {"trend"} ELSE {"trend", "pairs"})}
\* Rows name one entry each, canonical ids need not.
Stores == {s \in SequencesUpTo(Entries, 3) :
             \A i, k \in DOMAIN s : s[i].row = s[k].row => i = k}
Limits == 1..2

-----------------------------------------------------------------------------
(* One action per computation.                                             *)

Init == case = NoCase

RegisterTable ==
  /\ case = NoCase
  /\ \E source \in SequencesUpTo(SourceRows, MaxRows), format \in Formats,
        options \in SUBSET AdapterOptions :
       /\ AdapterOptionsAccepted(format, options)
       /\ case' = [kind |-> "table", source |-> source,
                   allow |-> "allow_non_positive_prices" \in options]

RegisterFeed ==
  /\ case = NoCase
  /\ \E feed \in Feeds, stamps \in Stamps :
       case' = [kind |-> "feed", feed |-> feed, stamps |-> stamps]

AlignFeeds ==
  /\ case = NoCase
  /\ \E tables \in SequencesUpTo(FeedStamps, MaxFeeds) : \E master \in DOMAIN tables :
       case' = [kind |-> "overlap", tables |-> tables, master |-> master]

DeriveTable ==
  /\ case = NoCase
  /\ \E cells \in SequencesUpTo(Cells, MaxCells), profile \in Profiles, period \in 2..3 :
       case' = [kind |-> "derive", cells |-> cells, profile |-> profile, period |-> period]

Compare ==
  /\ case = NoCase
  /\ \E left, right \in Runs : case' = [kind |-> "compare", left |-> left, right |-> right]

CheckEvidence ==
  /\ case = NoCase
  /\ \E bindings \in SequencesUpTo(Bindings, MaxBindings) :
       \E bars \in [DOMAIN bindings -> 0..1] :
         case' = [kind |-> "evidence", bindings |-> bindings, bars |-> bars]

RankSweep ==
  /\ case = NoCase
  /\ \E rates \in SequencesUpTo({-1, 0, 1, Null}, MaxCombos) :
       case' = [kind |-> "sweep", rates |-> rates]

SearchCatalog ==
  /\ case = NoCase
  /\ \E store \in Stores, terms \in {{}, {"mean", "cross"}},
        archetype \in {Anything, "pairs"}, limit \in Limits :
       case' = [kind |-> "search", store |-> store, terms |-> terms,
                archetype |-> archetype, limit |-> limit]

Answer == case # NoCase /\ case' = NoCase

Next ==
  \/ RegisterTable \/ RegisterFeed \/ AlignFeeds \/ DeriveTable
  \/ Compare \/ CheckEvidence \/ RankSweep \/ SearchCatalog \/ Answer

Spec == Init /\ [][Next]_case

-----------------------------------------------------------------------------
(* Properties.                                                             *)

\* A table is registered exactly when each of its bars parses, is positive and consistent
\* and no two fall on one canonical stamp or out of order, and then bar for bar: no option
\* that a DataSpec can give lets other bars in (data.py 52-66, 264-323, 356-371).
TableIsItsSource ==
  case.kind = "table" =>
    LET source == case.source
        canonical == Canonical(source, case.allow)
        sound ==
          /\ \A i \in DOMAIN source : Parses(source[i]) /\ ValidBar(source[i], FALSE)
          /\ \A i \in DOMAIN source \ {1} : source[i - 1].time \div 2 < source[i].time \div 2
    IN  /\ sound <=> canonical # Refused
        /\ sound => /\ Len(canonical) = Len(source)
                    /\ \A i \in DOMAIN source :
                         canonical[i] = [source[i] EXCEPT !.time = @ \div 2]

\* What registration accepts, the candidate can build: the adapter raises nothing, the
\* custom lines reach the strategy, and bars stamped on their frame keep distinct,
\* ordered stamps in the adapter's file (data.py 435-537, feed_runtime.py 80-210; "the
\* adapter would silently truncate sub-minute precision", data.py 502-505).
AcceptedFeedIsBuilt ==
  case.kind = "feed" /\ FeedAccepted(case.feed) =>
    LET feed == case.feed
        stamps == case.stamps
    IN  /\ Builds(FeedObject(feed), stamps)
        /\ feed.custom # {} => FeedObject(feed).input_format = "pandas_custom_lines"
        /\ (\A i \in DOMAIN stamps : Aligned(feed.timeframe, stamps[i])) =>
             StrictlyIncreasing([i \in DOMAIN stamps |-> AdapterTime(feed.format, stamps[i])])

\* The stamps that all feeds have.
CommonStamps(tables) == {t \in Instants : \A i \in DOMAIN tables : t \in Range(tables[i])}

\* minimum_overlap refuses no DataSpec whose feeds have that share of the master's stamps
\* in common, and none of two feeds passes it that have not: however many feeds there
\* are, the overlap is no less than the stamps common to all and no more than the
\* master's, and of two feeds it is the number of those they share (data.py 574-597).
OverlapRefusesNoCommonStamps ==
  case.kind = "overlap" =>
    LET count == CommonCount(case.tables, case.master)
        common == Cardinality(CommonStamps(case.tables))
    IN  /\ common <= count /\ count <= Len(case.tables[case.master])
        /\ Len(case.tables) <= 2 => count = common

\* The overlap counts the stamps all feeds have (design document of iteration 009: the
\* semantics of set.intersection).
OverlapIsIntersection ==
  case.kind = "overlap" =>
    CommonCount(case.tables, case.master) = Cardinality(CommonStamps(case.tables))

\* The sum of the cells from one position to another.
SumOf(cells, first, last) ==
  LET sum[n \in 0..Len(cells)] == IF n < first THEN 0 ELSE sum[n - 1] + cells[n]
  IN  sum[last]

\* The rows a profile defines of a column, and what it defines them to hold.
DefinedRows(cells, profile, period) ==
  CASE profile = "returns" -> {i \in DOMAIN cells \ {1} : cells[i - 1] # 0}
    [] profile = "sma" -> {i \in DOMAIN cells : i >= period}
    [] OTHER -> DOMAIN cells

DefinedCell(cells, profile, period, i) ==
  CASE profile = "returns" -> <<cells[i], cells[i - 1]>>
    [] profile = "sma" -> <<SumOf(cells, i - period + 1, i), period>>
    [] OTHER -> NoCell

\* A derived table has those rows and no other, in the order of the column.
DerivedAsDefined(cells, profile, period) ==
  LET rows == Derive(profile, period, cells)
  IN  /\ StrictlyIncreasing([k \in DOMAIN rows |-> rows[k].row])
      /\ Range(rows) = {[row |-> i, cell |-> DefinedCell(cells, profile, period, i)] :
                          i \in DefinedRows(cells, profile, period)}

\* The returns and means of a derived column are those of their definitions, in every
\* row that has one and in no other; the other profiles keep a registered table whole
\* (data.py 984-1046).
DerivedIsItsDefinition ==
  case.kind = "derive" => DerivedAsDefined(case.cells, case.profile, case.period)

\* "derived datasets feed precomputed_ml strategies directly"
\* (docs/concepts/datasets.en.md 57-62): a derived feature column that has rows can be
\* built by the candidate.
DerivedFeedIsBuilt ==
  case.kind = "derive" /\ case.profile \in {"returns", "sma"} =>
    LET rows == Derive(case.profile, case.period, case.cells)
    IN  rows # <<>> => Builds(DerivedObject(case.profile, "feature"), rows)

\* Results as the worker stores them are normalised again by every reader: they are
\* accepted again, unchanged; a run matches itself, and which of two runs is named first
\* decides nothing (worker.py 195-205, reports.py 86-182, service.py 307-330).
ComparisonIsSymmetric ==
  case.kind = "compare" /\ WellFormed(case.left.metrics) /\ WellFormed(case.right.metrics) =>
    LET stored == StoredMetrics(case.left.metrics)
    IN  /\ WellFormed(stored) /\ Normalize(stored).standard = stored
        /\ CompareRuns(case.left, case.left) = {}
        /\ CompareRuns(case.left, case.right) = CompareRuns(case.right, case.left)

\* The evidence an honest candidate writes is accepted, whatever feeds it binds how
\* often, unless two bindings have one name, a name that contracts.py 174 takes is not
\* plain, or a feed gave no bar (feed_runtime.py 344-385, worker.py 206-261).
HonestEvidenceIsAccepted ==
  case.kind = "evidence" =>
    LET bindings == case.bindings
        evidence == Evidence(bindings, Configs, [f \in DOMAIN Configs |-> 1], case.bars)
    IN  EvidenceAccepted(evidence, Configs) <=>
          /\ \A i, k \in DOMAIN bindings : bindings[i].name = bindings[k].name => i = k
          /\ \A i \in DOMAIN bindings : bindings[i].name \in PlainNames /\ case.bars[i] >= 1

\* The parameters a sweep reports as best are those its ranking begins with, ties
\* included, and the ranking lists every result once, a combination once for each run
\* mode, by falling rate (worker.py 417-452, 459-494).
BestLeadsTheRanking ==
  case.kind = "sweep" =>
    LET rates == case.rates
        ranking == Ranking(rates)
    IN  /\ ranking[1] = Best(rates)
        /\ Len(ranking) = Len(rates) /\ Range(ranking) = DOMAIN rates
        /\ \A i \in DOMAIN ranking \ {1} : Rate(rates, ranking[i - 1]) >= Rate(rates, ranking[i])

\* What a client has that asks for the next page for as long as there is more.
AllPages(list, limit) ==
  LET from[offset \in 0..Len(list)] ==
        LET page == Page(list, offset, limit)
        IN  IF HasMore(list, offset, limit) THEN page \o from[offset + Len(page)] ELSE page
  IN  from[0]

\* The keys of a list of entries.
Keys(list, terms, archetype) ==
  [i \in DOMAIN list |-> <<Score(list[i], terms, archetype), list[i].id>>]

EarlierRow(a, b) == a.row < b.row

\* A search finds every match once, however the entries are stored; the order they are
\* stored in decides nothing but the places of entries of one score and canonical id;
\* and a client that asks for the next page for as long as there is more sees the whole
\* list in order (catalog.py 248-276, 288-365; jobs.py 615-625).
SearchMissesNothing ==
  case.kind = "search" =>
    LET byRow == Sorted(Range(case.store), EarlierRow)
        ranked == Ranked(case.store, case.terms, case.archetype)
        matches == {e \in Range(case.store) :
          /\ case.archetype = Anything \/ case.archetype \in e.archetypes
          /\ case.terms = {} \/ case.terms \cap e.tokens # {}}
    IN  /\ Range(ranked) = matches /\ Len(ranked) = Cardinality(matches)
        /\ Keys(ranked, case.terms, case.archetype)
             = Keys(Ranked(byRow, case.terms, case.archetype), case.terms, case.archetype)
        /\ AllPages(ranked, case.limit) = ranked
=============================================================================
