------------------------------ MODULE FeedData ------------------------------
(***************************************************************************)
(* What becomes of a table of bars: canonicalised when it is registered    *)
(* (data.py 52-110, 264-371, 435-537), aligned with the other feeds of its *)
(* DataSpec (574-597), derived from (893-1046), and turned into a          *)
(* backtrader feed by the candidate (feed_runtime.py 80-210).              *)
(*                                                                         *)
(* A row is a record [time, open, high, low, close].  A source row's time  *)
(* counts half seconds (the finest a source needs here to fall between two *)
(* canonical stamps), a canonical row's whole seconds; Garbage stands for  *)
(* a cell that does not parse, an empty one included.                      *)
(***************************************************************************)
EXTENDS Integers, Sequences, FiniteSets, Functions

CONSTANT Garbage

ASSUME FeedDataAssumption == Garbage \notin Int

Refused == <<>>   \* an InvalidRequest: a table without rows is refused as well

Minute == 60
Day == 86400

-----------------------------------------------------------------------------
(* Canonical tables.                                                       *)

ValidBar(row, allowNonPositive) ==
  /\ allowNonPositive \/ \A p \in {row.open, row.high, row.low, row.close} : p > 0
  /\ row.low <= row.high
  /\ {row.open, row.close} \subseteq row.low .. row.high

Parses(row) == Garbage \notin {row.time, row.open, row.high, row.low, row.close}

\* isoformat(timespec="seconds") drops what is below a second.
CanonicalRow(row) == [row EXCEPT !.time = @ \div 2]

\* Mutation: the stamps are compared as they stand in the source.
FollowsAsWritten(rows, row) ==
  rows = <<>> \/ row.time > 2 * rows[Len(rows)].time

\* The canonical stamps are strictly increasing.
Follows(rows, row) ==
  rows = <<>> \/ CanonicalRow(row).time > rows[Len(rows)].time

\* The first row that fails refuses the table.
TakeRow(acc, row, allowNonPositive) ==
  IF acc.ok /\ Parses(row) /\ Follows(acc.rows, row)
       /\ ValidBar(CanonicalRow(row), allowNonPositive)
    THEN [ok |-> TRUE, rows |-> Append(acc.rows, CanonicalRow(row))]
    ELSE [ok |-> FALSE, rows |-> Refused]

\* _stream_canonical: row by row.
Canonical(source, allowNonPositive) ==
  LET taken[n \in 0..Len(source)] ==
        IF n = 0 THEN [ok |-> TRUE, rows |-> <<>>]
        ELSE TakeRow(taken[n - 1], source[n], allowNonPositive)
  IN  taken[Len(source)].rows

-----------------------------------------------------------------------------
(* Feed descriptors.                                                       *)

DailyFrames == {"days", "weeks", "months", "years"}
SubMinuteFrames == {"ticks", "microseconds", "seconds"}
Timeframes == SubMinuteFrames \cup {"minutes"} \cup DailyFrames

PandasFormats == {"pandas", "pandas_custom_lines"}
DatedFormats == {"backtrader_csv", "mt5_csv"}
Formats == PandasFormats \cup DatedFormats \cup
             {"generic_csv", "yahoo_csv", "canonical_csv_v1"}

Direct == [mode |-> "direct"]

BarOperationAccepted(operation) ==
  \/ operation = Direct
  \/ /\ operation.mode \in {"resample", "replay"}
     /\ DOMAIN operation = {"mode", "timeframe", "compression"}
     /\ operation.timeframe \in Timeframes
     /\ operation.compression >= 1

\* _adapter_options: the options a DataSpec gives for a feed.  A time_column that names
\* nothing is refused like an option that is not supported.
AdapterOptionsAccepted(format, options) ==
  options \subseteq (IF format \in DatedFormats THEN {"time_column"} ELSE {})

\* Mutation: only Yahoo feeds are held to stamps their adapter can represent.
FrameFitsYahooOnly(feed) == feed.format = "yahoo_csv" => feed.timeframe \in DailyFrames

FrameFits(feed) ==
  /\ feed.format = "yahoo_csv" => feed.timeframe \in DailyFrames
  /\ feed.format = "mt5_csv" => feed.timeframe \notin SubMinuteFrames

\* One feed of a DataSpec; custom are its lines besides the seven base columns, mapped
\* those of them with a source column.
FeedAccepted(feed) ==
  /\ feed.format \in Formats
  /\ feed.source_type =
       IF feed.format \in PandasFormats THEN "materialized_dataframe" ELSE "local_file"
  /\ feed.format \in PandasFormats => feed.is_csv
  /\ feed.timeframe \in Timeframes /\ feed.compression >= 1
  /\ FrameFits(feed)
  /\ feed.custom \subseteq feed.mapped
  /\ (feed.format = "pandas_custom_lines") <=> (feed.custom # {})
  /\ BarOperationAccepted(feed.operation)
  /\ AdapterOptionsAccepted(feed.format, feed.options)

\* What a manifest keeps of a feed for the worker: the descriptor's fields, or the
\* defaults of _store_manifest.
FeedObject(feed) ==
  [input_format |-> feed.format, timeframe |-> feed.timeframe,
   compression |-> feed.compression, custom |-> feed.custom,
   operation |-> feed.operation]

PlainObject ==
  [input_format |-> "canonical_csv_v1", timeframe |-> "unspecified",
   compression |-> 1, custom |-> {}, operation |-> Direct]

\* derive_tabular_dataset names the format and the line it adds, nothing else.
DerivedObject(profile, output) ==
  IF profile \in {"identity", "dropna"} THEN PlainObject
  ELSE [PlainObject EXCEPT !.input_format = "pandas_custom_lines", !.custom = {output}]

-----------------------------------------------------------------------------
(* The feed the candidate builds.                                          *)

\* _canonical_rows, _timeframe, _build_feed and _add_feed raise nothing.
Builds(object, rows) ==
  /\ rows # <<>>
  /\ object.timeframe \in Timeframes
  /\ object.input_format \in Formats
  /\ object.input_format = "pandas_custom_lines" => object.custom # {}
  /\ object.operation.mode \in {"direct", "resample", "replay"}

\* The stamp an adapter file keeps: a date for Yahoo, a date and minute for MT5.
AdapterTime(format, time) ==
  CASE format = "yahoo_csv" -> time - (time % Day)
    [] format = "mt5_csv" -> time - (time % Minute)
    [] OTHER -> time

\* A bar is stamped with a multiple of its frame's unit (any date for a coarser frame).
Aligned(timeframe, time) ==
  CASE timeframe = "minutes" -> time % Minute = 0
    [] timeframe \in DailyFrames -> time % Day = 0
    [] OTHER -> TRUE

-----------------------------------------------------------------------------
(* The overlap of the feeds of one DataSpec.                               *)

\* Mutation: every row of the other feed counts, in the master or not.
CountWithAllRows(count, tables, master, feed) ==
  IF feed = master THEN count ELSE Len(tables[feed])

\* The pass over one feed: the master's is skipped, another assigns the count anew.
CountWith(count, tables, master, feed) ==
  IF feed = master THEN count
  ELSE Cardinality({k \in DOMAIN tables[feed] : tables[feed][k] \in Range(tables[master])})

\* tables are the stamps of each feed, tables[master] the master's.
CommonCount(tables, master) ==
  LET count[n \in 0..Len(tables)] ==
        IF n = 0 THEN Cardinality(Range(tables[master]))
        ELSE CountWith(count[n - 1], tables, master, n)
  IN  count[Len(tables)]

-----------------------------------------------------------------------------
(* Derived tables: a sequence of [row, cell], the source row a derived row *)
(* is made of and the cell it adds (a quotient or a mean, kept as the pair *)
(* numerator, denominator; NoCell when the profile adds none).             *)

NoCell == <<0, 0>>
DeriveStart == [previous |-> Garbage, window |-> <<>>, rolling |-> 0, rows |-> <<>>]

Kept(acc, i, cell) == Append(acc.rows, [row |-> i, cell |-> cell])

\* A first row, or one after a zero, has no return.
ReturnsStep(acc, i, value) ==
  [acc EXCEPT
     !.previous = value,
     !.rows = IF acc.previous \in {Garbage, 0} THEN @
              ELSE Kept(acc, i, <<value, acc.previous>>)]

\* Mutation: the value that leaves the window stays in the running sum.
SmaStepLeaky(acc, i, value, period) ==
  LET window == Append(acc.window, value)
      full == Len(window) > period
      sum == acc.rolling + value
  IN  [acc EXCEPT
         !.window = IF full THEN Tail(window) ELSE window,
         !.rolling = sum,
         !.rows = IF Len(window) < period THEN @ ELSE Kept(acc, i, <<sum, period>>)]

\* The running sum over the last period values; the rows before the first full window
\* are dropped.
SmaStep(acc, i, value, period) ==
  LET window == Append(acc.window, value)
      full == Len(window) > period
      sum == acc.rolling + value - (IF full THEN Head(window) ELSE 0)
  IN  [acc EXCEPT
         !.window = IF full THEN Tail(window) ELSE window,
         !.rolling = sum,
         !.rows = IF Len(window) < period THEN @ ELSE Kept(acc, i, <<sum, period>>)]

DeriveStep(acc, i, value, profile, period) ==
  CASE profile = "identity" -> [acc EXCEPT !.rows = Kept(acc, i, NoCell)]
    [] profile = "dropna" -> [acc EXCEPT !.rows = IF value = Garbage THEN @ ELSE Kept(acc, i, NoCell)]
    [] profile = "returns" -> ReturnsStep(acc, i, value)
    [] OTHER -> SmaStep(acc, i, value, period)

\* _stream_derived on the cells of the chosen column.
Derive(profile, period, cells) ==
  LET after[n \in 0..Len(cells)] ==
        IF n = 0 THEN DeriveStart
        ELSE DeriveStep(after[n - 1], n, cells[n], profile, period)
  IN  after[Len(cells)].rows
=============================================================================
