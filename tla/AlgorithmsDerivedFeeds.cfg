SPECIFICATION Spec
CONSTANTS
  Garbage = Garbage
  Null = Null
  NonFinite = NonFinite
  IntegerMetrics = {"trade_num"}
  FloatMetrics = {"final_value", "sharpe_ratio", "return_rate"}
  NullableMetrics = {"sharpe_ratio"}
  DefaultTolerance <- MCDefault
  Overrides <- MCOverrides
  MaxRows = 3
  MaxCells = 5
  MaxFeeds = 2
  MaxCombos = 4
  MaxBindings = 3
  FeedNames = {"n1", "n2", "n3", "pi"}
  PlainNames = {"n1", "n2", "n3"}
INVARIANT DerivedFeedIsBuilt
