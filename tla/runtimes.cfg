SPECIFICATION BenchSpec
CONSTANTS
  IntMax = 7
  Indexes <- MCIndexes
  Threads = {main, worker}
  JsBridges <- MCJsBridges
  None = None
  Drivers = {"main", "bench", "embedder"}
  BenchSizes <- MCBenchSizes
  Warmup = 2
  MaxSlow = 2
INVARIANTS
  AllRuntimesOrNone NothingLeftBehind ReaperAskedOnMainThread NamesAreRight GoMeansP95
