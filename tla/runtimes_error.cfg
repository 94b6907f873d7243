SPECIFICATION BenchSpec
CONSTANTS
  IntMax = 7
  Indexes <- MCIndexes
  Threads = {main}
  JsBridges <- MCJsBridges
  None = None
  Drivers = {"embedder"}
  BenchSizes <- MCBenchSizes
  Warmup = 2
  MaxSlow = 2
INVARIANT
  ErrorsAreCaptured
