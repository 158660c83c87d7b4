SPECIFICATION Spec
CONSTANTS
  Blocks <- SmallBlocks
  Pool <- PoolOf
  Candidates <- CandidatesOf
  Overflows <- OverflowsOn
  WordMax = 127
  Iterations = 9
  MaxSteps = 4
INVARIANTS TypeOK Verdict Minimal CounterexampleTyped
PROPERTIES Simpler Reports
CHECK_DEADLOCK FALSE
