SPECIFICATION EngineSpec
CONSTANTS
  Tokens = {t1, t2}
  Unset = Unset
  Size = 3
  Onnx = {"onnx", "second"}
  Projectors = {"clip", "vision"}
  Requests <- Asked
  Outputs <- Produced
  Width <- Widths
  RankLimit = 2
  MaxWord = 255
  Side = 2
  Table = 2
  AudioWidth = 5
  MaxSize = 255
  MaxInt = 15
  Blocks <- TypeBlocks
  Reserved = 8
  Matrices <- Weights
  Probe <- ProbeMatrix
  Memory = {8, 40, 80, 100}
  Wanted <- CacheSizes
  Libraries = {"", "path"}
  Others = 2
  Parameters <- Learnt
  Features <- Given
  Frozen <- Mapped
  Identifiers <- Rows
  Slices <- Slice
  Shapes <- Reshapes
  Scalars = {3}
  Allowance = 24
  Finite = 60
  MaxNodes <- Lengths
INVARIANTS SessionReadsAreExact ExecutionIsExact RocmIsExact MlxIsExact GradientsAreExact
CHECK_DEADLOCK FALSE
