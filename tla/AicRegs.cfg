CONSTANTS
  Sizes = {32, 64, 96, 128, 1024}
  Dies = 2
SPECIFICATION SourceSpec
INVARIANTS MaskStaysInBlock
CHECK_DEADLOCK FALSE
