\* The pages go round for ever; a core that holds a translation may stop.
CONSTANTS
  Cpu <- TwoCores
  VPage <- OnePage
  DRAM_PAGES = 1
  MaxDraw = 0
  MaxRun = 0
  WORD = 16
SPECIFICATION Spec
PROPERTY SwapInvalidates
CHECK_DEADLOCK FALSE
