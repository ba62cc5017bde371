SPECIFICATION PagerSpec
CONSTANTS
  PageCount = 2
  WordsPerPage = 1
  Values = {0, 1}
  ClockModulus = 4
  MaxClock = 4
  HeapRefusals = 3
  SwapWritesMayFail = TRUE
  SwapReadsMayFail = TRUE
  NoSlot = NoSlot
  Absent = Absent
INVARIANTS PagerTypeOK SlotsOwned CleanPagesAreStored
PROPERTY IsMemory
\* the program ends in Shutdown; the bounded run also stops at MaxClock
CHECK_DEADLOCK FALSE
