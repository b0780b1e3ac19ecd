\* A buffer of five bytes, blocks of up to two, counters of four bits; three
\* frames and two transfers in flight, two of which leak; three overrides
\* fill a descriptor to its limit; three runs on two symbols of a configuration;
\* lists of up to two dependencies between four symbols, two of them of a choice.
SPECIFICATION AllSpec
CONSTANTS
  Bytes = {a, b}
  Alloced = 5
  MaxSize = 2
  Word = 16
  Frames = {"f1", "f2", "f3"}
  chunks <- MCChunks
  DmaChunks = 4
  MaxUrbs = 2
  Cookies = 3
  MayFail = TRUE
  MaxLeaks = 2
  Ops = {"sum", "a", "r", "=", "O", "A", "d", "D"}
  Addresses = {a1, a2, a3}
  Bits = {b1}
  MaxLength = 11
  MaxWords = 5
  Mini = 2
  MaxRuns = 4
  ConfSyms = {"A", "B"}
  MaxSaves = 3
  Syms = {"sym", "group", "opt1", "opt2"}
  Choice = "group"
  ValueList <- MCValues
  NoSym = "none"
  MaxDeps = 2
INVARIANTS AccountsHold FileKeeps NothingStale BreakingIsEnough
PROPERTIES ActsAsDeque
\* A BUG_ON ends the program, the driver is closed, or a file cannot be loaded;
\* the bound on the runs is reached, or all dependencies are checked.
CHECK_DEADLOCK FALSE
