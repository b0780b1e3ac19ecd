\* Conditions over a boolean and a tristate; files with lines for four symbols;
\* three statements.
SPECIFICATION AllSpec
CONSTANTS
  IntBits = 4
  LongBits = 6
  MaxConj = 1
  MaxEntries = 3
INVARIANTS RewritesKeepMeaning SelectHonoured RoundTrip MenusAsSaid
PROPERTIES TextSurvives
\* All is asked and written, or the menus are finished.
CHECK_DEADLOCK FALSE
