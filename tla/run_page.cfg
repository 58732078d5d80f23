SPECIFICATION Spec
CONSTANTS
  Run = {r1, r2}
  Task = {t1}
  Asks = {a1}
  Overlap = FALSE
  Novice = TRUE
  MaxShows = 2
  MaxClicks = 2
INVARIANTS NoStreamLeaks 
PROPERTIES StalePollsStop RunPageSettles
CHECK_DEADLOCK FALSE
