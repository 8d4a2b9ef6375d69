SPECIFICATION FairSpec
CONSTANTS
  Timers = {t1, t2, t3, t4}
  Callers = {a}
  MaxRuns = 1
  NoTimer = NoTimer
  Nobody = Nobody
CHECK_DEADLOCK FALSE
INVARIANTS  NoUseAfterFree
PROPERTIES ResetReturns CheckKeepsRunning
