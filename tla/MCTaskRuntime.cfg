SPECIFICATION Spec
CONSTANTS
  Thread = {t1, t2}
  Job = {"parse", "fetch"}
  Holder <- MCHolder
  JobOf <- MCJobOf
  How <- MCHow
INVARIANTS TypeOK NoTaskSleptOn FrameInUseIsThere FrameIsFreed
PROPERTIES EveryHolderIsAnswered
CHECK_DEADLOCK FALSE
