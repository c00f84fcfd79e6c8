\* One segment directory of any release, restarted once at any point of
\* load_segment: can an interrupted migration make it unloadable?
CONSTANTS
  Cur = Cur
  MaxCrashes = 1
SPECIFICATION Spec
INVARIANT MigrationSurvivesCrash
CHECK_DEADLOCK FALSE
