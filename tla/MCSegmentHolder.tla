---------------------------- MODULE MCSegmentHolder ----------------------------
\* Model values for checking SegmentHolder with TLC.
EXTENDS SegmentHolder

CONSTANTS p1, p2, v1, v2, d1, d2

MCPoints == {p1, p2}
MCVals == {v1, v2}
\* The first segment and one directory for its optimized copy.
MCDirs == {d1, d2}

========================================
