----------------------------- MODULE MCSegment -----------------------------
\* Model values for checking Segment with TLC.
EXTENDS Segment

CONSTANTS p1, p2, v1, v2, k1

MCPoints == {p1, p2}
MCVals == {v1, v2}
MCPayKeys == {k1}
\* The kinds whose interplay the flush order is about.
MCOpKinds == {"upsert", "set_payload", "delete"}

=============================================================================
