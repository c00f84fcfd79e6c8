--------------------------- MODULE MCSegmentLatch ---------------------------
\* Model values for checking SegmentLatch with TLC.
EXTENDS SegmentLatch

CONSTANTS p1, p2, v1, v2, k1

MCPoints == {p1, p2}
MCVals == {v1, v2}
MCPayKeys == {k1}
\* Every operation kind but the deletion of a point.
MCOpKindsNoDelete == {"upsert", "set_payload", "overwrite_payload",
                      "delete_payload", "clear_payload"}
MCOpKindsAll == MCOpKindsNoDelete \cup {"delete"}

=============================================================================
