--------------------------- MODULE MCSegmentRead ---------------------------
\* Small segments for checking SegmentRead with TLC.
EXTENDS SegmentRead

MCIds == 0..2
MCOffs == 0..1
MCSegs == {1, 2}

=============================================================================
