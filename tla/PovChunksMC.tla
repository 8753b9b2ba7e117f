---------------------------- MODULE PovChunksMC ----------------------------
(* Small worlds for PovChunks: a row of regions for the interleavings, the  *)
(* native window with its real limits for the ring, and a strip under a     *)
(* window of nine for a view that settles while chunks are evicted.         *)
EXTENDS PovChunks

\* A row of regions; the camera stands in the middle of one of them.
Row2 == {<<0, 0>>, <<1, 0>>}
Row3 == {<<0, 0>>, <<1, 0>>, <<2, 0>>}
RowCameras == {<<2, 2>>, <<6, 2>>}
EndCameras == {<<2, 2>>, <<10, 2>>}
OneCamera == {<<2, 2>>}

\* Everything within the native window of either of two places, the second two
\* regions further.
RingRegions == {<<x, y>> : x \in -3..5, y \in -3..3}
RingCameras == {<<10, 10>>, <<522, 10>>}

\* Three windows of nine in a row, two regions apart: more than stay resident.
StripRegions == (-1..5) \X (0..2)
StripCameras == {<<2, 6>>, <<10, 6>>, <<18, 6>>}
=============================================================================
