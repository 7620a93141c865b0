--------------------------- MODULE MCPoseTracker ---------------------------
(***************************************************************************)
(* Contours for model checking: two of the three blobs are always at the   *)
(* same distance from their centroid; one contour has its centroid at the  *)
(* origin and one is too small by one.                                     *)
(***************************************************************************)
EXTENDS PoseTracker

MCContour == {[x |-> 1, y |-> 0, area |-> 301], [x |-> 0, y |-> 1, area |-> 400],
              [x |-> 2, y |-> 2, area |-> 301], [x |-> 0, y |-> 0, area |-> 900],
              [x |-> 1, y |-> 1, area |-> 300]}

=============================================================================
