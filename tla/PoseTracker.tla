----------------------------- MODULE PoseTracker -----------------------------
(***************************************************************************)
(* One camera frame through the native library and back: detect_points()   *)
(* finds the blobs, estimate_pose() labels them by sorting and matches     *)
(* them against the model points of an earlier frame, ConvertRGBtoGray()   *)
(* and onCameraFrame() hand the pose to the renderer and to the display.   *)
(*                                                                         *)
(* All of it runs on the camera thread.  A rotation or translation is      *)
(* named by the number of the frame that solvePnPGeneric() found it in; 0  *)
(* is the identity or the zero vector.                                     *)
(***************************************************************************)
EXTENDS Integers, Sequences

CONSTANTS
    Contour,     \* contours: records with a centroid (x, y) and an area
    MaxContours, \* bound: contours found in one frame
    MaxFrames    \* bound: frames

ASSUME PoseAssumption ==
    /\ Contour \subseteq [x : Int, y : Int, area : Int]
    /\ MaxContours \in Nat /\ MaxFrames \in Nat

VARIABLES
    pc,             \* "idle", or the place in the frame being processed
    frame,          \* its number
    touch_status,   \* info.touch_status
    points,         \* what detect_points() found
    image_points,   \* the same, sorted
    model_points,   \* kept from an earlier frame
    infoR,          \* the data of info.R, which info.rv points to
    gR, gt,         \* objLeft.gR and objLeft.gt
    bResL,
    native_info,    \* the rotation that NativeInfo() returned for the display
    renderer        \* gRotationMatrix_L: rotation and translation

vars == <<pc, frame, touch_status, points, image_points, model_points, infoR,
          gR, gt, bResL, native_info, renderer>>

Point == [x : Int, y : Int]
Empty == <<>>

\* InitMatrix(), and the matrices of the renderer.
Init ==
    /\ pc = "idle" /\ frame = 0 /\ touch_status = 1
    /\ points = Empty /\ image_points = Empty /\ model_points = Empty
    /\ infoR = 0 /\ gR = 0 /\ gt = 0
    /\ bResL = 0 /\ native_info = 0
    /\ renderer = [rot |-> 0, trans |-> 0]

-----------------------------------------------------------------------------
(* Detecting and labelling the points. *)

\* A contour counts when its centroid is not the origin and it is large.
IsBlob(c) == ~(c.x = 0 /\ c.y = 0) /\ c.area > 300

detect_points(contours) ==
    LET found[i \in 0..Len(contours)] ==
            IF i = 0 THEN Empty
            ELSE IF IsBlob(contours[i])
                 THEN Append(found[i - 1], [x |-> contours[i].x, y |-> contours[i].y])
                 ELSE found[i - 1]
    IN  found[Len(contours)]

\* The centroid of the points, times their number.
avg_coord(pts) ==
    LET sum[i \in 0..Len(pts)] ==
            IF i = 0 THEN [x |-> 0, y |-> 0]
            ELSE [x |-> sum[i - 1].x + pts[i].x, y |-> sum[i - 1].y + pts[i].y]
    IN  sum[Len(pts)]

\* Each point with its distance from the centroid: the square of it, times
\* the square of their number, which orders the points in the same way.
add_distance(pts, mid) ==
    LET n == Len(pts)
        square(a) == a * a
    IN  [i \in 1..n |->
            [p |-> pts[i], d |-> square(mid.x - n * pts[i].x) + square(mid.y - n * pts[i].y)]]

\* Mutant: points at the same distance are not told apart.
point_comparator_NoTieBreak(a, b) == b.d > a.d

point_comparator(a, b) ==
    IF a.d = b.d
    THEN b.p.x > a.p.x \/ (b.p.x = a.p.x /\ b.p.y > a.p.y)
    ELSE b.d > a.d

Permutations(n) == {p \in [1..n -> 1..n] : \A i, j \in 1..n : p[i] = p[j] => i = j}

\* std::sort() may return any permutation that the comparator calls sorted.
sort(s) ==
    LET n == Len(s)
    IN  {[i \in 1..n |-> s[p[i]]] :
            p \in {q \in Permutations(n) :
                      \A i, j \in 1..n : i < j => ~point_comparator(s[q[j]], s[q[i]])}}

\* The orders in which estimate_pose() may label the points it was given.
Labellings(pts) ==
    {[i \in 1..Len(s) |-> s[i].p] : s \in sort(add_distance(pts, avg_coord(pts)))}

-----------------------------------------------------------------------------
(* ConvertRGBtoGray() *)

\* Mutant: the touch is read from the place of the field of view in cInfo.
ConvertRGBtoGray_WrongIndex(contours, touch) ==
    /\ pc = "idle" /\ frame < MaxFrames
    /\ frame' = frame + 1 /\ touch_status' = 90
    /\ pc' = "publish"
    /\ UNCHANGED <<points, image_points, model_points, infoR, gR, gt, bResL, native_info,
                   renderer>>

\* info.R is set to the identity; without points nothing is estimated.
ConvertRGBtoGray(contours, touch) ==
    /\ pc = "idle" /\ frame < MaxFrames
    /\ frame' = frame + 1
    /\ infoR' = 0
    /\ touch_status' = touch
    /\ points' = detect_points(contours)
    /\ bResL' = 0
    /\ \/ /\ points' = Empty
          /\ image_points' = Empty
          /\ pc' = "publish"
       \/ /\ points' # Empty
          /\ image_points' \in Labellings(points')
          /\ pc' = "estimate"
    /\ UNCHANGED <<model_points, gR, gt, native_info, renderer>>

\* The end of estimate_pose(): *Rot = info.R.clone(); return true.
ReturnsTrue ==
    /\ gR' = infoR'
    /\ bResL' = 1
    /\ pc' = "publish"
    /\ UNCHANGED <<frame, touch_status, points, image_points, native_info, renderer>>

\* Mutant: the model is made of the points as they were found.
refresh_model_points_Unsorted == model_points' = points

refresh_model_points == model_points' = image_points

\* A touch makes the points of this frame the model.
TouchRefresh ==
    /\ pc = "estimate" /\ touch_status = 0
    /\ refresh_model_points
    /\ UNCHANGED <<infoR, gt>>
    /\ ReturnsTrue

TooFew ==
    /\ pc = "estimate" /\ touch_status # 0
    /\ Len(image_points) <= 2
    /\ UNCHANGED <<model_points, infoR, gt>>
    /\ ReturnsTrue

\* So does a change in their number.
SizeDiffers ==
    /\ pc = "estimate" /\ touch_status # 0
    /\ Len(image_points) > 2 /\ Len(image_points) # Len(model_points)
    /\ refresh_model_points
    /\ UNCHANGED <<infoR, gt>>
    /\ ReturnsTrue

SizeSame ==
    /\ pc = "estimate" /\ touch_status # 0
    /\ Len(image_points) > 2 /\ Len(image_points) = Len(model_points)
    /\ pc' = "solve"
    /\ UNCHANGED <<frame, touch_status, points, image_points, model_points, infoR,
                   gR, gt, bResL, native_info, renderer>>

\* Mutant: Rodrigues() writes to a matrix of the copied info only.
Solved_OwnMatrix ==
    /\ pc = "solve"
    /\ gt' = frame /\ gR' = frame /\ bResL' = 1 /\ pc' = "publish"
    /\ UNCHANGED <<frame, touch_status, points, image_points, model_points, infoR,
                   native_info, renderer>>

\* Mutant: the translation is not handed out.
Solved_NoTranslation ==
    /\ pc = "solve"
    /\ infoR' = frame
    /\ UNCHANGED <<model_points, gt>>
    /\ ReturnsTrue

\* solvePnPGeneric() finds a pose.  info is a copy, but its R shares the data
\* of the global one, and Rodrigues() writes there.
Solved ==
    /\ pc = "solve"
    /\ infoR' = frame
    /\ gt' = frame
    /\ UNCHANGED model_points
    /\ ReturnsTrue

\* It finds none: the rotation is the identity, the translation stays.
NoSolution ==
    /\ pc = "solve"
    /\ UNCHANGED <<model_points, infoR, gt>>
    /\ ReturnsTrue

\* The rest of ConvertRGBtoGray() and of onCameraFrame().
Publish ==
    /\ pc = "publish"
    /\ native_info' = infoR
    /\ renderer' = IF bResL = 1 THEN [rot |-> gR, trans |-> gt] ELSE renderer
    /\ points' = Empty /\ image_points' = Empty
    /\ pc' = "idle"
    /\ UNCHANGED <<frame, touch_status, model_points, infoR, gR, gt, bResL>>

estimate_pose == TouchRefresh \/ TooFew \/ SizeDiffers \/ SizeSame \/ Solved \/ NoSolution

Contours == UNION {[1..n -> Contour] : n \in 0..MaxContours}

Next ==
    \/ \E contours \in Contours, touch \in {0, 1} : ConvertRGBtoGray(contours, touch)
    \/ estimate_pose
    \/ Publish

Spec == Init /\ [][Next]_vars

-----------------------------------------------------------------------------
(* Properties *)

\* Every variable keeps its type.
TypeOK ==
    /\ pc \in {"idle", "estimate", "solve", "publish"}
    /\ frame \in 0..MaxFrames /\ touch_status \in {0, 1}
    /\ points \in Seq(Point) /\ image_points \in Seq(Point)
    /\ model_points \in Seq(Point)
    /\ infoR \in 0..frame /\ gR \in 0..frame /\ gt \in 0..frame
    /\ bResL \in {0, 1} /\ native_info \in 0..frame
    /\ renderer \in [rot : 0..frame, trans : 0..frame]

\* solvePnPGeneric() is given as many model points as image points, at least
\* the three it needs, and the model is labelled as the image is, whatever
\* blobs earlier frames had: equal indices mean equal ranks in both.
SolverInput ==
    pc = "solve" =>
        /\ Len(image_points) = Len(model_points) /\ Len(image_points) >= 3
        /\ Labellings(model_points) = {model_points}

\* The labels do not depend on the order in which the contours were found: the
\* comparator leaves std::sort() one result, and exchanging two neighbours does
\* not change it.  Every order of the contours is a frame of its own, so this
\* makes the result the same for all of them.
LabelsAreCanonical ==
    pc = "estimate" =>
        \A k \in 1..Len(points) :
            LET swapped == [i \in 1..Len(points) |->
                               points[CASE i = k /\ k > 1 -> k - 1
                                        [] i = k - 1       -> k
                                        [] OTHER           -> i]]
            IN  Labellings(swapped) = {image_points}

\* A rotation is never combined with the translation of another frame.
PoseIsOneSolve == gR # 0 => gt = gR

\* Between frames the renderer has the newest estimate, also after frames in
\* which nothing was detected, and after a frame with points the display shows
\* the rotation that is rendered, although estimate_pose() works on a copy of
\* info.
RendererFollowsPose ==
    pc = "idle" => /\ renderer = [rot |-> gR, trans |-> gt]
                   /\ bResL = 1 => native_info = renderer.rot

=============================================================================
