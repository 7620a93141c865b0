-------------------------- MODULE PoseTrackerProofs --------------------------
(***************************************************************************)
(* The points that estimate_pose() is given, labels and keeps, and the     *)
(* agreement of pose, renderer and display, for any contours and any       *)
(* number of frames.                                                       *)
(***************************************************************************)
EXTENDS LabellingProofs

USE SMTT(60)

-----------------------------------------------------------------------------
(* What estimate_pose() is given and keeps *)

\* The image points are the labelling of the frame's points until they have
\* been used, the model is a labelling that nothing relabels, and there are as
\* many points in both when the solver is called.
Labelled ==
    /\ pc \in {"estimate", "solve"} => image_points \in Labellings(points)
    /\ model_points = Empty \/ Labellings(model_points) = {model_points}
    /\ pc = "solve" => Len(image_points) = Len(model_points) /\ Len(image_points) >= 3

LInv == TypeOK /\ Labelled

\* The contours of a frame are a vector of contours.
LEMMA ContoursAreVectors == Contours \subseteq Seq(Contour)
  BY PoseAssumption DEF Contours

\* InitMatrix() leaves an empty model.
LEMMA InitLabelled == Init => LInv
  <1>1. Empty \in Seq(Point)
    BY DEF Empty
  <1> QED
    BY <1>1, PoseAssumption DEF Init, LInv, TypeOK, Labelled

\* Detecting and labelling the points of a new frame.
LEMMA ConvertLabels ==
    ASSUME LInv, NEW contours \in Contours, NEW touch \in {0, 1},
           ConvertRGBtoGray(contours, touch)
    PROVE  LInv'
  <1>1. contours \in Seq(Contour)
    BY ContoursAreVectors, Zenon
  <1>2. points' \in Seq(Point)
    <2>1. PICK at : DetectedAt(detect_points(contours), at, contours, Len(contours))
      BY <1>1, DetectPointsFindsTheBlobs, Zenon
    <2> QED
      BY <2>1, Zenon DEF DetectedAt, ConvertRGBtoGray
  <1>3. image_points' \in Seq(Point) /\ pc' \in {"publish", "estimate"}
        /\ (pc' = "estimate" => image_points' \in Labellings(points'))
    <2>1. CASE image_points' = Empty /\ pc' = "publish"
      BY <2>1 DEF Empty
    <2>2. CASE image_points' \in Labellings(points') /\ pc' = "estimate"
      BY <1>2, <2>2, LabelledPoints, Zenon
    <2> QED
      BY <2>1, <2>2, Zenon DEF ConvertRGBtoGray
  <1>4. frame' \in 0..MaxFrames /\ 0..frame \subseteq 0..frame' /\ 0 \in 0..frame'
    BY PoseAssumption DEF ConvertRGBtoGray, LInv, TypeOK
  <1>5. TypeOK'
    <2>1. /\ infoR' = 0 /\ bResL' = 0 /\ touch_status' \in {0, 1}
          /\ UNCHANGED <<model_points, gR, gt, native_info, renderer>>
      BY DEF ConvertRGBtoGray
    <2>2. /\ infoR' \in 0..frame' /\ gR' \in 0..frame' /\ gt' \in 0..frame'
          /\ bResL' \in {0, 1} /\ native_info' \in 0..frame'
          /\ renderer' \in [rot : 0..frame', trans : 0..frame']
      BY <1>4, <2>1 DEF LInv, TypeOK
    <2>3. model_points' \in Seq(Point) /\ pc' \in {"idle", "estimate", "solve", "publish"}
      BY <1>3, <2>1, Zenon DEF LInv, TypeOK
    <2> QED
      BY <1>2, <1>3, <1>4, <2>1, <2>2, <2>3, Zenon DEF TypeOK
  <1>6. Labelled'
    BY <1>3 DEF ConvertRGBtoGray, LInv, Labelled
  <1> QED
    BY <1>5, <1>6 DEF LInv

\* The branches of estimate_pose(), and the end of the frame.
LEMMA NextLabels == LInv /\ [Next]_vars => LInv'
  <1> SUFFICES ASSUME LInv, [Next]_vars
               PROVE  LInv'
    OBVIOUS
  <1>1. ASSUME NEW contours \in Contours, NEW touch \in {0, 1},
               ConvertRGBtoGray(contours, touch)
        PROVE  LInv'
    BY <1>1, ConvertLabels, Zenon
  <1>2. ASSUME pc = "estimate", refresh_model_points
        PROVE  Labellings(model_points') = {model_points'}
    BY <1>2, LabelledPoints, Zenon DEF LInv, TypeOK, Labelled, refresh_model_points
  <1>e. Empty \in Seq(Point)
    BY DEF Empty
  <1> USE DEF LInv, TypeOK, Labelled
  <1>3. CASE TouchRefresh
    <2>1. Labellings(model_points') = {model_points'}
      BY <1>2, <1>3, Zenon DEF TouchRefresh
    <2> QED
      BY <1>3, <2>1 DEF TouchRefresh, refresh_model_points, ReturnsTrue
  <1>4. CASE TooFew
    BY <1>4 DEF TooFew, ReturnsTrue
  <1>5. CASE SizeDiffers
    <2>1. Labellings(model_points') = {model_points'}
      BY <1>2, <1>5, Zenon DEF SizeDiffers
    <2> QED
      BY <1>5, <2>1 DEF SizeDiffers, refresh_model_points, ReturnsTrue
  <1>6. CASE SizeSame
    BY <1>6 DEF SizeSame
  <1>7. CASE Solved
    BY <1>7 DEF Solved, ReturnsTrue
  <1>8. CASE NoSolution
    BY <1>8 DEF NoSolution, ReturnsTrue
  <1>9. CASE Publish
    BY <1>9, <1>e DEF Publish
  <1>10. CASE UNCHANGED vars
    BY <1>10 DEF vars
  <1> QED
    BY <1>1, <1>3, <1>4, <1>5, <1>6, <1>7, <1>8, <1>9, <1>10 DEF Next, estimate_pose

\* The inductive invariant holds of every behaviour.
LEMMA Labels == Spec => []LInv
  BY InitLabelled, NextLabels, PTL DEF Spec

\* The native code's globals and the camera thread's locals keep their types.
THEOREM PoseTypes == Spec => []TypeOK
  <1>1. LInv => TypeOK
    BY DEF LInv
  <1> QED
    BY <1>1, Labels, PTL

\* Whenever estimate_pose() calls solvePnPGeneric(), the model points are as
\* many as the image points, at least three, and labelled as they are.
THEOREM SolverGetsMatchingPoints == Spec => []SolverInput
  <1>1. LInv => SolverInput
    <2> SUFFICES ASSUME LInv, pc = "solve"
                 PROVE  /\ Len(image_points) = Len(model_points) /\ Len(image_points) >= 3
                        /\ Labellings(model_points) = {model_points}
      BY DEF SolverInput
    <2>1. model_points # Empty
      BY DEF LInv, Labelled, Empty
    <2> QED
      BY <2>1 DEF LInv, Labelled
  <1> QED
    BY <1>1, Labels, PTL

\* Exchanging two neighbours is a permutation.
LEMMA SwapIsPermutation ==
    ASSUME NEW n \in Nat, NEW k \in 1..n
    PROVE  [i \in 1..n |-> CASE i = k /\ k > 1 -> k - 1
                             [] i = k - 1      -> k
                             [] OTHER          -> i] \in Permutations(n)
  <1> DEFINE p == [i \in 1..n |-> CASE i = k /\ k > 1 -> k - 1
                                    [] i = k - 1      -> k
                                    [] OTHER          -> i]
  <1>1. ASSUME NEW i \in 1..n
        PROVE  p[i] = IF i = k /\ k > 1 THEN k - 1 ELSE IF i = k - 1 THEN k ELSE i
    OBVIOUS
  <1>2. p \in [1..n -> 1..n]
    OBVIOUS
  <1> HIDE DEF p
  <1>3. \A i, j \in 1..n : p[i] = p[j] => i = j
    BY <1>1
  <1>4. p \in Permutations(n)
    BY <1>2, <1>3, PermutationFacts, Zenon
  <1> QED
    BY <1>4, Zenon DEF p

\* In every frame the image points are what estimate_pose() would have made of
\* the same points with any two neighbours exchanged.
THEOREM LabelsIgnoreDetectionOrder == Spec => []LabelsAreCanonical
  <1>1. LInv => LabelsAreCanonical
    <2> SUFFICES ASSUME LInv, pc = "estimate", NEW k \in 1..Len(points)
                 PROVE  Labellings([i \in 1..Len(points) |->
                                      points[CASE i = k /\ k > 1 -> k - 1
                                               [] i = k - 1       -> k
                                               [] OTHER           -> i]]) = {image_points}
      BY Zenon DEF LabelsAreCanonical
    <2> DEFINE n == Len(points)
               p == [i \in 1..n |-> CASE i = k /\ k > 1 -> k - 1
                                      [] i = k - 1      -> k
                                      [] OTHER          -> i]
    <2>1. points \in Seq(Point) /\ n \in Nat /\ image_points \in Labellings(points)
      BY DEF LInv, TypeOK, Labelled
    <2>2. p \in Permutations(n)
      BY <2>1, SwapIsPermutation, Zenon
    <2>3. Labellings(Permuted(points, p, n)) = {image_points}
      BY <2>1, <2>2, OneLabelling, Zenon
    <2>4. Permuted(points, p, n) = [i \in 1..n |->
                                      points[CASE i = k /\ k > 1 -> k - 1
                                               [] i = k - 1       -> k
                                               [] OTHER           -> i]]
      BY Zenon DEF Permuted
    <2> QED
      BY <2>3, <2>4, Zenon
  <1> QED
    BY <1>1, Labels, PTL

-----------------------------------------------------------------------------
(* What the renderer and the display are given *)

\* What holds in the middle of a frame: before the solver has run info.R is
\* the identity and the renderer still has the previous pose; at the end of
\* estimate_pose() the display's matrix has what *Rot was given.
Agreement ==
    /\ pc \in {"idle", "estimate", "solve", "publish"}
    /\ bResL \in {0, 1}
    /\ pc \in {"estimate", "solve"} => infoR = 0
    /\ pc \in {"estimate", "solve"} \/ (pc = "publish" /\ bResL = 0)
          => renderer = [rot |-> gR, trans |-> gt]
    /\ pc = "publish" /\ bResL = 1 => infoR = gR

IInv == Agreement /\ PoseIsOneSolve /\ RendererFollowsPose

\* The matrices that InitMatrix() and the renderer begin with agree.
LEMMA InitAgrees == Init => IInv
  BY DEF Init, IInv, Agreement, PoseIsOneSolve, RendererFollowsPose

\* Every step of ConvertRGBtoGray(), estimate_pose() and onCameraFrame() keeps
\* the matrices in agreement.
LEMMA NextAgrees == IInv /\ [Next]_vars => IInv'
  <1> SUFFICES ASSUME IInv, [Next]_vars
               PROVE  IInv'
    OBVIOUS
  <1> USE DEF IInv, Agreement, PoseIsOneSolve, RendererFollowsPose
  <1>1. ASSUME NEW contours \in Contours, NEW touch \in {0, 1},
               ConvertRGBtoGray(contours, touch)
        PROVE  IInv'
    BY <1>1 DEF ConvertRGBtoGray
  <1>2. CASE TouchRefresh
    BY <1>2 DEF TouchRefresh, ReturnsTrue
  <1>3. CASE TooFew
    BY <1>3 DEF TooFew, ReturnsTrue
  <1>4. CASE SizeDiffers
    BY <1>4 DEF SizeDiffers, ReturnsTrue
  <1>5. CASE SizeSame
    BY <1>5 DEF SizeSame
  <1>6. CASE Solved
    BY <1>6 DEF Solved, ReturnsTrue
  <1>7. CASE NoSolution
    BY <1>7 DEF NoSolution, ReturnsTrue
  <1>8. CASE Publish
    BY <1>8 DEF Publish
  <1>9. CASE UNCHANGED vars
    BY <1>9 DEF vars
  <1> QED
    BY <1>1, <1>2, <1>3, <1>4, <1>5, <1>6, <1>7, <1>8, <1>9 DEF Next, estimate_pose

\* The inductive invariant holds of every behaviour.
LEMMA Agrees == Spec => []IInv
  BY InitAgrees, NextAgrees, PTL DEF Spec

\* ConvertRGBtoGray() never hands out a rotation of one frame with the
\* translation of another.
THEOREM PoseNeverMixed == Spec => []PoseIsOneSolve
  <1>1. IInv => PoseIsOneSolve
    BY DEF IInv
  <1> QED
    BY <1>1, Agrees, PTL

\* Between frames setRMatCameraOne() has been given the newest pose, and the
\* rotation that NativeInfo() reports for a frame with points is that pose's.
THEOREM RendererAndDisplayAgree == Spec => []RendererFollowsPose
  <1>1. IInv => RendererFollowsPose
    BY DEF IInv
  <1> QED
    BY <1>1, Agrees, PTL

=============================================================================
