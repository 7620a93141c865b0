---------------------------- MODULE DisplayProofs ---------------------------
(***************************************************************************)
(* Proofs about Display, for any number of frames: the invariants, and     *)
(* with FairSpec and StepsEnabled the two liveness properties.             *)
(***************************************************************************)
EXTENDS Display, SequenceTheorems, TLAPS

USE SMTT(60)

\* Every step keeps the types of the variables.
LEMMA TypeStep ==
    ASSUME TypeOK, [Next]_vars
    PROVE  TypeOK'
<1>a. /\ field \in Fields /\ known \in Fields /\ text \in Fields
      /\ matrix \in Matrix /\ axes \in Matrix /\ cube \in Matrix
      /\ shown \in Nat
  BY DEF TypeOK
<1>b. looper \in Seq(Fields) /\ helpers \subseteq Fields
  BY DEF TypeOK
<1>1. CASE Produce
  BY <1>1 DEF TypeOK, Produce, Feed!Produce, texts, drawn
<1>2. CASE onCameraFrame
  <2>1. shown' \in Nat
    BY <1>2 DEF TypeOK, onCameraFrame, Feed!onCameraFrame
  <2>2. field' = [field EXCEPT !.cInfo = shown']
    BY <1>2 DEF onCameraFrame
  <2>3. field' \in Fields
    BY <1>a, <2>1, <2>2 DEF Fields
  <2>4. QED
    BY <1>2, <2>1, <2>3 DEF TypeOK, onCameraFrame, Feed!onCameraFrame, texts, drawn
<1>3. CASE FrameStep
  <2>1. field' \in Fields
    BY <1>a, <1>3 DEF FrameStep, ConvertRGBtoGray, NativeInfo, StartThread,
       setRMatCameraOne, CopyTranslation, NotDetected, Fields
  <2>2. matrix' \in Matrix
    <3>1. field.gRMat \in Nat
      BY <1>a DEF Fields
    <3>2. QED
      BY <1>a, <1>3, <3>1 DEF FrameStep, ConvertRGBtoGray, NativeInfo, StartThread,
         setRMatCameraOne, CopyTranslation, NotDetected, Matrix
  <2>3. QED
    BY <1>3, <2>1, <2>2 DEF TypeOK, FrameStep, ConvertRGBtoGray, NativeInfo, StartThread,
       setRMatCameraOne, CopyTranslation, NotDetected, frames, texts, drawn
<1>4. CASE CameraThreadEnds
  BY <1>4 DEF TypeOK, CameraThreadEnds, frames, texts, drawn
<1>5. ASSUME NEW f \in helpers, runOnUiThread(f) PROVE TypeOK'
  <2>1. Append(looper, f) \in Seq(Fields)
    BY <1>b, <1>5, AppendProperties
  <2>2. QED
    BY <1>5, <2>1 DEF TypeOK, runOnUiThread, camera, frames, drawn
<1>6. CASE Lifecycle
  BY <1>6 DEF TypeOK, Lifecycle, onResume, onPause, surfaceChanged, surfaceDestroyed,
     Feed!onCameraViewStarted, camera, frames, texts, drawn
<1>7. CASE BeginRunnable
  <2>1. Head(looper) \in Fields /\ Tail(looper) \in Seq(Fields)
    BY <1>b, <1>7, HeadTailProperties DEF BeginRunnable
  <2>2. QED
    BY <1>7, <2>1 DEF TypeOK, BeginRunnable, camera, frames, drawn
<1>8. CASE Runnable
  <2>1. text' \in Fields
    <3>1. PICK part \in {"cInfo", "gRMat", "native_info"} :
             \E value \in known[part]..field[part] : text' = [text EXCEPT ![part] = value]
      BY <1>8 DEF Runnable, Show
    <3>2. QED
      BY <1>a, <3>1 DEF Fields
  <2>2. QED
    BY <1>8, <2>1 DEF TypeOK, Runnable, Show, camera, frames, drawn
<1>9. CASE JoinCamera \/ PauseGL
  BY <1>9 DEF TypeOK, JoinCamera, PauseGL, Feed!onCameraViewStopped, camera, frames,
     texts, drawn
<1>10. CASE onDrawFrame
  <2>1. axes' \in Matrix /\ cube' \in Matrix
    BY <1>a, <1>10 DEF onDrawFrame, DrawAxes, AxesTranslation, DrawCube,
       CubeTranslation, Matrix
  <2>2. QED
    BY <1>10, <2>1 DEF TypeOK, onDrawFrame, DrawAxes, AxesTranslation, DrawCube,
       CubeTranslation, camera, frames, texts
<1>11. CASE UNCHANGED vars
  BY <1>11 DEF TypeOK, vars, camera, frames, texts, drawn
<1>12. QED
  BY <1>1, <1>2, <1>3, <1>4, <1>5, <1>6, <1>7, <1>8, <1>9, <1>10, <1>11 DEF Next, UIStep

\* Every variable keeps its type.
THEOREM TypeCorrect == Spec => []TypeOK
<1>1. Init => TypeOK
  BY DEF Init, Feed!Init, TypeOK, NoField, Eye, Fields, Matrix
<1>2. QED
  BY <1>1, TypeStep, PTL DEF Spec

-----------------------------------------------------------------------------
(***************************************************************************)
(* The drawing.  Frames reach the camera thread in order, so that each     *)
(* half of the matrix only ever moves on; what was drawn is never ahead.   *)
(***************************************************************************)
Ahead ==
    /\ field.gRMat <= shown
    /\ matrix.rot <= field.gRMat /\ matrix.trans <= field.gRMat
    /\ axes.rot <= matrix.rot /\ axes.trans <= matrix.trans
    /\ cube.rot <= matrix.rot /\ cube.trans <= matrix.trans

\* The GL thread runs only while the activity is resumed or onPause() has not
\* returned yet.
Paused == resumed = "no" => gl = "paused" \/ ui \in {"join", "pauseGL"}

\* Every step keeps the GL thread paused when it is to be.
LEMMA PausedStep ==
    ASSUME TypeOK, Paused, [Next]_vars
    PROVE  Paused'
<1> USE DEF Paused
<1>1. CASE Produce \/ onCameraFrame \/ FrameStep \/ CameraThreadEnds
  BY <1>1 DEF Produce, onCameraFrame, FrameStep, ConvertRGBtoGray, NativeInfo, StartThread,
     setRMatCameraOne, CopyTranslation, NotDetected, CameraThreadEnds, drawn
<1>2. ASSUME NEW f \in helpers, runOnUiThread(f) PROVE Paused'
  BY <1>2 DEF runOnUiThread, drawn
<1>3. CASE Lifecycle
  BY <1>3 DEF Lifecycle, onResume, onPause, surfaceChanged, surfaceDestroyed, drawn
<1>4. CASE UIStep
  BY <1>4 DEF UIStep, BeginRunnable, Runnable, Show, JoinCamera, PauseGL, drawn
<1>5. CASE onDrawFrame
  BY <1>5 DEF onDrawFrame, DrawAxes, AxesTranslation, DrawCube, CubeTranslation
<1>6. CASE UNCHANGED vars
  BY <1>6 DEF vars, drawn
<1>7. QED
  BY <1>1, <1>2, <1>3, <1>4, <1>5, <1>6 DEF Next

\* Every step keeps what the drawing needs.
LEMMA DrawStep ==
    ASSUME TypeOK, Paused, Ahead, NeverDrawnBackwards, [Next]_vars
    PROVE  Ahead' /\ NeverDrawnBackwards'
<1>a. /\ field \in Fields /\ shown \in Nat
      /\ matrix \in Matrix /\ axes \in Matrix /\ cube \in Matrix
  BY DEF TypeOK
<1>b. /\ field.gRMat \in Nat /\ matrix.rot \in Nat /\ matrix.trans \in Nat
      /\ axes.rot \in Nat /\ axes.trans \in Nat
      /\ cube.rot \in Nat /\ cube.trans \in Nat
  BY <1>a DEF Fields, Matrix
<1>c. ASSUME UNCHANGED <<matrix, drawn>>, field'.gRMat = field.gRMat, shown' = shown
      PROVE  Ahead' /\ NeverDrawnBackwards'
  BY <1>c DEF Ahead, NeverDrawnBackwards, drawn
<1>1. CASE onCameraFrame
  <2>1. field'.gRMat = field.gRMat /\ field.gRMat <= shown'
    BY <1>1, <1>a, <1>b DEF onCameraFrame, Feed!onCameraFrame, Fields, Ahead, TypeOK
  <2>2. QED
    BY <1>1, <2>1 DEF onCameraFrame, drawn, Ahead, NeverDrawnBackwards
<1>2. CASE ConvertRGBtoGray
  <2>1. field'.gRMat \in {field.gRMat, shown}
    BY <1>2, <1>a DEF ConvertRGBtoGray, Fields
  <2>2. QED
    BY <1>2, <1>a, <1>b, <2>1 DEF ConvertRGBtoGray, frames, drawn, Ahead,
       NeverDrawnBackwards
<1>3. CASE NativeInfo
  <2>1. field'.gRMat = field.gRMat
    BY <1>3, <1>a DEF NativeInfo, Fields
  <2>2. QED
    BY <1>3, <1>c, <2>1 DEF NativeInfo, frames
<1>4. CASE setRMatCameraOne
  <2>1. matrix'.rot = field.gRMat /\ matrix'.trans = matrix.trans
    BY <1>4, <1>a DEF setRMatCameraOne, Matrix
  <2>2. QED
    BY <1>4, <1>b, <2>1 DEF setRMatCameraOne, frames, drawn, Ahead, NeverDrawnBackwards
<1>5. CASE CopyTranslation
  <2>1. matrix'.trans = field.gRMat /\ matrix'.rot = matrix.rot
    BY <1>5, <1>a DEF CopyTranslation, Matrix
  <2>2. QED
    BY <1>5, <1>b, <2>1 DEF CopyTranslation, frames, drawn, Ahead, NeverDrawnBackwards
<1>6. CASE DrawAxes
  <2>1. axes'.rot = matrix.rot /\ axes'.trans = axes.trans
    BY <1>6, <1>a DEF DrawAxes, Matrix
  <2>2. QED
    BY <1>6, <1>b, <2>1 DEF DrawAxes, camera, frames, Ahead, NeverDrawnBackwards
<1>7. CASE AxesTranslation
  <2>1. axes'.trans = matrix.trans /\ axes'.rot = axes.rot
    BY <1>7, <1>a DEF AxesTranslation, Matrix
  <2>2. QED
    BY <1>7, <1>b, <2>1 DEF AxesTranslation, camera, frames, Ahead, NeverDrawnBackwards
<1>8. CASE DrawCube
  <2>1. cube'.rot = matrix.rot /\ cube'.trans = cube.trans
    BY <1>8, <1>a DEF DrawCube, Matrix
  <2>2. QED
    BY <1>8, <1>b, <2>1 DEF DrawCube, camera, frames, Ahead, NeverDrawnBackwards
<1>9. CASE CubeTranslation
  <2>1. cube'.trans = matrix.trans /\ cube'.rot = cube.rot
    BY <1>9, <1>a DEF CubeTranslation, Matrix
  <2>2. QED
    BY <1>9, <1>b, <2>1 DEF CubeTranslation, camera, frames, Ahead, NeverDrawnBackwards
<1>10. CASE onResume \/ PauseGL
  BY <1>10 DEF onResume, PauseGL, Feed!onCameraViewStarted, camera, frames, Paused, Ahead,
     NeverDrawnBackwards
<1>11. CASE Produce \/ StartThread \/ NotDetected \/ CameraThreadEnds
  <2>1. UNCHANGED <<matrix, drawn, field, shown>>
    BY <1>11 DEF Produce, Feed!Produce, StartThread, NotDetected, CameraThreadEnds, frames
  <2>2. QED
    BY <1>c, <2>1
<1>12. ASSUME NEW f \in helpers, runOnUiThread(f) PROVE Ahead' /\ NeverDrawnBackwards'
  BY <1>12, <1>c DEF runOnUiThread, camera, frames
<1>13. CASE onPause \/ surfaceChanged \/ surfaceDestroyed
  <2>1. UNCHANGED <<matrix, drawn, field, shown>>
    BY <1>13 DEF onPause, surfaceChanged, surfaceDestroyed, Feed!onCameraViewStarted,
       camera, frames
  <2>2. QED
    BY <1>c, <2>1
<1>14. CASE BeginRunnable \/ Runnable \/ JoinCamera
  BY <1>14, <1>c DEF BeginRunnable, Runnable, Show, JoinCamera,
     Feed!onCameraViewStopped, camera, frames
<1>15. CASE UNCHANGED vars
  BY <1>15, <1>c DEF vars, camera, frames
<1>16. QED
  BY <1>1, <1>2, <1>3, <1>4, <1>5, <1>6, <1>7, <1>8, <1>9, <1>10, <1>11, <1>12, <1>13,
     <1>14, <1>15 DEF Next, FrameStep, Lifecycle, UIStep, onDrawFrame

\* MyGLRenderer never draws a pose older than one it has drawn.
THEOREM DrawingMovesOn == Spec => []NeverDrawnBackwards
<1>1. Init => Paused /\ Ahead /\ NeverDrawnBackwards
  BY DEF Init, Feed!Init, NoField, Eye, Paused, Ahead, NeverDrawnBackwards
<1>2. QED
  BY <1>1, TypeCorrect, PausedStep, DrawStep, PTL DEF Spec

-----------------------------------------------------------------------------
(***************************************************************************)
(* The text.  A thread, a runnable or the UI thread that is sure of a      *)
(* frame is sure of the current one, handled, or of an older one.  Once a  *)
(* frame is handled, its thread or runnable is still pending, or the UI    *)
(* thread is sure of it and what it has read since is right.               *)
(***************************************************************************)
NotAhead(f) == f.cInfo < shown \/ (FrameIsHandled /\ f = field)

InOrder ==
    /\ feed = "stopped" => cam = "none"
    /\ field.cInfo = shown
    /\ NotAhead(known)
    /\ \A f \in helpers : NotAhead(f)
    /\ \A i \in 1..Len(looper) : NotAhead(looper[i])

Pending == field \in helpers \/ \E i \in 1..Len(looper) : looper[i] = field

AtLooper == ui \in {"looper", "join", "pauseGL"}

Fresh ==
    /\ known = field
    /\ ui \in {"gRMat", "native_info"} \/ AtLooper => text.cInfo = field.cInfo
    /\ ui = "native_info" \/ AtLooper => text.gRMat = field.gRMat
    /\ AtLooper => text.native_info = field.native_info

TextInv == InOrder /\ (FrameIsHandled => Pending \/ Fresh)

\* A step that leaves the frame, its fields and the runnables alone, and the
\* UI thread at its looper or where it was.
LEMMA TextKept ==
    ASSUME TypeOK, TextInv,
           UNCHANGED <<shown, field, helpers, looper, known, text>>,
           feed' = "stopped" => cam' = "none",
           FrameIsHandled' <=> FrameIsHandled,
           ui' = ui \/ (AtLooper /\ AtLooper')
    PROVE  TextInv'
<1>1. InOrder'
  BY DEF TextInv, InOrder, NotAhead
<1>2. Pending' <=> Pending
  BY DEF Pending
<1>3. Fresh => Fresh'
  BY DEF Fresh, AtLooper
<1>4. QED
  BY <1>1, <1>2, <1>3 DEF TextInv

\* Every step keeps what the text needs.
LEMMA TextStep ==
    ASSUME TypeOK, TypeOK', TextInv, [Next]_vars
    PROVE  TextInv'
<1>0. feed = "stopped" => cam = "none"
  BY DEF TextInv, InOrder
<1>a. /\ field \in Fields /\ known \in Fields /\ text \in Fields /\ shown \in Nat
      /\ field' \in Fields /\ text' \in Fields /\ shown' \in Nat
  BY DEF TypeOK
<1>b. /\ looper \in Seq(Fields) /\ looper' \in Seq(Fields)
      /\ helpers \subseteq Fields
  BY DEF TypeOK
<1>1. CASE onCameraFrame
  <2>1. /\ shown' > shown /\ UNCHANGED <<helpers, looper, known>>
        /\ feed' = "started" /\ cam' = "convert"
    BY <1>1, <1>a DEF onCameraFrame, Feed!onCameraFrame, texts, TypeOK
  <2>2. field'.cInfo = shown'
    BY <1>1, <1>a DEF onCameraFrame, Fields
  <2>3. ASSUME NEW f \in Fields, NotAhead(f) PROVE f.cInfo < shown'
    <3>1. f.cInfo \in Nat
      BY DEF Fields
    <3>2. f.cInfo <= shown
      BY <1>a, <2>3, <3>1 DEF NotAhead, TextInv, InOrder
    <3>3. QED
      BY <1>a, <2>1, <3>1, <3>2
  <2>4. \A i \in 1..Len(looper) : looper[i] \in Fields
    BY <1>b, ElementOfSeq
  <2>5. InOrder'
    BY <1>a, <1>b, <2>1, <2>2, <2>3, <2>4 DEF InOrder, NotAhead, TextInv
  <2>6. QED
    BY <2>1, <2>5 DEF TextInv, FrameIsHandled
<1>2. CASE ConvertRGBtoGray \/ NativeInfo
  <2>1. /\ UNCHANGED <<shown, helpers, looper, known>>
        /\ ~FrameIsHandled /\ ~FrameIsHandled' /\ feed' # "stopped"
    BY <1>0, <1>2 DEF TypeOK, ConvertRGBtoGray, NativeInfo, frames, texts, FrameIsHandled
  <2>2. field'.cInfo = field.cInfo
    BY <1>2, <1>a DEF ConvertRGBtoGray, NativeInfo, Fields
  <2>3. QED
    BY <2>1, <2>2 DEF TextInv, InOrder, NotAhead
<1>3. CASE StartThread
  <2>1. /\ UNCHANGED <<shown, field, looper, known>>
        /\ helpers' = helpers \union {field}
        /\ ~FrameIsHandled /\ FrameIsHandled' /\ feed' # "stopped"
    BY <1>0, <1>3 DEF TypeOK, StartThread, frames, FrameIsHandled
  <2>2. QED
    BY <2>1 DEF TextInv, InOrder, NotAhead, Pending
<1>4. CASE \/ Produce \/ setRMatCameraOne \/ CopyTranslation \/ NotDetected
           \/ CameraThreadEnds
  <2>1. /\ UNCHANGED <<shown, field, texts, ui>>
        /\ FrameIsHandled' <=> FrameIsHandled
        /\ feed' = "stopped" => cam' = "none"
    BY <1>0, <1>4 DEF Produce, Feed!Produce, setRMatCameraOne, CopyTranslation, NotDetected,
       CameraThreadEnds, frames, FrameIsHandled
  <2>2. QED
    BY <2>1, TextKept DEF texts
<1>5. CASE Lifecycle
  <2>1. UNCHANGED <<shown, field, texts>> /\ (ui' = ui \/ (AtLooper /\ AtLooper'))
    BY <1>5 DEF Lifecycle, onResume, onPause, surfaceChanged, surfaceDestroyed,
       Feed!onCameraViewStarted, camera, frames, AtLooper
  <2>2. /\ FrameIsHandled' <=> FrameIsHandled
        /\ feed' = "stopped" => cam' = "none"
    BY <1>0, <1>5 DEF Lifecycle, onResume, onPause, surfaceChanged, surfaceDestroyed,
       Feed!onCameraViewStarted, camera, frames, FrameIsHandled
  <2>3. QED
    BY <2>1, <2>2, TextKept DEF texts
<1>6. CASE PauseGL
  <2>1. UNCHANGED <<feed, shown, field, texts, cam>> /\ AtLooper /\ AtLooper'
    BY <1>6 DEF PauseGL, camera, frames, AtLooper
  <2>2. QED
    BY <1>0, <2>1, TextKept DEF texts, FrameIsHandled
<1>7. CASE onDrawFrame
  <2>1. UNCHANGED <<feed, shown, field, texts, cam, ui>>
    BY <1>7 DEF onDrawFrame, DrawAxes, AxesTranslation, DrawCube, CubeTranslation,
       camera, frames
  <2>2. QED
    BY <1>0, <2>1, TextKept DEF texts, FrameIsHandled
<1>8. CASE UNCHANGED vars
  <2>1. UNCHANGED <<feed, shown, field, texts, cam, ui>>
    BY <1>8 DEF vars, camera, frames
  <2>2. QED
    BY <1>0, <2>1, TextKept DEF texts, FrameIsHandled
<1>9. ASSUME NEW f \in helpers, runOnUiThread(f) PROVE TextInv'
  <2>1. /\ UNCHANGED <<feed, cam, shown, field, known, text, ui>>
        /\ helpers' = helpers \ {f} /\ looper' = Append(looper, f)
    BY <1>9 DEF runOnUiThread, camera, frames
  <2>2. /\ Len(looper') = Len(looper) + 1 /\ looper'[Len(looper) + 1] = f
        /\ \A i \in 1..Len(looper) : looper'[i] = looper[i]
        /\ Len(looper) \in Nat
    BY <1>b, <1>9, <2>1, AppendProperties, LenProperties
  <2>3. NotAhead(f) /\ \A i \in 1..Len(looper) : NotAhead(looper'[i])
    BY <1>9, <2>1, <2>2 DEF TextInv, InOrder
  <2>4. \A i \in 1..Len(looper') : NotAhead(looper'[i])
    BY <2>2, <2>3
  <2>5. InOrder'
    BY <2>1, <2>4 DEF TextInv, InOrder, NotAhead, FrameIsHandled
  <2>6. Pending => Pending'
    BY <2>1, <2>2 DEF Pending
  <2>7. Fresh => Fresh'
    BY <2>1 DEF Fresh, AtLooper
  <2>8. QED
    BY <2>1, <2>5, <2>6, <2>7 DEF TextInv, FrameIsHandled
<1>10. CASE BeginRunnable
  <2>1. /\ UNCHANGED <<feed, cam, shown, field, helpers, text>>
        /\ looper # <<>> /\ looper' = Tail(looper) /\ ui' = "cInfo"
        /\ known' = IF Head(looper).cInfo > known.cInfo THEN Head(looper) ELSE known
    BY <1>10 DEF BeginRunnable, camera, frames
  <2>2. /\ Len(looper) \in Nat /\ Len(looper) >= 1 /\ Head(looper) = looper[1]
        /\ Head(looper) \in Fields
        /\ Len(looper') = Len(looper) - 1
        /\ \A i \in 1..Len(looper') : looper'[i] = looper[i + 1]
    BY <1>b, <2>1, HeadTailProperties, LenProperties, EmptySeq
  <2>3. NotAhead(Head(looper)) /\ NotAhead(known)
    BY <2>2 DEF TextInv, InOrder
  <2>4. InOrder'
    BY <2>1, <2>2, <2>3 DEF TextInv, InOrder, NotAhead, FrameIsHandled
  <2>5. Fresh \/ (FrameIsHandled /\ Head(looper) = field) => Fresh'
    BY <1>a, <2>1, <2>2, <2>3 DEF Fresh, AtLooper, NotAhead, TextInv, InOrder, Fields
  <2>6. Pending => Pending' \/ Head(looper) = field
    BY <2>1, <2>2 DEF Pending
  <2>7. QED
    BY <2>1, <2>4, <2>5, <2>6 DEF TextInv, FrameIsHandled
<1>11. CASE Runnable
  <2>1. /\ UNCHANGED <<feed, cam, shown, field, helpers, looper, known>>
    BY <1>11 DEF Runnable, Show, camera, frames
  <2>2. InOrder'
    BY <2>1 DEF TextInv, InOrder, NotAhead, FrameIsHandled
  <2>3. Pending' <=> Pending
    BY <2>1 DEF Pending
  <2>4. ASSUME Fresh PROVE Fresh'
    <3>1. CASE Show("cInfo", "gRMat")
      BY <1>a, <2>1, <2>4, <3>1 DEF Show, Fresh, AtLooper, Fields
    <3>2. CASE Show("gRMat", "native_info")
      BY <1>a, <2>1, <2>4, <3>2 DEF Show, Fresh, AtLooper, Fields
    <3>3. CASE Show("native_info", "looper")
      BY <1>a, <2>1, <2>4, <3>3 DEF Show, Fresh, AtLooper, Fields
    <3>4. QED
      BY <1>11, <3>1, <3>2, <3>3 DEF Runnable
  <2>5. QED
    BY <2>1, <2>2, <2>3, <2>4 DEF TextInv, FrameIsHandled
<1>12. CASE JoinCamera
  <2>1. /\ UNCHANGED <<cam, shown, field, helpers, looper, text>>
        /\ cam = "none" /\ known' = field /\ AtLooper /\ AtLooper'
    BY <1>12 DEF JoinCamera, Feed!onCameraViewStopped, AtLooper
  <2>2. InOrder'
    BY <2>1 DEF TextInv, InOrder, NotAhead, FrameIsHandled
  <2>3. Pending' <=> Pending
    BY <2>1 DEF Pending
  <2>4. Fresh => Fresh'
    BY <2>1 DEF Fresh, AtLooper
  <2>5. QED
    BY <2>1, <2>2, <2>3, <2>4 DEF TextInv, FrameIsHandled
<1>13. QED
  BY <1>1, <1>2, <1>3, <1>4, <1>5, <1>6, <1>7, <1>8, <1>9, <1>10, <1>11, <1>12
  DEF Next, FrameStep, UIStep

\* However the threads of the frames, the runnables and the camera thread
\* overtake each other, the text views come to show the last frame.
THEOREM TextIsLastFrame == Spec => []TextSettles
<1>1. Init => TextInv
  BY DEF Init, Feed!Init, NoField, TextInv, InOrder, NotAhead, FrameIsHandled, Fresh,
     AtLooper
<1>2. TypeOK /\ TextInv => TextSettles
  <2> SUFFICES ASSUME TypeOK, TextInv, FrameIsHandled, helpers = {}, looper = <<>>, AtLooper
               PROVE  text = field
    BY DEF TextSettles, AtLooper
  <2>1. Fresh
    BY DEF TextInv, Pending
  <2>2. text \in Fields /\ field \in Fields
    BY DEF TypeOK
  <2>3. QED
    BY <2>1, <2>2 DEF Fresh, Fields
<1>3. QED
  BY <1>1, <1>2, TypeCorrect, TextStep, PTL DEF Spec

-----------------------------------------------------------------------------
(***************************************************************************)
(* Why onPause() can return, without fairness: the ends that the UI thread *)
(* waits for are never out of reach.                                       *)
(***************************************************************************)

\* There is a camera thread only between the listener's two callbacks, which
\* join() is called between; and gLView.onPause() is only called with a GL
\* thread that is running, whose pause it can therefore wait for.
WaitsCanEnd ==
    /\ cam # "none" \/ ui = "join" => feed = "started"
    /\ ui = "pauseGL" => feed = "stopped" /\ gl # "paused"

\* The strengthening: the camera is started and the GL thread running only in
\* an activity that is resumed, or that onPause() is still stopping them for.
WaitInv ==
    /\ WaitsCanEnd
    /\ ui = "pauseGL" => resumed = "no"
    /\ feed = "started" => resumed = "yes" \/ ui = "join"
    /\ gl = "paused" <=> (resumed = "no" /\ ui \notin {"join", "pauseGL"})

\* Every step keeps it.
LEMMA WaitStep ==
    ASSUME TypeOK, WaitInv, [Next]_vars
    PROVE  WaitInv'
<1> USE DEF WaitInv, WaitsCanEnd
<1>1. CASE Produce
  BY <1>1 DEF Produce, Feed!Produce, drawn
<1>2. CASE onCameraFrame
  BY <1>2 DEF onCameraFrame, Feed!onCameraFrame, drawn
<1>3. CASE FrameStep
  <2>1. cam # "none" /\ UNCHANGED <<feed, resumed, ui, gl>>
    BY <1>3 DEF FrameStep, ConvertRGBtoGray, NativeInfo, StartThread, setRMatCameraOne,
       CopyTranslation, NotDetected, frames, drawn
  <2>2. QED
    BY <2>1
<1>4. CASE CameraThreadEnds
  BY <1>4 DEF CameraThreadEnds, frames, drawn
<1>5. CASE \E f \in helpers : runOnUiThread(f)
  BY <1>5 DEF runOnUiThread, camera, frames, drawn
<1>6. CASE onResume
  <2>1. ui = "looper" /\ ui' = ui /\ resumed' = "yes" /\ gl' = "idle"
    BY <1>6 DEF onResume
  <2>2. cam' # "none" => feed' = "started"
    BY <1>6 DEF onResume, Feed!onCameraViewStarted, frames
  <2>3. QED
    BY <2>1, <2>2
<1>7. CASE surfaceChanged
  BY <1>7 DEF surfaceChanged, Feed!onCameraViewStarted, drawn
<1>8. CASE surfaceDestroyed \/ onPause
  <2>1. feed \in {"started", "stopped"}
    BY DEF TypeOK
  <2>2. QED
    BY <1>8, <2>1 DEF surfaceDestroyed, onPause, camera, frames, drawn
<1>9. CASE BeginRunnable \/ Runnable
  <2>1. UNCHANGED <<feed, cam, resumed, gl>>
    BY <1>9 DEF BeginRunnable, Runnable, Show, camera, frames, drawn
  <2>2. ui \notin {"join", "pauseGL"} /\ ui' \notin {"join", "pauseGL"}
    BY <1>9 DEF BeginRunnable, Runnable, Show
  <2>3. QED
    BY <2>1, <2>2
<1>10. CASE JoinCamera
  <2>1. resumed \in {"yes", "no"}
    BY DEF TypeOK
  <2>2. QED
    BY <1>10, <2>1 DEF JoinCamera, Feed!onCameraViewStopped, drawn
<1>11. CASE PauseGL
  BY <1>11 DEF PauseGL, camera, frames
<1>12. CASE onDrawFrame
  <2>1. gl # "paused" /\ gl' # "paused" /\ UNCHANGED <<feed, cam, resumed, ui>>
    BY <1>12 DEF onDrawFrame, DrawAxes, AxesTranslation, DrawCube, CubeTranslation,
       camera, frames
  <2>2. QED
    BY <2>1
<1>13. CASE UNCHANGED vars
  BY <1>13 DEF vars, camera, frames, drawn
<1>14. QED
  BY <1>1, <1>2, <1>3, <1>4, <1>5, <1>6, <1>7, <1>8, <1>9, <1>10, <1>11, <1>12, <1>13
  DEF Next, Lifecycle, UIStep

\* onPause() and surfaceDestroyed() only ever wait for threads that are there
\* to end or to pause, in whatever order the surface and the activity come and
\* go; and no frame is handled outside the listener's two callbacks.
THEOREM OnPauseCanReturn == Spec => []WaitsCanEnd
<1>1. Init => WaitInv
  BY DEF Init, Feed!Init, WaitInv, WaitsCanEnd
<1>2. WaitInv => WaitsCanEnd
  BY DEF WaitInv
<1>3. QED
  BY <1>1, <1>2, TypeCorrect, WaitStep, PTL DEF Spec

-----------------------------------------------------------------------------
(***************************************************************************)
(* Liveness, from FairSpec and StepsEnabled, which takes the place of the  *)
(* meaning of ENABLED in the proofs.                                       *)
(***************************************************************************)
LiveInv == TypeOK /\ Ahead /\ WaitInv

\* The facts about the reachable states that the liveness proofs use.
LEMMA LiveInvariance == Spec => []LiveInv
<1>1. Init => Paused /\ Ahead /\ NeverDrawnBackwards
  BY DEF Init, Feed!Init, NoField, Eye, Paused, Ahead, NeverDrawnBackwards
<1>2. Init => WaitInv
  BY DEF Init, Feed!Init, WaitInv, WaitsCanEnd
<1>3. QED
  BY <1>1, <1>2, TypeCorrect, PausedStep, DrawStep, WaitStep, PTL DEF Spec, LiveInv

\* A pose of frame n or newer is in the renderer, and the picture that the GL
\* thread is drawing has it in the first k of the four halves it copies.
Drawn(n, k) ==
    /\ k >= 1 => axes.rot >= n
    /\ k >= 2 => axes.trans >= n
    /\ k >= 3 => cube.rot >= n
    /\ k >= 4 => cube.trans >= n

Drawing(n, g, k) ==
    /\ resumed = "yes" /\ gl = g
    /\ matrix.rot >= n /\ matrix.trans >= n
    /\ Drawn(n, k)

\* Each half of the matrix only moves on.
LEMMA MatrixMovesOn ==
    ASSUME LiveInv, [Next]_vars
    PROVE  /\ matrix.rot \in Nat /\ matrix.trans \in Nat
           /\ matrix'.rot \in Nat /\ matrix'.trans \in Nat
           /\ matrix'.rot >= matrix.rot /\ matrix'.trans >= matrix.trans
<1>1. matrix \in Matrix /\ field \in Fields
  BY DEF LiveInv, TypeOK
<1>2. /\ matrix.rot \in Nat /\ matrix.trans \in Nat /\ field.gRMat \in Nat
      /\ matrix.rot <= field.gRMat /\ matrix.trans <= field.gRMat
  BY <1>1 DEF LiveInv, Ahead, Matrix, Fields
<1>3. CASE setRMatCameraOne
  BY <1>1, <1>2, <1>3 DEF setRMatCameraOne, Matrix
<1>4. CASE CopyTranslation
  BY <1>1, <1>2, <1>4 DEF CopyTranslation, Matrix
<1>5. CASE matrix' = matrix
  BY <1>2, <1>5
<1>6. QED
  BY <1>3, <1>4, <1>5 DEF Next, Produce, onCameraFrame, FrameStep, ConvertRGBtoGray,
     NativeInfo, StartThread, NotDetected, CameraThreadEnds, runOnUiThread, Lifecycle,
     onResume, onPause, surfaceChanged, surfaceDestroyed, UIStep, BeginRunnable, Runnable,
     Show, JoinCamera, PauseGL, onDrawFrame, DrawAxes, AxesTranslation, DrawCube,
     CubeTranslation, vars

\* Only onDrawFrame() moves the GL thread of an activity that stays resumed.
LEMMA GLOnlyMovesItself ==
    ASSUME LiveInv, [Next]_vars, resumed = "yes"
    PROVE  \/ onDrawFrame
           \/ UNCHANGED <<gl, axes, cube>> /\ resumed' \in {"yes", "no"}
<1>1. ui # "pauseGL"
  BY DEF LiveInv, WaitInv
<1>2. CASE Produce \/ onCameraFrame \/ FrameStep \/ CameraThreadEnds
  BY <1>2 DEF Produce, onCameraFrame, FrameStep, ConvertRGBtoGray, NativeInfo, StartThread,
     setRMatCameraOne, CopyTranslation, NotDetected, CameraThreadEnds, drawn
<1>3. CASE \E f \in helpers : runOnUiThread(f)
  BY <1>3 DEF runOnUiThread, drawn
<1>4. CASE Lifecycle
  BY <1>4 DEF Lifecycle, onResume, onPause, surfaceChanged, surfaceDestroyed, drawn
<1>5. CASE UIStep
  BY <1>1, <1>5 DEF UIStep, BeginRunnable, Runnable, Show, JoinCamera, PauseGL, drawn
<1>6. CASE UNCHANGED vars
  BY <1>6 DEF vars, drawn
<1>7. QED
  BY <1>2, <1>3, <1>4, <1>5, <1>6 DEF Next

\* What a step of any thread does to the picture being drawn.
LEMMA DrawingStep ==
    ASSUME LiveInv, [Next]_vars, NEW n \in Nat, NEW g, NEW k \in 0..4, Drawing(n, g, k)
    PROVE  Drawing(n, g, k)' \/ resumed' = "no" \/ onDrawFrame
<1>1. matrix'.rot >= n /\ matrix'.trans >= n
  BY MatrixMovesOn DEF Drawing
<1>2. QED
  BY <1>1, GLOnlyMovesItself DEF Drawing, Drawn

\* What onDrawFrame() does to it: the next half, from a matrix that has the pose.
LEMMA DrawingMoves ==
    ASSUME LiveInv, onDrawFrame, NEW n \in Nat
    PROVE  /\ Drawing(n, "idle", 0) => Drawing(n, "axes", 1)'
           /\ Drawing(n, "axes", 0) => Drawing(n, "drawCube", 0)'
           /\ Drawing(n, "axes", 1) => Drawing(n, "drawCube", 2)'
           /\ Drawing(n, "drawCube", 0) => Drawing(n, "cube", 0)'
           /\ Drawing(n, "drawCube", 2) => Drawing(n, "cube", 3)'
           /\ Drawing(n, "cube", 0) => Drawing(n, "idle", 0)'
           /\ Drawing(n, "cube", 3) => Drawing(n, "idle", 4)'
<1>1. matrix \in Matrix /\ axes \in Matrix /\ cube \in Matrix
  BY DEF LiveInv, TypeOK
<1>2. UNCHANGED <<resumed, matrix>>
  BY DEF onDrawFrame, DrawAxes, AxesTranslation, DrawCube, CubeTranslation
<1>3. CASE DrawAxes
  BY <1>1, <1>2, <1>3 DEF DrawAxes, Drawing, Drawn, Matrix
<1>4. CASE AxesTranslation
  BY <1>1, <1>2, <1>4 DEF AxesTranslation, Drawing, Drawn, Matrix
<1>5. CASE DrawCube
  BY <1>1, <1>2, <1>5 DEF DrawCube, Drawing, Drawn, Matrix
<1>6. CASE CubeTranslation
  BY <1>1, <1>2, <1>6 DEF CubeTranslation, Drawing, Drawn, Matrix
<1>7. QED
  BY <1>3, <1>4, <1>5, <1>6 DEF onDrawFrame

\* While the activity is resumed the GL thread can draw.
LEMMA DrawingCanStep ==
    ASSUME LiveInv, NEW n, NEW g, NEW k, Drawing(n, g, k)
    PROVE  GLCanStep
BY DEF LiveInv, WaitInv, Drawing, GLCanStep

\* Every pose handed to MyGLRenderer comes to be drawn whole, on the axes and
\* on the cube, or is overtaken by a newer one, unless the activity is paused:
\* for any number of frames, although nothing orders the copying of the matrix
\* and the two readings of it.
THEOREM PictureDoesCatchUp == FairSpec /\ []StepsEnabled => PictureCatchesUp
<1> SUFFICES ASSUME NEW n \in 1..MaxFrames
             PROVE  FairSpec /\ []StepsEnabled =>
                      ((matrix.rot >= n /\ matrix.trans >= n) ~>
                         \/ axes.rot >= n /\ axes.trans >= n /\ cube.rot >= n /\ cube.trans >= n
                         \/ resumed = "no")
  BY DEF PictureCatchesUp
<1> DEFINE Given == matrix.rot >= n /\ matrix.trans >= n
           Whole == axes.rot >= n /\ axes.trans >= n /\ cube.rot >= n /\ cube.trans >= n
           Off   == resumed = "no"
           Goes(g, k, g2, k2) ==
             /\ LiveInv /\ Drawing(n, g, k) /\ [Next]_vars
                  => Drawing(n, g, k)' \/ Off' \/ Drawing(n, g2, k2)'
             /\ LiveInv /\ Drawing(n, g, k) /\ <<onDrawFrame>>_vars => Drawing(n, g2, k2)'
             /\ LiveInv /\ Drawing(n, g, k) => GLCanStep
<1>0. n \in Nat
  BY DisplayAssumption
<1>1. Goes("idle", 0, "axes", 1) /\ Goes("axes", 0, "drawCube", 0)
  BY <1>0, DrawingStep, DrawingMoves, DrawingCanStep
<1>2. Goes("drawCube", 0, "cube", 0) /\ Goes("cube", 0, "idle", 0)
  BY <1>0, DrawingStep, DrawingMoves, DrawingCanStep
<1>3. Goes("axes", 1, "drawCube", 2) /\ Goes("drawCube", 2, "cube", 3)
  BY <1>0, DrawingStep, DrawingMoves, DrawingCanStep
<1>4. Goes("cube", 3, "idle", 4)
  BY <1>0, DrawingStep, DrawingMoves, DrawingCanStep
<1>5. LiveInv /\ Given => \/ Off \/ Drawing(n, "idle", 0) \/ Drawing(n, "axes", 0)
                          \/ Drawing(n, "drawCube", 0) \/ Drawing(n, "cube", 0)
  BY DEF LiveInv, TypeOK, WaitInv, Drawing, Drawn
<1>6. Drawing(n, "idle", 4) => Whole
  BY DEF Drawing, Drawn
<1> HIDE DEF Given, Whole, Off
<1>7. FairSpec /\ []StepsEnabled => (Given ~> Whole \/ Off)
  BY <1>1, <1>2, <1>3, <1>4, <1>5, <1>6, LiveInvariance, PTL
  DEF FairSpec, Fairness, Spec, StepsEnabled
<1>8. QED
  BY <1>7, PTL DEF Given, Whole, Off

-----------------------------------------------------------------------------
(***************************************************************************)
(* The UI thread comes back to its looper.  In join() it waits for the     *)
(* camera thread, which may be given further frames until it sees that it  *)
(* is to stop: that it does stop is what CameraView proves of every call   *)
(* (CallsReturn), and is the strong fairness of CameraThreadEnds here.     *)
(***************************************************************************)

\* Only its own steps move the UI thread out of a runnable or a wait.
LEMMA UIOnlyMovesItself ==
    ASSUME [Next]_vars, ui # "looper"
    PROVE  ui' = ui \/ UIStep
<1>1. CASE Produce \/ onCameraFrame \/ FrameStep \/ CameraThreadEnds
  BY <1>1 DEF Produce, onCameraFrame, FrameStep, ConvertRGBtoGray, NativeInfo, StartThread,
     setRMatCameraOne, CopyTranslation, NotDetected, CameraThreadEnds
<1>2. CASE (\E f \in helpers : runOnUiThread(f)) \/ onDrawFrame
  BY <1>2 DEF runOnUiThread, onDrawFrame, DrawAxes, AxesTranslation, DrawCube,
     CubeTranslation
<1>3. CASE Lifecycle
  BY <1>3 DEF Lifecycle, onResume, onPause, surfaceChanged, surfaceDestroyed
<1>4. CASE UNCHANGED vars
  BY <1>4 DEF vars
<1>5. QED
  BY <1>1, <1>2, <1>3, <1>4 DEF Next

\* Where a step of the UI thread takes it, and from where.
LEMMA UIStepMoves ==
    ASSUME UIStep, ui # "looper"
    PROVE  /\ ui = "cInfo" => ui' = "gRMat"
           /\ ui = "gRMat" => ui' = "native_info"
           /\ ui = "native_info" => ui' = "looper"
           /\ ui = "join" => cam = "none" /\ ui' \in {"looper", "pauseGL"}
           /\ ui = "pauseGL" => gl = "idle" /\ ui' = "looper"
BY DEF UIStep, BeginRunnable, Runnable, Show, JoinCamera, PauseGL

\* The camera thread during the join(): a frame goes through onCameraFrame(),
\* and only the end of the thread leaves it dead.
LEMMA CamMoves ==
    ASSUME [Next]_vars, ui = "join"
    PROVE  /\ cam = "none" => cam' = "none"
           /\ cam \notin {"none", "wait"} => cam' = cam \/ FrameStep
           /\ cam = "wait" => cam' \in {"wait", "convert", "none"}
<1>1. CASE Produce \/ onCameraFrame \/ CameraThreadEnds
  BY <1>1 DEF Produce, onCameraFrame, CameraThreadEnds
<1>2. CASE FrameStep
  BY <1>2 DEF FrameStep, ConvertRGBtoGray, NativeInfo, StartThread, setRMatCameraOne,
     CopyTranslation, NotDetected
<1>3. CASE (\E f \in helpers : runOnUiThread(f)) \/ onDrawFrame
  BY <1>3 DEF runOnUiThread, onDrawFrame, DrawAxes, AxesTranslation, DrawCube,
     CubeTranslation, camera
<1>4. CASE Lifecycle
  BY <1>4 DEF Lifecycle, onResume, onPause, surfaceChanged, surfaceDestroyed
<1>5. CASE UIStep
  BY <1>5 DEF UIStep, BeginRunnable, Runnable, Show, JoinCamera, PauseGL
<1>6. CASE UNCHANGED vars
  BY <1>6 DEF vars, camera
<1>7. QED
  BY <1>1, <1>2, <1>3, <1>4, <1>5, <1>6 DEF Next

\* The places of onCameraFrame() follow each other.
LEMMA FrameMoves ==
    ASSUME FrameStep
    PROVE  /\ cam = "convert" => cam' = "info"
           /\ cam = "info" => cam' = "thread"
           /\ cam = "thread" => cam' = "set"
           /\ cam = "set" => cam' \in {"copy", "wait"}
           /\ cam = "copy" => cam' = "wait"
           /\ ui' = ui
BY DEF FrameStep, ConvertRGBtoGray, NativeInfo, StartThread, setRMatCameraOne,
   CopyTranslation, NotDetected

\* The GL thread during gLView.onPause(): it finishes its picture and begins no
\* other.
LEMMA GLMoves ==
    ASSUME LiveInv, [Next]_vars, ui = "pauseGL", ui' = "pauseGL"
    PROVE  /\ gl' = gl \/ onDrawFrame
           /\ onDrawFrame => /\ gl # "idle"
                             /\ gl = "axes" => gl' = "drawCube"
                             /\ gl = "drawCube" => gl' = "cube"
                             /\ gl = "cube" => gl' = "idle"
<1>1. CASE Produce \/ onCameraFrame \/ FrameStep \/ CameraThreadEnds
  BY <1>1 DEF Produce, onCameraFrame, FrameStep, ConvertRGBtoGray, NativeInfo, StartThread,
     setRMatCameraOne, CopyTranslation, NotDetected, CameraThreadEnds, drawn,
     onDrawFrame, DrawAxes, AxesTranslation, DrawCube, CubeTranslation
<1>2. CASE \E f \in helpers : runOnUiThread(f)
  BY <1>2 DEF runOnUiThread, drawn, onDrawFrame, DrawAxes, AxesTranslation, DrawCube,
     CubeTranslation
<1>3. CASE onDrawFrame
  BY <1>3 DEF onDrawFrame, DrawAxes, AxesTranslation, DrawCube, CubeTranslation
<1>4. ~Lifecycle /\ ~UIStep
  BY UIStepMoves DEF Lifecycle, onResume, onPause, surfaceChanged, surfaceDestroyed
<1>5. CASE UNCHANGED vars
  BY <1>5 DEF vars, drawn, onDrawFrame, DrawAxes, AxesTranslation, DrawCube,
     CubeTranslation
<1>6. QED
  BY <1>1, <1>2, <1>3, <1>4, <1>5 DEF Next

\* The runnables end, and so does the pause of a GL thread that is between two
\* pictures.
LEMMA RunnableEnds ==
    FairSpec /\ []StepsEnabled =>
        /\ ui = "cInfo" ~> ui = "gRMat"
        /\ ui = "gRMat" ~> ui = "native_info"
        /\ ui = "native_info" ~> ui = "looper"
<1> DEFINE Goes(p, q) == /\ ui = p /\ [Next]_vars => (ui = p)' \/ (ui = q)'
                         /\ ui = p /\ <<UIStep>>_vars => (ui = q)'
                         /\ ui = p => UICanStep
<1>1. Goes("cInfo", "gRMat") /\ Goes("gRMat", "native_info") /\ Goes("native_info", "looper")
  BY UIOnlyMovesItself, UIStepMoves DEF UICanStep
<1>2. QED
  BY <1>1, PTL DEF FairSpec, Fairness, Spec, StepsEnabled

\* gLView.onPause() returns: the picture being drawn is finished.
LEMMA PauseEnds == FairSpec /\ []StepsEnabled => (ui = "pauseGL" ~> ui = "looper")
<1> DEFINE At(g) == ui = "pauseGL" /\ gl = g
           Out   == ui = "looper"
           Goes(g, g2) == /\ LiveInv /\ At(g) /\ [Next]_vars => At(g)' \/ At(g2)' \/ Out'
                          /\ LiveInv /\ At(g) /\ <<onDrawFrame>>_vars => At(g2)'
                          /\ LiveInv /\ At(g) => GLCanStep
<1>0. ASSUME LiveInv, [Next]_vars, ui = "pauseGL"
      PROVE  ui' \in {"pauseGL", "looper"}
  BY <1>0, UIOnlyMovesItself, UIStepMoves
<1>1. onDrawFrame => ui' = ui
  BY DEF onDrawFrame, DrawAxes, AxesTranslation, DrawCube, CubeTranslation
<1>2. onDrawFrame => Next
  BY DEF Next
<1>3. Goes("axes", "drawCube") /\ Goes("drawCube", "cube") /\ Goes("cube", "idle")
  BY <1>0, <1>1, <1>2, GLMoves DEF GLCanStep
<1>4. /\ LiveInv /\ At("idle") /\ [Next]_vars => At("idle")' \/ Out'
      /\ LiveInv /\ At("idle") /\ <<UIStep>>_vars => Out'
      /\ LiveInv /\ At("idle") => UICanStep
  BY <1>0, GLMoves, UIStepMoves DEF UICanStep
<1>5. LiveInv /\ ui = "pauseGL" => At("idle") \/ At("axes") \/ At("drawCube") \/ At("cube")
  BY DEF LiveInv, TypeOK, WaitInv, WaitsCanEnd
<1> HIDE DEF At
<1>6. QED
  BY <1>3, <1>4, <1>5, LiveInvariance, PTL DEF FairSpec, Fairness, Spec, StepsEnabled

\* mThread.join() returns, given that a camera thread that is told to stop, and
\* comes back to its loop again and again, stops at last.
LEMMA JoinEnds ==
    FairSpec /\ []StepsEnabled /\ SF_vars(CameraThreadEnds)
        => (ui = "join" ~> (ui = "looper" \/ ui = "pauseGL"))
<1> DEFINE At(c) == ui = "join" /\ cam = c
           Out   == ui = "looper" \/ ui = "pauseGL"
<1>0. ASSUME [Next]_vars, ui = "join"
      PROVE  ui' = "join" \/ (cam = "none" /\ Out')
  BY <1>0, UIOnlyMovesItself, UIStepMoves
<1>1. FrameStep => Next
  BY DEF Next
<1> DEFINE Goes(c, D, E) == /\ At(c) /\ [Next]_vars => At(c)' \/ D' \/ E'
                            /\ At(c) /\ <<FrameStep>>_vars => D' \/ E'
                            /\ At(c) => FrameCanStep
<1>2. Goes("convert", At("info"), FALSE) /\ Goes("info", At("thread"), FALSE)
  BY <1>0, <1>1, CamMoves, FrameMoves DEF FrameCanStep
<1>3. Goes("thread", At("set"), FALSE) /\ Goes("copy", At("wait"), FALSE)
  BY <1>0, <1>1, CamMoves, FrameMoves DEF FrameCanStep
<1>4. Goes("set", At("copy"), At("wait"))
  BY <1>0, <1>1, CamMoves, FrameMoves DEF FrameCanStep
<1>5. /\ At("wait") /\ [Next]_vars => At("wait")' \/ At("convert")' \/ At("none")'
      /\ At("wait") /\ <<CameraThreadEnds>>_vars => At("none")'
      /\ <<CameraThreadEnds>>_vars => At("wait")
      /\ At("wait") => cam = "wait" /\ ui = "join"
  BY <1>0, CamMoves DEF CameraThreadEnds
<1>6. /\ At("none") /\ [Next]_vars => At("none")' \/ Out'
      /\ At("none") /\ <<UIStep>>_vars => Out'
      /\ At("none") => UICanStep
  BY <1>0, CamMoves, UIStepMoves DEF UICanStep
<1>7. LiveInv /\ ui = "join" => \/ At("none") \/ At("wait") \/ At("convert") \/ At("info")
                                \/ At("thread") \/ At("set") \/ At("copy")
  BY DEF LiveInv, TypeOK
<1> HIDE DEF At
<1>8. QED
  BY <1>2, <1>3, <1>4, <1>5, <1>6, <1>7, LiveInvariance, PTL
  DEF FairSpec, Fairness, Spec, StepsEnabled

\* The UI thread always comes back to its looper, out of a runnable, out of the
\* join() of the camera thread and out of gLView.onPause(), however many frames
\* there are: nothing it waits for is waiting for the UI thread.  The strong
\* fairness says what CallsReturn shows of CameraView: a camera thread that is
\* told to stop does so although frames keep coming.
THEOREM UIDoesReturn ==
    FairSpec /\ []StepsEnabled /\ SF_vars(CameraThreadEnds) => UIReturns
<1>1. LiveInv => \/ ui = "looper" \/ ui = "cInfo" \/ ui = "gRMat" \/ ui = "native_info"
                 \/ ui = "join" \/ ui = "pauseGL"
  BY DEF LiveInv, TypeOK
<1>2. QED
  BY <1>1, RunnableEnds, PauseEnds, JoinEnds, LiveInvariance, PTL DEF FairSpec, UIReturns

=============================================================================
