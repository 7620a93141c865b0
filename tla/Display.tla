------------------------------ MODULE Display -------------------------------
(***************************************************************************)
(* What the user sees of a frame: the pose drawn by MyGLRenderer and the   *)
(* numbers in the text views.  Four kinds of threads meet here without a   *)
(* lock: the camera thread in onCameraFrame(), the thread it starts for    *)
(* every frame, the UI thread and the GL thread.                           *)
(*                                                                         *)
(* The camera view is taken at its word: FrameFeed, which CameraView       *)
(* implements.  The permissions have been granted.  A value is named by    *)
(* the number of the frame that wrote it, 0 being its first value.         *)
(***************************************************************************)
EXTENDS Naturals, Sequences

CONSTANT MaxFrames  \* bound: frames the camera produces

ASSUME DisplayAssumption == MaxFrames \in Nat

VARIABLES
    feed, newest, shown,    \* the feed of frames
    resumed,    \* "yes" between onResume() and onPause()
    ui,         \* where the UI thread is
    cam,        \* where the camera thread is, "none" when there is none
    bDetectObj,
    field,      \* what cInfo, gRMat and native_info hold
    helpers,    \* the threads started: the fields each is sure to see
    looper,     \* the runnables posted to the UI thread, likewise
    known,      \* the fields that the UI thread is sure to see
    text,       \* the fields as the text views show them
    matrix,     \* gRotationMatrix_L, copied and read without a lock
    gl,         \* where the GL thread is
    axes, cube  \* the matrices that onDrawFrame() last used for them

frames == <<feed, newest, shown>>
camera == <<frames, cam, bDetectObj, field>>
texts  == <<helpers, looper, known, text>>
drawn  == <<gl, axes, cube>>
vars   == <<camera, texts, drawn, resumed, ui, matrix>>

Feed == INSTANCE FrameFeed

Fields  == [cInfo : Nat, gRMat : Nat, native_info : Nat]
Matrix  == [rot : Nat, trans : Nat]
NoField == [cInfo |-> 0, gRMat |-> 0, native_info |-> 0]
Eye     == [rot |-> 0, trans |-> 0]

Init ==
    /\ Feed!Init
    /\ resumed = "no" /\ ui = "looper" /\ cam = "none" /\ bDetectObj = 0
    /\ field = NoField /\ known = NoField /\ text = NoField
    /\ helpers = {} /\ looper = <<>>
    /\ matrix = Eye /\ axes = Eye /\ cube = Eye
    /\ gl = "paused"

-----------------------------------------------------------------------------
(* The camera thread. *)

Produce ==
    /\ newest < MaxFrames
    /\ Feed!Produce
    /\ UNCHANGED <<cam, bDetectObj, field, texts, drawn, resumed, ui, matrix>>

\* onCameraFrame() begins: cInfo is filled in.
onCameraFrame ==
    /\ cam = "wait"
    /\ Feed!onCameraFrame
    /\ field' = [field EXCEPT !.cInfo = shown']
    /\ cam' = "convert"
    /\ UNCHANGED <<bDetectObj, texts, drawn, resumed, ui, matrix>>

\* gRMat is written in any case, without a detection with the pose there was.
ConvertRGBtoGray ==
    /\ cam = "convert"
    /\ bDetectObj' \in {0, 1}
    /\ field' = [field EXCEPT !.gRMat = shown]
    /\ cam' = "info"
    /\ UNCHANGED <<frames, texts, drawn, resumed, ui, matrix>>

NativeInfo ==
    /\ cam = "info"
    /\ field' = [field EXCEPT !.native_info = shown]
    /\ cam' = "thread"
    /\ UNCHANGED <<frames, bDetectObj, texts, drawn, resumed, ui, matrix>>

\* Mutant: the text is only brought up to date after a detection.
StartThread_Detected ==
    /\ cam = "thread"
    /\ helpers' = IF bDetectObj = 1 THEN helpers \union {field} ELSE helpers
    /\ cam' = "set"
    /\ UNCHANGED <<frames, bDetectObj, field, looper, known, text, drawn, resumed, ui,
                   matrix>>

\* Mutant: the camera thread does not go on before the UI thread has taken over.
StartThread_Waits ==
    /\ cam = "thread" /\ ui = "looper"
    /\ helpers' = helpers \union {field}
    /\ cam' = "set"
    /\ UNCHANGED <<frames, bDetectObj, field, looper, known, text, drawn, resumed, ui,
                   matrix>>

\* new Thread(...).start(): all that was written so far comes before it.
StartThread ==
    /\ cam = "thread"
    /\ helpers' = helpers \union {field}
    /\ cam' = "set"
    /\ UNCHANGED <<frames, bDetectObj, field, looper, known, text, drawn, resumed, ui,
                   matrix>>

\* setRMatCameraOne(gRMat): System.arraycopy(), in two halves.
setRMatCameraOne ==
    /\ cam = "set" /\ bDetectObj = 1
    /\ matrix' = [matrix EXCEPT !.rot = field.gRMat]
    /\ cam' = "copy"
    /\ UNCHANGED <<frames, bDetectObj, field, texts, drawn, resumed, ui>>

CopyTranslation ==
    /\ cam = "copy"
    /\ matrix' = [matrix EXCEPT !.trans = field.gRMat]
    /\ cam' = "wait"
    /\ UNCHANGED <<frames, bDetectObj, field, texts, drawn, resumed, ui>>

NotDetected ==
    /\ cam = "set" /\ bDetectObj # 1
    /\ cam' = "wait"
    /\ UNCHANGED <<frames, bDetectObj, field, texts, drawn, resumed, ui, matrix>>

\* The worker ends its loop when it sees that it is to stop.
CameraThreadEnds ==
    /\ cam = "wait" /\ ui = "join"
    /\ cam' = "none"
    /\ UNCHANGED <<frames, bDetectObj, field, texts, drawn, resumed, ui, matrix>>

-----------------------------------------------------------------------------
(* The thread of one frame, and the runnable it posts. *)

\* runOnUiThread(): the threads of two frames may overtake each other.
runOnUiThread(f) ==
    /\ f \in helpers
    /\ helpers' = helpers \ {f}
    /\ looper' = Append(looper, f)
    /\ UNCHANGED <<camera, known, text, drawn, resumed, ui, matrix>>

\* The UI thread takes a runnable.
BeginRunnable ==
    /\ ui = "looper" /\ looper # <<>>
    /\ known' = IF Head(looper).cInfo > known.cInfo THEN Head(looper) ELSE known
    /\ looper' = Tail(looper)
    /\ ui' = "cInfo"
    /\ UNCHANGED <<camera, helpers, text, drawn, resumed, matrix>>

\* It reads the fields when it runs, not when the frame was handled: what it
\* is sure to see, what is there now, or anything written in between.
Show(part, next) ==
    /\ ui = part
    /\ \E value \in known[part]..field[part] : text' = [text EXCEPT ![part] = value]
    /\ ui' = next
    /\ UNCHANGED <<camera, helpers, looper, known, drawn, resumed, matrix>>

Runnable == \/ Show("cInfo", "gRMat") \/ Show("gRMat", "native_info")
            \/ Show("native_info", "looper")

-----------------------------------------------------------------------------
(* The lifecycle, on the UI thread. *)

\* enableView(), which starts the camera if there is a surface, and
\* gLView.onResume().
onResume ==
    /\ ui = "looper" /\ resumed = "no"
    /\ resumed' = "yes" /\ gl' = "idle"
    /\ \/ Feed!onCameraViewStarted /\ cam' = "wait"
       \/ UNCHANGED <<frames, cam>>
    /\ UNCHANGED <<bDetectObj, field, texts, axes, cube, ui, matrix>>

surfaceChanged ==
    /\ ui = "looper" /\ resumed = "yes"
    /\ Feed!onCameraViewStarted
    /\ cam' = "wait"
    /\ UNCHANGED <<bDetectObj, field, texts, drawn, resumed, ui, matrix>>

surfaceDestroyed ==
    /\ ui = "looper" /\ feed = "started"
    /\ ui' = "join"
    /\ UNCHANGED <<camera, texts, drawn, resumed, matrix>>

\* disableView() stops the camera, if it is started, before gLView.onPause().
onPause ==
    /\ ui = "looper" /\ resumed = "yes"
    /\ resumed' = "no"
    /\ ui' = IF feed = "started" THEN "join" ELSE "pauseGL"
    /\ UNCHANGED <<camera, texts, drawn, matrix>>

\* Mutant: the texts have to settle first, which takes the UI thread itself.
JoinCamera_Settled ==
    /\ ui = "join" /\ cam = "none" /\ helpers = {} /\ looper = <<>>
    /\ Feed!onCameraViewStopped
    /\ known' = field
    /\ ui' = IF resumed = "no" THEN "pauseGL" ELSE "looper"
    /\ UNCHANGED <<cam, bDetectObj, field, helpers, looper, text, drawn, resumed, matrix>>

\* mThread.join() returns: the UI thread has seen all that the thread wrote.
JoinCamera ==
    /\ ui = "join" /\ cam = "none"
    /\ Feed!onCameraViewStopped
    /\ known' = field
    /\ ui' = IF resumed = "no" THEN "pauseGL" ELSE "looper"
    /\ UNCHANGED <<cam, bDetectObj, field, helpers, looper, text, drawn, resumed, matrix>>

\* gLView.onPause() returns when the GL thread is between two pictures.
PauseGL ==
    /\ ui = "pauseGL" /\ gl = "idle"
    /\ gl' = "paused"
    /\ ui' = "looper"
    /\ UNCHANGED <<camera, texts, axes, cube, resumed, matrix>>

-----------------------------------------------------------------------------
(***************************************************************************)
(* The GL thread: RENDERMODE_CONTINUOUSLY.  onDrawFrame() reads the matrix *)
(* for the axes and again for the cube, each time through multiplyMM(),    *)
(* native code that loads what memory holds.                               *)
(***************************************************************************)
\* Mutant: a picture is only drawn when asked for, and nobody asks.
DrawAxes_WhenDirty ==
    /\ gl = "idle" /\ ui # "pauseGL" /\ axes = Eye
    /\ axes' = [axes EXCEPT !.rot = matrix.rot]
    /\ gl' = "axes"
    /\ UNCHANGED <<camera, texts, cube, resumed, ui, matrix>>

DrawAxes ==
    /\ gl = "idle" /\ ui # "pauseGL"
    /\ axes' = [axes EXCEPT !.rot = matrix.rot]
    /\ gl' = "axes"
    /\ UNCHANGED <<camera, texts, cube, resumed, ui, matrix>>

AxesTranslation ==
    /\ gl = "axes"
    /\ axes' = [axes EXCEPT !.trans = matrix.trans]
    /\ gl' = "drawCube"
    /\ UNCHANGED <<camera, texts, cube, resumed, ui, matrix>>

DrawCube ==
    /\ gl = "drawCube"
    /\ cube' = [cube EXCEPT !.rot = matrix.rot]
    /\ gl' = "cube"
    /\ UNCHANGED <<camera, texts, axes, resumed, ui, matrix>>

CubeTranslation ==
    /\ gl = "cube"
    /\ cube' = [cube EXCEPT !.trans = matrix.trans]
    /\ gl' = "idle"
    /\ UNCHANGED <<camera, texts, axes, resumed, ui, matrix>>

onDrawFrame == DrawAxes \/ AxesTranslation \/ DrawCube \/ CubeTranslation

-----------------------------------------------------------------------------
\* What the camera thread does once a frame has been given to it.
FrameStep ==
    \/ ConvertRGBtoGray \/ NativeInfo \/ StartThread
    \/ setRMatCameraOne \/ CopyTranslation \/ NotDetected

Lifecycle == onResume \/ onPause \/ surfaceChanged \/ surfaceDestroyed

UIStep == BeginRunnable \/ Runnable \/ JoinCamera \/ PauseGL

Next ==
    \/ Produce \/ onCameraFrame \/ FrameStep \/ CameraThreadEnds
    \/ \E f \in helpers : runOnUiThread(f)
    \/ Lifecycle \/ UIStep \/ onDrawFrame

Spec == Init /\ [][Next]_vars

(***************************************************************************)
(* Every thread that can go on does, the UI thread runs what is posted to  *)
(* it, and a camera thread told to stop stops (CallsReturn of CameraView). *)
(* Nothing obliges the camera to produce frames or the user to do anything.*)
(***************************************************************************)
Fairness ==
    /\ WF_vars(FrameStep) /\ WF_vars(CameraThreadEnds)
    /\ WF_vars(\E f \in helpers : runOnUiThread(f))
    /\ WF_vars(UIStep) /\ WF_vars(onDrawFrame)

FairSpec == Spec /\ Fairness

-----------------------------------------------------------------------------
(* Properties *)

FrameIsHandled == cam \in {"none", "wait", "set", "copy"}

\* Every variable keeps its type.
TypeOK ==
    /\ feed \in {"started", "stopped"} /\ newest \in Nat /\ shown \in Nat
    /\ resumed \in {"yes", "no"}
    /\ ui \in {"looper", "cInfo", "gRMat", "native_info", "join", "pauseGL"}
    /\ cam \in {"none", "wait", "convert", "info", "thread", "set", "copy"}
    /\ bDetectObj \in {0, 1}
    /\ field \in Fields /\ known \in Fields /\ text \in Fields
    /\ helpers \in SUBSET Fields /\ looper \in Seq(Fields)
    /\ matrix \in Matrix /\ axes \in Matrix /\ cube \in Matrix
    /\ gl \in {"paused", "idle", "axes", "drawCube", "cube"}

\* When no frame is being handled and no thread or runnable is left, the text
\* views show the last frame, whatever overtook whatever on the way: the
\* threads of two frames, or the camera thread a runnable that was reading.
TextSettles ==
    FrameIsHandled /\ helpers = {} /\ looper = <<>> /\ ui \in {"looper", "join", "pauseGL"}
        => text = field

\* Nothing is drawn with a pose older than one already drawn: the cube is not
\* behind the axes of its picture, nor the axes behind the cube of the last,
\* although each is read half by half while the camera thread copies.
NeverDrawnBackwards ==
    /\ gl \in {"cube", "idle", "paused"} => axes.rot <= cube.rot
    /\ gl \in {"idle", "paused"} => axes.trans <= cube.trans
    /\ gl \in {"axes", "drawCube"} => cube.rot <= axes.rot
    /\ gl \in {"drawCube", "cube"} => cube.trans <= axes.trans

\* No thread is ever stuck at a place of its code: a frame that was begun can be
\* finished, a text view has a value to show however old the UI thread's view
\* of the fields is, the join() of a camera thread that has ended returns, and
\* so does gLView.onPause() between two pictures.
FrameCanStep == cam \notin {"none", "wait"}
UICanStep    == \/ ui \in {"cInfo", "gRMat", "native_info"}
                \/ ui = "join" /\ cam = "none"
                \/ ui = "pauseGL" /\ gl = "idle"
GLCanStep    == gl # "paused" /\ (gl = "idle" => ui # "pauseGL")

StepsEnabled ==
    /\ FrameCanStep => ENABLED <<FrameStep>>_vars
    /\ cam = "wait" /\ ui = "join" => ENABLED <<CameraThreadEnds>>_vars
    /\ UICanStep => ENABLED <<UIStep>>_vars
    /\ GLCanStep => ENABLED <<onDrawFrame>>_vars

\* Every pose handed to the renderer comes to be drawn whole, on the axes and on
\* the cube, or is overtaken by a newer one, unless the activity is paused.
PictureCatchesUp ==
    \A n \in 1..MaxFrames :
        (matrix.rot >= n /\ matrix.trans >= n) ~>
            \/ axes.rot >= n /\ axes.trans >= n /\ cube.rot >= n /\ cube.trans >= n
            \/ resumed = "no"

\* The UI thread always comes back to its looper: what it waits for in
\* onPause(), the end of the camera thread and of the picture being drawn, is
\* never waiting for the UI thread.
UIReturns == ui # "looper" ~> ui = "looper"

=============================================================================
