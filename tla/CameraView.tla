----------------------------- MODULE CameraView -----------------------------
(***************************************************************************)
(* The camera view: the started/stopped state machine of                   *)
(* CameraBridgeViewBase and the two-buffer hand-over of JavaCameraView.    *)
(*                                                                         *)
(* Two threads.  The UI thread runs the client's calls, the surface        *)
(* callbacks and (its looper being the one Camera.open() was called on)    *)
(* onPreviewFrame(); the CameraWorker thread waits for a frame, swaps the  *)
(* buffers and delivers.  The monitor of the view guards the swap; a       *)
(* section of it that does not wait is one step.                           *)
(***************************************************************************)
EXTENDS Naturals

CONSTANT MaxFrames  \* bound: frames the camera produces

ASSUME CameraAssumption == MaxFrames \in Nat

VARIABLES
    conds,      \* which of the conditions for starting hold
    mState,     \* STOPPED or STARTED
    ui,         \* where the UI thread is
    restart,    \* "yes" in a surfaceChanged() that will start again
    listener,   \* the listener's latest callback
    camera,     \* mCamera: "null", "open" or "preview"
    chain,      \* frame number in each Mat of mFrameChain, 0 when blank
    mats,       \* mFrameChain: "null", "alloc" or "released"
    bitmap,     \* mCacheBitmap: "null", "alloc" or "recycled"
    mChainIdx, mCameraFrameReady, mStopThread,
    worker,     \* where the CameraWorker is in run()
    produced,   \* frames produced so far
    shown       \* the frame last given to deliverAndDrawFrame()

uiVars     == <<conds, mState, ui, restart, listener>>
cameraVars == <<camera, mats, bitmap>>
frameVars  == <<chain, mChainIdx, mCameraFrameReady, produced, shown>>
vars       == <<uiVars, cameraVars, frameVars, mStopThread, worker>>

-----------------------------------------------------------------------------
Conditions == {"enabled", "permission", "surface"}

UIPCs     == {"idle", "stop", "notify", "join", "release", "stopped",
              "connect", "started"}
WorkerPCs == {"none", "sync", "wait", "test", "deliver", "while", "done"}

(***************************************************************************)
(* mStopThread is a plain field that disconnectCamera() sets outside the   *)
(* monitor.  "clear": false.  "set": the UI thread has written it, and     *)
(* whether the worker sees that is undetermined.  "sent": the UI thread    *)
(* has since released the monitor, so the worker sees it from its next     *)
(* acquisition on, after which it is "seen".                               *)
(***************************************************************************)
StopStates == {"clear", "set", "sent", "seen"}

\* What the worker may read, inside the monitor and outside it.
MayReadTrue  == mStopThread # "clear"
MayReadFalse == mStopThread # "seen"
InMonitorMayReadFalse == mStopThread \in {"clear", "set"}

WorkerDead == worker \in {"none", "done"}

Init ==
    /\ conds = {} /\ mState = "STOPPED" /\ ui = "idle" /\ restart = "no"
    /\ listener = "stopped"
    /\ camera = "null" /\ mats = "null" /\ bitmap = "null"
    /\ chain = [i \in {0, 1} |-> 0] /\ mChainIdx = 0
    /\ mCameraFrameReady = "no" /\ produced = 0 /\ shown = 0
    /\ mStopThread = "clear" /\ worker = "none"

-----------------------------------------------------------------------------
(***************************************************************************)
(* The UI thread.  Every call changes a condition and runs                 *)
(* checkCurrentState(), which leaves STARTED by disconnectCamera() and     *)
(* enters it by connectCamera().                                           *)
(***************************************************************************)
checkCurrentState(c) ==
    LET target == IF c = Conditions THEN "STARTED" ELSE "STOPPED"
    IN  ui' = IF target = mState THEN "idle"
              ELSE IF mState = "STARTED" THEN "stop" ELSE "connect"

Call(c) ==
    /\ ui = "idle"
    /\ conds' = c
    /\ checkCurrentState(c)
    /\ UNCHANGED <<mState, restart, listener, cameraVars, frameVars, mStopThread, worker>>

enableView                 == Call(conds \union {"enabled"})
disableView                == Call(conds \ {"enabled"})
setCameraPermissionGranted == Call(conds \union {"permission"})
surfaceDestroyed           == Call(conds \ {"surface"})

\* A surface that already exists is taken away and given back, which restarts
\* a view that is started and changes nothing in one that is not.
SurfaceRestart ==
    /\ ui = "idle"
    /\ "surface" \in conds /\ mState = "STARTED"
    /\ conds' = conds \ {"surface"}
    /\ ui' = "stop" /\ restart' = "yes"
    /\ UNCHANGED <<mState, listener, cameraVars, frameVars, mStopThread, worker>>

surfaceChanged ==
    \/ "surface" \notin conds /\ Call(conds \union {"surface"})
    \/ SurfaceRestart

\* disconnectCamera(): mStopThread = true ...
StopThread ==
    /\ ui = "stop"
    /\ mStopThread' = "set"
    /\ ui' = "notify"
    /\ UNCHANGED <<conds, mState, restart, listener, cameraVars, frameVars, worker>>

\* Mutant: the worker is not notified.
NotifyThread_NoNotify ==
    /\ ui = "notify"
    /\ mStopThread' = "sent"
    /\ ui' = "join"
    /\ UNCHANGED <<conds, mState, restart, listener, cameraVars, frameVars, worker>>

\* ... notify() in the monitor ...
NotifyThread ==
    /\ ui = "notify"
    /\ mStopThread' = "sent"
    /\ worker' = IF worker = "wait" THEN "sync" ELSE worker
    /\ ui' = "join"
    /\ UNCHANGED <<conds, mState, restart, listener, cameraVars, frameVars>>

\* Mutant: the thread is not waited for.
JoinThread_NoJoin ==
    /\ ui = "join"
    /\ ui' = "release"
    /\ UNCHANGED <<conds, mState, restart, listener, cameraVars, frameVars,
                   mStopThread, worker>>

\* Mutant: no test for a thread that was never made.
JoinThread_NoTest ==
    /\ ui = "join"
    /\ worker = "done"
    /\ ui' = "release"
    /\ UNCHANGED <<conds, mState, restart, listener, cameraVars, frameVars,
                   mStopThread, worker>>

\* ... mThread.join() ...
JoinThread ==
    /\ ui = "join"
    /\ WorkerDead
    /\ ui' = "release"
    /\ UNCHANGED <<conds, mState, restart, listener, cameraVars, frameVars,
                   mStopThread, worker>>

\* Mutant: a camera that never got to its preview is not released.
releaseCamera_OnlyPreview ==
    /\ ui = "release"
    /\ camera' = IF camera = "preview" THEN "null" ELSE camera
    /\ mats' = IF mats = "null" THEN "null" ELSE "released"
    /\ bitmap' = IF bitmap = "null" THEN "null" ELSE "recycled"
    /\ mCameraFrameReady' = "no"
    /\ mState' = "STOPPED"
    /\ ui' = "stopped"
    /\ UNCHANGED <<conds, restart, listener, chain, mChainIdx, produced, shown,
                   mStopThread, worker>>

\* ... releaseCamera(); and back in onExitStartedState() the bitmap.
releaseCamera ==
    /\ ui = "release"
    /\ camera' = "null"
    /\ mats' = IF mats = "null" THEN "null" ELSE "released"
    /\ bitmap' = IF bitmap = "null" THEN "null" ELSE "recycled"
    /\ mCameraFrameReady' = "no"
    /\ mState' = "STOPPED"
    /\ ui' = "stopped"
    /\ UNCHANGED <<conds, restart, listener, chain, mChainIdx, produced, shown,
                   mStopThread, worker>>

\* processEnterState(STOPPED), and the second half of surfaceChanged().
EnterStopped ==
    /\ ui = "stopped"
    /\ listener' = "stopped"
    /\ restart' = "no"
    /\ \/ restart = "yes" /\ conds' = conds \union {"surface"} /\ ui' = "connect"
       \/ restart = "no" /\ conds' = conds /\ ui' = "idle"
    /\ UNCHANGED <<mState, cameraVars, frameVars, mStopThread, worker>>

\* connectCamera() when initializeCamera() returns true.
connectCamera ==
    /\ ui = "connect"
    /\ camera' = "preview" /\ mats' = "alloc" /\ bitmap' = "alloc"
    /\ chain' = [i \in {0, 1} |-> 0]
    /\ mCameraFrameReady' = "no"
    /\ mStopThread' = "clear"
    /\ worker' = "sync"
    /\ mState' = "STARTED"
    /\ ui' = "started"
    /\ UNCHANGED <<conds, restart, listener, mChainIdx, produced, shown>>

\* connectCamera() when it returns false: no camera could be opened, or an
\* exception came before, between or after the allocations.  The view only
\* shows a dialog.
ConnectFails ==
    /\ ui = "connect"
    /\ \/ camera' = "null" /\ UNCHANGED <<mats, bitmap, chain>>
       \/ camera' = "open" /\ UNCHANGED <<mats, bitmap, chain>>
       \/ /\ camera' = "open"
          /\ mats' = "alloc" /\ chain' = [i \in {0, 1} |-> 0]
          /\ bitmap' \in {bitmap, "alloc"}
    /\ mState' = "STARTED"
    /\ ui' = "started"
    /\ UNCHANGED <<conds, restart, listener, mChainIdx, mCameraFrameReady,
                   produced, shown, mStopThread, worker>>

\* processEnterState(STARTED): the listener is called in either case.
EnterStarted ==
    /\ ui = "started"
    /\ listener' = "started"
    /\ ui' = "idle"
    /\ UNCHANGED <<conds, mState, restart, cameraVars, frameVars, mStopThread, worker>>

\* Mutant: the frame goes to the Mat the worker uses.
onPreviewFrame_WrongMat ==
    /\ ui = "idle" /\ camera = "preview"
    /\ produced < MaxFrames
    /\ produced' = produced + 1
    /\ chain' = [chain EXCEPT ![1 - mChainIdx] = produced']
    /\ mCameraFrameReady' = "yes"
    /\ worker' = IF worker = "wait" THEN "sync" ELSE worker
    /\ UNCHANGED <<uiVars, cameraVars, mChainIdx, shown, mStopThread>>

\* Mutant: the worker is not notified.
onPreviewFrame_NoNotify ==
    /\ ui = "idle" /\ camera = "preview"
    /\ produced < MaxFrames
    /\ produced' = produced + 1
    /\ chain' = [chain EXCEPT ![mChainIdx] = produced']
    /\ mCameraFrameReady' = "yes"
    /\ UNCHANGED <<uiVars, cameraVars, mChainIdx, shown, mStopThread, worker>>

onPreviewFrame ==
    /\ ui = "idle" /\ camera = "preview"
    /\ produced < MaxFrames
    /\ produced' = produced + 1
    /\ chain' = [chain EXCEPT ![mChainIdx] = produced']
    /\ mCameraFrameReady' = "yes"
    /\ worker' = IF worker = "wait" THEN "sync" ELSE worker
    /\ UNCHANGED <<uiVars, cameraVars, mChainIdx, shown, mStopThread>>

-----------------------------------------------------------------------------
(* CameraWorker.run() *)

\* In the monitor with no frame: wait unless told to stop.
WorkerWaits ==
    /\ worker = "sync"
    /\ mCameraFrameReady = "no" /\ InMonitorMayReadFalse
    /\ worker' = "wait"
    /\ UNCHANGED <<uiVars, cameraVars, frameVars, mStopThread>>

\* wait() may return without a notify().
SpuriousWakeup ==
    /\ worker = "wait"
    /\ worker' = "sync"
    /\ UNCHANGED <<uiVars, cameraVars, frameVars, mStopThread>>

Acquire == mStopThread' = IF mStopThread = "sent" THEN "seen" ELSE mStopThread

\* Mutant: the index runs out of the chain.
WorkerSwaps_Increments ==
    /\ worker = "sync"
    /\ mCameraFrameReady = "yes"
    /\ mChainIdx' = mChainIdx + 1
    /\ mCameraFrameReady' = "no"
    /\ Acquire
    /\ worker' = "test"
    /\ UNCHANGED <<uiVars, cameraVars, chain, produced, shown>>

\* Mutant: the flag is not reset.
WorkerSwaps_KeepsReady ==
    /\ worker = "sync"
    /\ mCameraFrameReady = "yes"
    /\ mChainIdx' = 1 - mChainIdx
    /\ Acquire
    /\ worker' = "test"
    /\ UNCHANGED <<uiVars, cameraVars, chain, mCameraFrameReady, produced, shown>>

\* In the monitor with a frame: swap the buffers.
WorkerSwaps ==
    /\ worker = "sync"
    /\ mCameraFrameReady = "yes"
    /\ mChainIdx' = 1 - mChainIdx
    /\ mCameraFrameReady' = "no"
    /\ Acquire
    /\ worker' = "test"
    /\ UNCHANGED <<uiVars, cameraVars, chain, produced, shown>>

\* In the monitor with no frame, told to stop.
WorkerSkips ==
    /\ worker = "sync"
    /\ mCameraFrameReady = "no" /\ MayReadTrue
    /\ Acquire
    /\ worker' = "while"
    /\ UNCHANGED <<uiVars, cameraVars, frameVars>>

\* The test of mStopThread before delivering, outside the monitor.
WorkerTests ==
    /\ worker = "test"
    /\ \/ /\ MayReadFalse
          /\ worker' = "deliver"
          /\ shown' = chain[1 - mChainIdx]
       \/ /\ MayReadTrue
          /\ worker' = "while"
          /\ UNCHANGED shown
    /\ UNCHANGED <<uiVars, cameraVars, chain, mChainIdx, mCameraFrameReady, produced,
                   mStopThread>>

\* deliverAndDrawFrame() returns.
WorkerDelivered ==
    /\ worker = "deliver"
    /\ worker' = "while"
    /\ UNCHANGED <<uiVars, cameraVars, frameVars, mStopThread>>

\* while (!mStopThread)
WorkerLoops ==
    /\ worker = "while"
    /\ \/ MayReadFalse /\ worker' = "sync"
       \/ MayReadTrue /\ worker' = "done"
    /\ UNCHANGED <<uiVars, cameraVars, frameVars, mStopThread>>

-----------------------------------------------------------------------------
ClientCall == enableView \/ disableView \/ setCameraPermissionGranted
                \/ surfaceChanged \/ surfaceDestroyed

UIStep == StopThread \/ NotifyThread \/ JoinThread \/ releaseCamera \/ EnterStopped
            \/ connectCamera \/ ConnectFails \/ EnterStarted

WorkerStep == WorkerWaits \/ WorkerSwaps \/ WorkerSkips \/ WorkerTests
                \/ WorkerDelivered \/ WorkerLoops

Next == ClientCall \/ onPreviewFrame \/ UIStep \/ WorkerStep \/ SpuriousWakeup

Spec == Init /\ [][Next]_vars

\* Both threads are scheduled, and the listener's onCameraFrame() returns.
\* Neither the client nor the camera has to do anything.
FairSpec == Spec /\ WF_vars(UIStep) /\ WF_vars(WorkerStep)

-----------------------------------------------------------------------------
(* Properties *)

\* Every variable keeps its type.
TypeOK ==
    /\ conds \in SUBSET Conditions
    /\ mState \in {"STOPPED", "STARTED"}
    /\ ui \in UIPCs
    /\ restart \in {"no", "yes"}
    /\ listener \in {"stopped", "started"}
    /\ camera \in {"null", "open", "preview"}
    /\ mats \in {"null", "alloc", "released"}
    /\ bitmap \in {"null", "alloc", "recycled"}
    /\ produced \in Nat /\ shown \in Nat
    /\ chain \in [{0, 1} -> Nat]
    /\ mChainIdx \in {0, 1}
    /\ mCameraFrameReady \in {"no", "yes"}
    /\ mStopThread \in StopStates
    /\ worker \in WorkerPCs

\* The Mat being delivered is not written: it keeps the frame it held when
\* deliverAndDrawFrame() was called, however many frames arrive meanwhile.
FrameIntact == worker = "deliver" => chain[1 - mChainIdx] = shown

\* While the worker lives, the Mats and the bitmap it uses are allocated and
\* the camera is connected: disconnectCamera() releases nothing too early.
WorkerHasResources ==
    ~WorkerDead => camera = "preview" /\ mats = "alloc" /\ bitmap = "alloc"

\* A view that is not started, or is about to connect, holds no camera, no
\* Mats, no bitmap and no thread, also after a connection that failed halfway.
StoppedHoldsNothing ==
    mState = "STOPPED" =>
        camera = "null" /\ mats # "alloc" /\ bitmap # "alloc" /\ WorkerDead

\* Frames reach the listener between its two callbacks only, and each one is a
\* frame of the camera newer than the one before (FrameFeed).
Feed == INSTANCE FrameFeed WITH feed <- listener, newest <- produced, shown <- shown

FeedSpec == Feed!Spec

\* Neither thread is ever stuck at a place of its code: the UI thread inside a
\* call has a next step, in join() once the worker is dead, and so has a worker
\* that is alive and not in wait(), whatever it reads of mStopThread.
UICanStep     == ui # "idle" /\ (ui = "join" => WorkerDead)
WorkerCanStep == ~WorkerDead /\ worker # "wait"

StepsEnabled ==
    /\ UICanStep => ENABLED <<UIStep>>_vars
    /\ WorkerCanStep => ENABLED <<WorkerStep>>_vars

\* Every call on the UI thread returns; in particular join() always ends, so
\* the wake-up of the worker is never lost.
CallsReturn == ui # "idle" ~> ui = "idle"

\* A frame in the chain is taken by the worker, or thrown away by a stop.
FrameIsTaken == mCameraFrameReady = "yes" ~> mCameraFrameReady = "no"

-----------------------------------------------------------------------------
\* onCameraViewStarted() is documented as "invoked when camera preview has
\* started": once it has been called, the camera previews until the next stop.
StartedMeansPreview == listener = "started" /\ ui = "idle" => camera = "preview"

=============================================================================
