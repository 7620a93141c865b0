-------------------------- MODULE CameraViewProofs --------------------------
(***************************************************************************)
(* Proofs about CameraView, for any number of frames and any sequence of   *)
(* calls.                                                                  *)
(***************************************************************************)
EXTENDS CameraView, TLAPS

USE SMTT(60)

(***************************************************************************)
(* The inductive invariant.  UIInv ties the place of the UI thread to the  *)
(* state and to the listener's latest callback, and says that the worker   *)
(* is dead once it has been joined.  FrameInv orders the frames: a frame   *)
(* that is ready is the newest one, a frame that the worker has swapped    *)
(* out is newer than the one shown and older than one that has become      *)
(* ready since; and there are frames only while the listener is started.   *)
(***************************************************************************)
UIInv ==
    /\ ui \in {"stopped", "connect"} => mState = "STOPPED"
    /\ ui \in {"stop", "notify", "join", "release", "started"} => mState = "STARTED"
    /\ ui \in {"connect", "started"} => listener = "stopped"
    /\ ui \in {"stop", "notify", "join", "release", "stopped"} => listener = "started"
    /\ ui = "idle" => (listener = "started" <=> mState = "STARTED")
    /\ ui = "release" => WorkerDead
    /\ mState = "STOPPED" => mCameraFrameReady = "no"

FrameInv ==
    /\ shown <= produced
    /\ \A i \in {0, 1} : chain[i] <= produced
    /\ mCameraFrameReady = "yes" =>
          chain[mChainIdx] = produced /\ shown < produced /\ listener = "started"
    /\ worker = "test" => shown < chain[1 - mChainIdx] /\ listener = "started"
    /\ worker = "test" /\ mCameraFrameReady = "yes" => chain[1 - mChainIdx] < produced

IInv ==
    /\ TypeOK
    /\ UIInv
    /\ WorkerHasResources
    /\ StoppedHoldsNothing
    /\ FrameInv
    /\ FrameIntact

\* Every step keeps the inductive invariant.
LEMMA InvStep ==
    ASSUME IInv, Next
    PROVE  IInv'
<1> USE DEF IInv, WorkerDead, UIPCs, WorkerPCs
<1>1. ASSUME NEW c \in SUBSET Conditions, Call(c) PROVE IInv'
  BY <1>1 DEF Call, checkCurrentState, cameraVars, frameVars, TypeOK, UIInv,
     WorkerHasResources, StoppedHoldsNothing, FrameInv, FrameIntact
<1>2. CASE SurfaceRestart
  BY <1>2 DEF SurfaceRestart, cameraVars, frameVars, TypeOK, UIInv,
     WorkerHasResources, StoppedHoldsNothing, FrameInv, FrameIntact
<1>3. CASE StopThread
  BY <1>3 DEF StopThread, cameraVars, frameVars, StopStates, TypeOK, UIInv,
     WorkerHasResources, StoppedHoldsNothing, FrameInv, FrameIntact
<1>4. CASE NotifyThread
  BY <1>4 DEF NotifyThread, cameraVars, frameVars, StopStates, TypeOK, UIInv,
     WorkerHasResources, StoppedHoldsNothing, FrameInv, FrameIntact
<1>5. CASE JoinThread
  BY <1>5 DEF JoinThread, cameraVars, frameVars, TypeOK, UIInv, WorkerHasResources,
     StoppedHoldsNothing, FrameInv, FrameIntact
<1>6. CASE releaseCamera
  BY <1>6 DEF releaseCamera, TypeOK, UIInv, WorkerHasResources, StoppedHoldsNothing,
     FrameInv, FrameIntact
<1>7. CASE EnterStopped
  BY <1>7, ZenonT(60) DEF EnterStopped, cameraVars, frameVars, Conditions, TypeOK, UIInv,
     WorkerHasResources, StoppedHoldsNothing, FrameInv, FrameIntact
<1>8. CASE connectCamera
  BY <1>8 DEF connectCamera, StopStates, TypeOK, UIInv, WorkerHasResources,
     StoppedHoldsNothing, FrameInv, FrameIntact
<1>9. CASE ConnectFails
  BY <1>9 DEF ConnectFails, TypeOK, UIInv, WorkerHasResources, StoppedHoldsNothing,
     FrameInv, FrameIntact
<1>10. CASE EnterStarted
  BY <1>10 DEF EnterStarted, cameraVars, frameVars, TypeOK, UIInv,
     WorkerHasResources, StoppedHoldsNothing, FrameInv, FrameIntact
<1>11. CASE onPreviewFrame
  BY <1>11 DEF onPreviewFrame, uiVars, cameraVars, TypeOK, UIInv,
     WorkerHasResources, StoppedHoldsNothing, FrameInv, FrameIntact
<1>12. CASE WorkerWaits
  BY <1>12 DEF WorkerWaits, uiVars, cameraVars, frameVars, TypeOK, UIInv,
     WorkerHasResources, StoppedHoldsNothing, FrameInv, FrameIntact
<1>13. CASE SpuriousWakeup
  BY <1>13 DEF SpuriousWakeup, uiVars, cameraVars, frameVars, TypeOK, UIInv,
     WorkerHasResources, StoppedHoldsNothing, FrameInv, FrameIntact
<1>14. CASE WorkerSwaps
  BY <1>14 DEF WorkerSwaps, uiVars, cameraVars, Acquire, StopStates, TypeOK, UIInv,
     WorkerHasResources, StoppedHoldsNothing, FrameInv, FrameIntact
<1>15. CASE WorkerSkips
  BY <1>15 DEF WorkerSkips, uiVars, cameraVars, frameVars, Acquire, StopStates,
     TypeOK, UIInv, WorkerHasResources, StoppedHoldsNothing, FrameInv, FrameIntact
<1>16. CASE WorkerTests
  BY <1>16 DEF WorkerTests, uiVars, cameraVars, TypeOK, UIInv, WorkerHasResources,
     StoppedHoldsNothing, FrameInv, FrameIntact
<1>17. CASE WorkerDelivered
  BY <1>17 DEF WorkerDelivered, uiVars, cameraVars, frameVars, TypeOK, UIInv,
     WorkerHasResources, StoppedHoldsNothing, FrameInv, FrameIntact
<1>18. CASE WorkerLoops
  BY <1>18 DEF WorkerLoops, uiVars, cameraVars, frameVars, TypeOK, UIInv,
     WorkerHasResources, StoppedHoldsNothing, FrameInv, FrameIntact
<1>19. QED
  <2>1. CASE ClientCall
    <3>1. CASE \E c \in SUBSET Conditions : Call(c)
      BY <1>1, <3>1
    <3>2. conds \in SUBSET Conditions
      BY DEF TypeOK
    <3>3. QED
      BY <1>2, <2>1, <3>1, <3>2 DEF ClientCall, enableView, disableView, surfaceChanged,
         setCameraPermissionGranted, surfaceDestroyed, Conditions
  <2>2. QED
    BY <2>1, <1>3, <1>4, <1>5, <1>6, <1>7, <1>8, <1>9, <1>10, <1>11, <1>12, <1>13,
       <1>14, <1>15, <1>16, <1>17, <1>18 DEF Next, UIStep, WorkerStep

\* The inductive invariant holds in every reachable state.
THEOREM Invariance == Spec => []IInv
<1>1. Init => IInv
  BY DEF Init, IInv, TypeOK, UIInv, WorkerHasResources, StoppedHoldsNothing, FrameInv,
     FrameIntact, WorkerDead, UIPCs, WorkerPCs, StopStates, Conditions
<1>2. IInv /\ [Next]_vars => IInv'
  <2> SUFFICES ASSUME IInv, [Next]_vars PROVE IInv'
    OBVIOUS
  <2>1. CASE UNCHANGED vars
    BY <2>1 DEF vars, uiVars, cameraVars, frameVars, IInv, TypeOK, UIInv,
       WorkerHasResources, StoppedHoldsNothing, FrameInv, FrameIntact, WorkerDead
  <2>2. QED
    BY <2>1, InvStep
<1>3. QED
  BY <1>1, <1>2, PTL DEF Spec

\* Type correctness of the view, its worker and the frame chain.
THEOREM TypeCorrect == Spec => []TypeOK
<1>1. IInv => TypeOK
  BY DEF IInv
<1>2. QED
  BY <1>1, Invariance, PTL

\* onPreviewFrame() never writes the Mat that deliverAndDrawFrame() reads.
THEOREM FrameStaysIntact == Spec => []FrameIntact
<1>1. IInv => FrameIntact
  BY DEF IInv
<1>2. QED
  BY <1>1, Invariance, PTL

\* disconnectCamera() releases the camera, the Mats and the bitmap only after
\* the worker has ended, whatever the worker saw of mStopThread.
THEOREM WorkerIsSafe == Spec => []WorkerHasResources
<1>1. IInv => WorkerHasResources
  BY DEF IInv
<1>2. QED
  BY <1>1, Invariance, PTL

\* A stopped view has given everything back, so that connectCamera() never
\* opens a second camera or starts a second worker.
THEOREM StoppedIsClean == Spec => []StoppedHoldsNothing
<1>1. IInv => StoppedHoldsNothing
  BY DEF IInv
<1>2. QED
  BY <1>1, Invariance, PTL

-----------------------------------------------------------------------------
\* A step of the view is a step of FrameFeed or leaves its variables alone: the
\* two callbacks, a new frame, and the worker's decision to deliver.
LEMMA FeedStep ==
    ASSUME IInv, [Next]_vars
    PROVE  [Feed!Next]_<<listener, produced, shown>>
<1>1. CASE EnterStarted
  BY <1>1 DEF EnterStarted, frameVars, IInv, UIInv, Feed!Next, Feed!onCameraViewStarted
<1>2. CASE EnterStopped
  BY <1>2 DEF EnterStopped, frameVars, IInv, UIInv, Feed!Next, Feed!onCameraViewStopped
<1>3. CASE onPreviewFrame
  BY <1>3 DEF onPreviewFrame, uiVars, Feed!Next, Feed!Produce
<1>4. CASE WorkerTests
  <2>1. CASE shown' = chain[1 - mChainIdx]
    <3>1. chain[1 - mChainIdx] \in Nat /\ chain[1 - mChainIdx] <= produced
      BY DEF IInv, TypeOK, FrameInv
    <3>2. shown' \in (shown + 1)..produced
      BY <1>4, <2>1, <3>1 DEF WorkerTests, IInv, TypeOK, FrameInv
    <3>3. QED
      BY <1>4, <3>2 DEF WorkerTests, uiVars, IInv, FrameInv, Feed!Next, Feed!onCameraFrame
  <2>2. CASE UNCHANGED shown
    BY <1>4, <2>2 DEF WorkerTests, uiVars
  <2>3. QED
    BY <1>4, <2>1, <2>2 DEF WorkerTests
<1>5. CASE ClientCall
  BY <1>5 DEF ClientCall, enableView, disableView, setCameraPermissionGranted,
     surfaceChanged, surfaceDestroyed, SurfaceRestart, Call, frameVars
<1>6. CASE StopThread \/ NotifyThread \/ JoinThread \/ releaseCamera
  BY <1>6 DEF StopThread, NotifyThread, JoinThread, releaseCamera, frameVars
<1>7. CASE connectCamera \/ ConnectFails
  BY <1>7 DEF connectCamera, ConnectFails
<1>8. CASE WorkerWaits \/ WorkerSwaps \/ WorkerSkips \/ WorkerDelivered \/ WorkerLoops
             \/ SpuriousWakeup
  BY <1>8 DEF WorkerWaits, WorkerSwaps, WorkerSkips, WorkerDelivered, WorkerLoops,
     SpuriousWakeup, uiVars, frameVars
<1>9. CASE UNCHANGED vars
  BY <1>9 DEF vars, uiVars, frameVars
<1>10. QED
  BY <1>1, <1>2, <1>3, <1>4, <1>5, <1>6, <1>7, <1>8, <1>9 DEF Next, UIStep, WorkerStep

\* The camera view implements FrameFeed: frames reach the listener only between
\* onCameraViewStarted() and onCameraViewStopped(), in order and at most once.
THEOREM Refinement == Spec => FeedSpec
<1>1. Init => Feed!Init
  BY DEF Init, Feed!Init
<1>2. IInv /\ [Next]_vars => [Feed!Next]_<<listener, produced, shown>>
  BY FeedStep
<1>3. QED
  BY <1>1, <1>2, Invariance, PTL DEF Spec, FeedSpec, Feed!Spec

-----------------------------------------------------------------------------
(***************************************************************************)
(* Why join() ends, without fairness: the worker being joined never waits, *)
(* and each of its steps brings it nearer to its end.                      *)
(***************************************************************************)

\* No wake-up of the worker is lost: it is not left waiting in the monitor with
\* a frame ready, nor with the UI thread in mThread.join(), by which time
\* mStopThread will be read as true at its next entry into the monitor.
NoLostWakeUp ==
    /\ mCameraFrameReady = "yes" => worker # "wait"
    /\ ui = "join" => worker # "wait" /\ mStopThread \in {"sent", "seen"}

\* The steps that a worker told to stop has left at most, before its run()
\* ends.  Entering the monitor it comes to see mStopThread; until then it may
\* read the old value and go around once more.
StepsLeft ==
    IF WorkerDead THEN 0
    ELSE IF worker = "sync" THEN 4
    ELSE (IF mStopThread = "seen" THEN 0 ELSE 4)
         + (IF worker = "test" THEN 3 ELSE IF worker = "deliver" THEN 2 ELSE 1)

\* While the UI thread is in join(), every step of the view is one of the
\* worker that leaves it fewer steps to take, or is the return of join().
JoinComesNearer ==
    [][ui = "join" => (StepsLeft' < StepsLeft /\ ui' = ui) \/ JoinThread]_vars

\* Every step keeps the wake-ups: only wait() makes the worker wait, which it
\* calls with no frame ready and mStopThread not yet notified.
LEMMA WakeUpStep ==
    ASSUME IInv, NoLostWakeUp, [Next]_vars
    PROVE  NoLostWakeUp'
<1> USE DEF NoLostWakeUp
<1>1. CASE ClientCall
  BY <1>1 DEF ClientCall, enableView, disableView, setCameraPermissionGranted,
     surfaceChanged, surfaceDestroyed, SurfaceRestart, Call, checkCurrentState, frameVars
<1>2. CASE onPreviewFrame
  BY <1>2 DEF onPreviewFrame, uiVars
<1>3. CASE NotifyThread
  BY <1>3 DEF NotifyThread, frameVars
<1>4. CASE StopThread \/ JoinThread \/ EnterStarted
  BY <1>4 DEF StopThread, JoinThread, EnterStarted, frameVars
<1>5. CASE EnterStopped
  BY <1>5 DEF EnterStopped, frameVars
<1>6. CASE releaseCamera \/ connectCamera \/ ConnectFails
  BY <1>6 DEF releaseCamera, connectCamera, ConnectFails
<1>7. CASE WorkerWaits
  BY <1>7 DEF WorkerWaits, InMonitorMayReadFalse, uiVars, frameVars
<1>8. CASE WorkerSwaps \/ WorkerSkips
  BY <1>8 DEF WorkerSwaps, WorkerSkips, Acquire, uiVars, frameVars
<1>9. CASE WorkerTests \/ WorkerDelivered \/ WorkerLoops \/ SpuriousWakeup
  BY <1>9 DEF WorkerTests, WorkerDelivered, WorkerLoops, SpuriousWakeup, uiVars, frameVars
<1>10. CASE UNCHANGED vars
  BY <1>10 DEF vars, uiVars, frameVars
<1>11. QED
  BY <1>1, <1>2, <1>3, <1>4, <1>5, <1>6, <1>7, <1>8, <1>9, <1>10
  DEF Next, UIStep, WorkerStep

\* No wake-up of the worker is lost, whenever disconnectCamera() and
\* onPreviewFrame() notify it: between its test of the two flags and its
\* wait(), while it delivers, or after it has seen mStopThread.
THEOREM WakeUpsAreNotLost == Spec => []NoLostWakeUp
<1>1. Init => NoLostWakeUp
  BY DEF Init, NoLostWakeUp
<1>2. QED
  BY <1>1, WakeUpStep, Invariance, PTL DEF Spec

\* A step taken while the UI thread is in join() brings the worker nearer to
\* its end, unless it is the return of join().
LEMMA JoinStep ==
    ASSUME IInv, NoLostWakeUp, Next, ui = "join"
    PROVE  (StepsLeft' < StepsLeft /\ ui' = ui) \/ JoinThread
<1> USE DEF StepsLeft, WorkerDead
<1>0. mStopThread \in {"sent", "seen"} /\ worker \in WorkerPCs \ {"wait"}
  BY DEF IInv, TypeOK, NoLostWakeUp
<1>1. CASE WorkerSwaps \/ WorkerSkips
  <2>1. ui' = ui /\ mStopThread' = "seen" /\ worker = "sync" /\ worker' \in {"test", "while"}
    BY <1>0, <1>1 DEF WorkerSwaps, WorkerSkips, Acquire, uiVars
  <2>2. StepsLeft = 4 /\ StepsLeft' \in {1, 3}
    BY <2>1
  <2>3. QED
    BY <2>1, <2>2
<1>2. CASE WorkerTests
  BY <1>0, <1>2 DEF WorkerTests, MayReadFalse, uiVars
<1>3. CASE WorkerDelivered
  BY <1>0, <1>3 DEF WorkerDelivered, uiVars
<1>4. CASE WorkerLoops
  BY <1>0, <1>4 DEF WorkerLoops, MayReadFalse, uiVars
<1>5. ~WorkerWaits /\ ~SpuriousWakeup
  BY <1>0 DEF WorkerWaits, InMonitorMayReadFalse, SpuriousWakeup
<1>6. ~ClientCall /\ ~onPreviewFrame
  BY DEF ClientCall, enableView, disableView, setCameraPermissionGranted,
     surfaceChanged, surfaceDestroyed, SurfaceRestart, Call, onPreviewFrame
<1>7. UIStep => JoinThread
  BY DEF UIStep, StopThread, NotifyThread, releaseCamera, EnterStopped, connectCamera,
     ConnectFails, EnterStarted
<1>8. QED
  BY <1>1, <1>2, <1>3, <1>4, <1>5, <1>6, <1>7 DEF Next, WorkerStep

\* While disconnectCamera() is in mThread.join() nothing but the worker runs,
\* and it has at most seven steps left: it cannot go around its loop for ever.
THEOREM JoinIsReached == Spec => JoinComesNearer
<1>1. IInv /\ NoLostWakeUp /\ [Next]_vars
        => [ui = "join" => (StepsLeft' < StepsLeft /\ ui' = ui) \/ JoinThread]_vars
  BY JoinStep
<1>2. QED
  BY <1>1, Invariance, WakeUpsAreNotLost, PTL DEF Spec, JoinComesNearer

-----------------------------------------------------------------------------
(***************************************************************************)
(* Liveness.  The two leads-to properties follow from FairSpec and from    *)
(* StepsEnabled, which takes the place of the meaning of ENABLED in the    *)
(* proofs: it is the one fact about fairness that the provers cannot       *)
(* establish.  The UI thread goes around its sequence of places; in join() *)
(* it waits for StepsLeft to come down.                                    *)
(***************************************************************************)
LiveInv == IInv /\ NoLostWakeUp

\* disconnectCamera() after it has set mStopThread.
Stopping == ui \in {"notify", "join", "release"}

\* Where the UI thread goes from where it is.
UIMoves ==
    /\ ui = "stop" => ui' = "notify"
    /\ ui = "notify" => ui' = "join"
    /\ ui = "join" => ui' = "release"
    /\ ui = "release" => ui' = "stopped" /\ mCameraFrameReady' = "no"
    /\ ui = "stopped" => ui' \in {"connect", "idle"}
    /\ ui = "connect" => ui' = "started"
    /\ ui = "started" => ui' = "idle"

\* Inside a call only the UI thread's own steps move it.
LEMMA UIOnlyMovesItself ==
    ASSUME [Next]_vars, ui # "idle"
    PROVE  ui' = ui \/ UIStep
<1>1. CASE ClientCall \/ onPreviewFrame
  BY <1>1 DEF ClientCall, enableView, disableView, setCameraPermissionGranted,
     surfaceChanged, surfaceDestroyed, SurfaceRestart, Call, onPreviewFrame
<1>2. CASE WorkerStep \/ SpuriousWakeup
  BY <1>2 DEF WorkerStep, WorkerWaits, WorkerSwaps, WorkerSkips, WorkerTests,
     WorkerDelivered, WorkerLoops, SpuriousWakeup, uiVars
<1>3. CASE UNCHANGED vars
  BY <1>3 DEF vars, uiVars
<1>4. QED
  BY <1>1, <1>2, <1>3 DEF Next

\* A step of the UI thread takes it to the next place.
LEMMA UIStepMoves ==
    ASSUME UIStep
    PROVE  UIMoves
BY DEF UIMoves, UIStep, StopThread, NotifyThread, JoinThread, releaseCamera,
   EnterStopped, connectCamera, ConnectFails, EnterStarted

\* The facts about the reachable states that the liveness proofs use.
LEMMA LiveInvariance == Spec => []LiveInv
BY Invariance, WakeUpsAreNotLost, PTL DEF LiveInv

\* The UI thread in join(), with at most k steps of the worker to wait for.
JoinWithin(k) == ui = "join" /\ StepsLeft <= k

\* With j steps to wait for, join() returns or there are only k.
Nearer(j, k) == JoinWithin(j) ~> (JoinWithin(k) \/ ui = "release")

\* The worker being joined takes its next step, which is one step fewer.
LEMMA JoinApproaches ==
    ASSUME NEW k \in 0..6, NEW j \in 1..7, j = k + 1
    PROVE  FairSpec /\ []StepsEnabled => Nearer(j, k)
<1> DEFINE P == JoinWithin(j) /\ ~JoinWithin(k)
           Q == JoinWithin(k) \/ ui = "release"
<1>0. ASSUME LiveInv
      PROVE  StepsLeft \in 0..7 /\ (StepsLeft = 0 <=> WorkerDead)
  BY <1>0 DEF LiveInv, IInv, TypeOK, WorkerPCs, StepsLeft, WorkerDead
<1>1. ASSUME LiveInv, P PROVE WorkerCanStep
  BY <1>0, <1>1 DEF WorkerCanStep, JoinWithin, LiveInv, NoLostWakeUp
<1>2. ASSUME LiveInv, LiveInv', P, Next PROVE Q'
  <2>1. (StepsLeft' < StepsLeft /\ ui' = ui) \/ JoinThread
    BY <1>2, JoinStep DEF LiveInv, JoinWithin
  <2>2. CASE JoinThread
    BY <2>2 DEF JoinThread
  <2>3. CASE StepsLeft' < StepsLeft /\ ui' = ui
    <3>1. StepsLeft \in 0..7 /\ StepsLeft' \in 0..7
      BY <1>0, <1>2, InvStep, WakeUpStep DEF LiveInv, StepsLeft, WorkerDead
    <3>2. QED
      BY <1>2, <2>3, <3>1 DEF JoinWithin
  <2>4. QED
    BY <2>1, <2>2, <2>3
<1>3. ASSUME P, UNCHANGED vars PROVE P'
  BY <1>3 DEF vars, uiVars, JoinWithin, StepsLeft, WorkerDead
<1>4. WorkerStep => Next
  BY DEF Next
<1>5. JoinWithin(j) <=> P \/ (JoinWithin(j) /\ JoinWithin(k))
  OBVIOUS
<1> HIDE DEF P, Q
<1>6. LiveInv /\ LiveInv' /\ P /\ [Next]_vars => P' \/ Q'
  BY <1>2, <1>3
<1>7. LiveInv /\ LiveInv' /\ P /\ <<WorkerStep>>_vars => Q'
  BY <1>2, <1>4
<1>8. LiveInv /\ P => WorkerCanStep
  BY <1>1
<1>9. FairSpec /\ []StepsEnabled => (P ~> Q)
  BY <1>6, <1>7, <1>8, LiveInvariance, PTL DEF FairSpec, Spec, StepsEnabled
<1>10. JoinWithin(j) => P \/ Q
  BY <1>5 DEF P, Q
<1>11. Q => JoinWithin(k) \/ ui = "release"
  BY DEF Q
<1>12. QED
  BY <1>9, <1>10, <1>11, PTL DEF Nearer

\* The UI thread in mThread.join() gets out of it.
LEMMA JoinReturns == FairSpec /\ []StepsEnabled => (ui = "join" ~> ui = "release")
<1>1. FairSpec /\ []StepsEnabled => Nearer(7, 6) /\ Nearer(6, 5) /\ Nearer(5, 4)
                                   /\ Nearer(4, 3) /\ Nearer(3, 2) /\ Nearer(2, 1)
                                   /\ Nearer(1, 0)
  BY JoinApproaches
<1>2. LiveInv /\ ui = "join" => JoinWithin(7)
  BY DEF LiveInv, IInv, TypeOK, WorkerPCs, StepsLeft, WorkerDead, JoinWithin
<1>3. LiveInv /\ JoinWithin(0) => ui = "join" /\ UICanStep
  <2> SUFFICES ASSUME LiveInv, JoinWithin(0) PROVE WorkerDead
    BY DEF JoinWithin, UICanStep
  <2>1. QED
    BY DEF LiveInv, IInv, TypeOK, WorkerPCs, StepsLeft, WorkerDead, JoinWithin
<1>4. LiveInv /\ JoinWithin(0) /\ [Next]_vars => JoinWithin(0)' \/ (ui = "release")'
  <2> SUFFICES ASSUME LiveInv, JoinWithin(0), [Next]_vars
               PROVE  JoinWithin(0)' \/ ui' = "release"
    OBVIOUS
  <2>1. CASE Next
    <3>1. (StepsLeft' < StepsLeft /\ ui' = ui) \/ JoinThread
      BY <2>1, JoinStep DEF LiveInv, JoinWithin
    <3>2. StepsLeft = 0 /\ StepsLeft' \in Nat
      BY DEF LiveInv, IInv, TypeOK, WorkerPCs, StepsLeft, WorkerDead, JoinWithin
    <3>3. QED
      BY <3>1, <3>2 DEF JoinThread
  <2>2. CASE UNCHANGED vars
    BY <2>2 DEF vars, uiVars, JoinWithin, StepsLeft, WorkerDead
  <2>3. QED
    BY <2>1, <2>2
<1>5. ui = "join" /\ <<UIStep>>_vars => (ui = "release")'
  BY UIStepMoves DEF UIMoves
<1>6. FairSpec /\ []StepsEnabled => (JoinWithin(0) ~> ui = "release")
  BY <1>3, <1>4, <1>5, LiveInvariance, PTL DEF FairSpec, Spec, StepsEnabled
<1>7. QED
  BY <1>1, <1>2, <1>6, LiveInvariance, PTL DEF FairSpec, Nearer

\* What every call does next, wherever the UI thread is outside join(): the
\* places of the stop and of the start follow each other.
LEMMA UIGoesOn ==
    FairSpec /\ []StepsEnabled =>
        /\ ui = "stop" ~> ui = "notify"
        /\ ui = "notify" ~> ui = "join"
        /\ ui = "release" ~> ui = "stopped"
        /\ ui = "stopped" ~> (ui = "connect" \/ ui = "idle")
        /\ ui = "connect" ~> ui = "started"
        /\ ui = "started" ~> ui = "idle"
<1> DEFINE Step(p, q) ==
        /\ ui = p /\ [Next]_vars => (ui = p)' \/ q'
        /\ ui = p /\ <<UIStep>>_vars => q'
        /\ ui = p => UICanStep
<1>1. Step("stop", ui = "notify")
  BY UIOnlyMovesItself, UIStepMoves DEF UIMoves, UICanStep
<1>2. Step("notify", ui = "join")
  BY UIOnlyMovesItself, UIStepMoves DEF UIMoves, UICanStep
<1>3. Step("release", ui = "stopped")
  BY UIOnlyMovesItself, UIStepMoves DEF UIMoves, UICanStep
<1>4. Step("stopped", ui = "connect" \/ ui = "idle")
  BY UIOnlyMovesItself, UIStepMoves DEF UIMoves, UICanStep
<1>5. Step("connect", ui = "started")
  BY UIOnlyMovesItself, UIStepMoves DEF UIMoves, UICanStep
<1>6. Step("started", ui = "idle")
  BY UIOnlyMovesItself, UIStepMoves DEF UIMoves, UICanStep
<1>7. QED
  BY <1>1, <1>2, <1>3, <1>4, <1>5, <1>6, PTL DEF FairSpec, Spec, StepsEnabled

\* Every call on the UI thread returns, for any number of frames and whatever
\* the worker reads of mStopThread; in particular mThread.join() always ends.
THEOREM CallsDoReturn == FairSpec /\ []StepsEnabled => CallsReturn
<1>1. LiveInv => \/ ui = "idle" \/ ui = "stop" \/ ui = "notify" \/ ui = "join"
                 \/ ui = "release" \/ ui = "stopped" \/ ui = "connect"
                 \/ ui = "started"
  BY DEF LiveInv, IInv, TypeOK, UIPCs
<1>2. QED
  BY <1>1, JoinReturns, UIGoesOn, LiveInvariance, PTL DEF FairSpec, CallsReturn

-----------------------------------------------------------------------------
\* While the camera previews and no stop is under way, the worker is alive and
\* reads mStopThread as false; and only such a camera has a frame ready.
PreviewRuns ==
    /\ camera = "preview" /\ ~Stopping => mStopThread = "clear" /\ ~WorkerDead
    /\ mCameraFrameReady = "yes" => camera = "preview"

\* Every step keeps it: only disconnectCamera() sets mStopThread, which only
\* connectCamera() clears, and a worker that reads false does not end.
LEMMA PreviewStep ==
    ASSUME IInv, PreviewRuns, [Next]_vars
    PROVE  PreviewRuns'
<1> USE DEF PreviewRuns, Stopping, WorkerDead
<1>1. CASE ClientCall
  BY <1>1 DEF ClientCall, enableView, disableView, setCameraPermissionGranted,
     surfaceChanged, surfaceDestroyed, SurfaceRestart, Call, checkCurrentState,
     cameraVars, frameVars
<1>2. CASE onPreviewFrame
  BY <1>2 DEF onPreviewFrame, uiVars, cameraVars
<1>3. CASE NotifyThread \/ StopThread \/ JoinThread
  BY <1>3 DEF NotifyThread, StopThread, JoinThread, cameraVars, frameVars
<1>4. CASE EnterStarted
  BY <1>4 DEF EnterStarted, cameraVars, frameVars
<1>5. CASE EnterStopped
  BY <1>5 DEF EnterStopped, cameraVars, frameVars
<1>6. CASE releaseCamera \/ connectCamera
  BY <1>6 DEF releaseCamera, connectCamera
<1>7. CASE ConnectFails
  BY <1>7 DEF ConnectFails, IInv, UIInv
<1>8. CASE WorkerWaits \/ WorkerSwaps \/ WorkerSkips
  BY <1>8 DEF WorkerWaits, WorkerSwaps, WorkerSkips, Acquire, uiVars, cameraVars,
     frameVars
<1>9. CASE WorkerTests \/ WorkerDelivered \/ SpuriousWakeup
  BY <1>9 DEF WorkerTests, WorkerDelivered, SpuriousWakeup, uiVars, cameraVars, frameVars
<1>10. CASE WorkerLoops
  BY <1>10 DEF WorkerLoops, MayReadTrue, uiVars, cameraVars, frameVars
<1>11. CASE UNCHANGED vars
  BY <1>11 DEF vars, uiVars, cameraVars, frameVars
<1>12. QED
  BY <1>1, <1>2, <1>3, <1>4, <1>5, <1>6, <1>7, <1>8, <1>9, <1>10, <1>11
  DEF Next, UIStep, WorkerStep

\* A camera that previews always has a worker to take its frames, until
\* disconnectCamera() tells that worker to stop.
THEOREM PreviewHasWorker == Spec => []PreviewRuns
<1>1. Init => PreviewRuns
  BY DEF Init, PreviewRuns
<1>2. QED
  BY <1>1, PreviewStep, Invariance, PTL DEF Spec

\* A frame is ready, no stop is under way, and the worker is at place w.
Pending(w) == mCameraFrameReady = "yes" /\ ~Stopping /\ worker = w

\* With a frame ready, a step leaves the worker where it is, is one of the
\* worker's, takes the frame or begins a stop.
LEMMA PendingStep ==
    ASSUME LiveInv, PreviewRuns, NEW w, Pending(w), [Next]_vars
    PROVE  Pending(w)' \/ mCameraFrameReady' = "no" \/ Stopping' \/ WorkerStep
<1> USE DEF Pending
<1>1. CASE ClientCall
  BY <1>1 DEF ClientCall, enableView, disableView, setCameraPermissionGranted,
     surfaceChanged, surfaceDestroyed, SurfaceRestart, Call, checkCurrentState,
     frameVars, Stopping
<1>2. CASE onPreviewFrame
  BY <1>2 DEF onPreviewFrame, uiVars, Stopping, LiveInv, NoLostWakeUp
<1>3. CASE StopThread \/ NotifyThread \/ JoinThread
  BY <1>3 DEF StopThread, NotifyThread, JoinThread, Stopping
<1>4. CASE releaseCamera \/ connectCamera \/ EnterStopped \/ ConnectFails
  BY <1>4 DEF releaseCamera, connectCamera, EnterStopped, ConnectFails, Stopping,
     LiveInv, IInv, UIInv
<1>5. CASE EnterStarted
  BY <1>5 DEF EnterStarted, frameVars, Stopping
<1>6. CASE SpuriousWakeup
  BY <1>6 DEF SpuriousWakeup, LiveInv, NoLostWakeUp
<1>7. CASE UNCHANGED vars
  BY <1>7 DEF vars, uiVars, frameVars, Stopping
<1>8. QED
  BY <1>1, <1>2, <1>3, <1>4, <1>5, <1>6, <1>7 DEF Next, UIStep

\* The worker's step with a frame ready and no stop under way.
LEMMA PendingMoves ==
    ASSUME LiveInv, PreviewRuns, NEW w, Pending(w), WorkerStep
    PROVE  /\ w = "test" => Pending("deliver")' \/ Pending("while")'
           /\ w = "deliver" => Pending("while")'
           /\ w = "while" => Pending("sync")'
           /\ w = "sync" => mCameraFrameReady' = "no"
<1>1. mStopThread = "clear" /\ worker = w /\ mCameraFrameReady = "yes" /\ ~Stopping
  BY DEF PreviewRuns, Pending
<1>2. QED
  BY <1>1 DEF WorkerStep, WorkerWaits, WorkerSwaps, WorkerSkips, WorkerTests,
     WorkerDelivered, WorkerLoops, MayReadTrue, Pending, Stopping, uiVars, frameVars

\* A frame in the chain is taken by the worker or thrown away by a stop, for
\* any number of frames: the flag of onPreviewFrame() never stays set.
THEOREM FrameDoesGo == FairSpec /\ []StepsEnabled => FrameIsTaken
<1> DEFINE Inv  == LiveInv /\ PreviewRuns
           Gone == mCameraFrameReady = "no" \/ Stopping
<1>1. Spec => []Inv
  BY LiveInvariance, PreviewHasWorker, PTL
<1>2. ASSUME NEW w \in {"sync", "test", "deliver", "while"}
      PROVE  /\ Inv /\ Pending(w) /\ [Next]_vars => Pending(w)' \/ Gone' \/ <<WorkerStep>>_vars
             /\ Inv /\ Pending(w) => WorkerCanStep
  <2>1. Pending(w) => WorkerCanStep
    BY DEF Pending, WorkerCanStep, WorkerDead
  <2>2. ASSUME UNCHANGED vars, Pending(w) PROVE Pending(w)'
    BY <2>2 DEF vars, uiVars, frameVars, Pending, Stopping
  <2>3. QED
    BY <2>1, <2>2, PendingStep
<1>3. /\ Inv /\ Pending("test") /\ <<WorkerStep>>_vars
           => Pending("deliver")' \/ Pending("while")'
      /\ Inv /\ Pending("deliver") /\ <<WorkerStep>>_vars => Pending("while")'
      /\ Inv /\ Pending("while") /\ <<WorkerStep>>_vars => Pending("sync")'
      /\ Inv /\ Pending("sync") /\ <<WorkerStep>>_vars => Gone'
  BY PendingMoves
<1>4. Inv /\ mCameraFrameReady = "yes" =>
        Gone \/ Pending("sync") \/ Pending("test") \/ Pending("deliver") \/ Pending("while")
  BY DEF LiveInv, IInv, TypeOK, WorkerPCs, NoLostWakeUp, PreviewRuns, Pending, WorkerDead
<1>5. Stopping => ui = "notify" \/ ui = "join" \/ ui = "release"
  BY DEF Stopping
<1>6. Inv /\ ui = "stopped" => mCameraFrameReady = "no"
  BY DEF LiveInv, IInv, UIInv
<1>7. Inv => mCameraFrameReady = "yes" \/ mCameraFrameReady = "no"
  BY DEF LiveInv, IInv, TypeOK
<1>8. FairSpec /\ []StepsEnabled => (Stopping ~> mCameraFrameReady = "no")
  BY <1>1, <1>5, <1>6, JoinReturns, UIGoesOn, PTL DEF FairSpec
<1> HIDE DEF Inv
<1>9. FairSpec /\ []StepsEnabled => /\ Pending("sync") ~> Gone
                                    /\ Pending("while") ~> (Pending("sync") \/ Gone)
                                    /\ Pending("deliver") ~> (Pending("while") \/ Gone)
                                    /\ Pending("test") ~>
                                         (Pending("deliver") \/ Pending("while") \/ Gone)
  <2>1. /\ Inv /\ Pending("sync") /\ [Next]_vars
             => Pending("sync")' \/ Gone' \/ <<WorkerStep>>_vars
        /\ Inv /\ Pending("while") /\ [Next]_vars
             => Pending("while")' \/ Gone' \/ <<WorkerStep>>_vars
        /\ Inv /\ Pending("deliver") /\ [Next]_vars
             => Pending("deliver")' \/ Gone' \/ <<WorkerStep>>_vars
        /\ Inv /\ Pending("test") /\ [Next]_vars
             => Pending("test")' \/ Gone' \/ <<WorkerStep>>_vars
    BY <1>2
  <2>2. /\ Inv /\ Pending("sync") => WorkerCanStep
        /\ Inv /\ Pending("while") => WorkerCanStep
        /\ Inv /\ Pending("deliver") => WorkerCanStep
        /\ Inv /\ Pending("test") => WorkerCanStep
    BY <1>2
  <2>3. QED
    BY <1>1, <1>3, <2>1, <2>2, PTL DEF FairSpec, Spec, StepsEnabled
<1>10. QED
  BY <1>1, <1>4, <1>7, <1>8, <1>9, PTL DEF FairSpec, FrameIsTaken

=============================================================================
