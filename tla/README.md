# Verification of the controller application

TLA+ models of the Android application in `src/controller`: a camera view feeds
frames to a native library that tracks green blobs and estimates a pose, an
OpenGL view draws it, a neural network is loaded on a touch, and a Bluetooth
service talks to the controller device. `J/` below is
`src/controller/app/src/main/java/com/opencv/controller/`, `C/` is
`src/controller/app/src/main/cpp/` and `V/` is
`src/controller/extern_modules/opencv/java/src/org/opencv/android/`.

## The system

| part | source | threads | module |
|---|---|---|---|
| Bluetooth connection manager | `J/BluetoothService.java` | client, AcceptThread, ConnectThread, ConnectedThread | `BluetoothService`, `LinkManager` |
| camera view | `V/CameraBridgeViewBase.java`, `V/JavaCameraView.java` | UI, CameraWorker | `CameraView`, `FrameFeed` |
| permissions, lifecycle, file tasks | `J/MainActivity.java`, `J/PermissionSupport.java`, `J/MyGLSurfaceView.java` | main, AsyncTask executor | `FileTask` |
| neural network | `C/tflite_obj.cpp`, `C/native-lib.cpp` | executor, camera | `FileTask` |
| blob detection and pose | `C/detect_obj.cpp`, `C/point_tracker.cpp`, `C/native-lib.cpp`, `MainActivity.onCameraFrame` | camera | `PoseTracker` |
| text views and OpenGL drawing | `J/MainActivity.java`, `J/MyGLRenderer.java`, `J/MyGLSurfaceView.java` | camera, one per frame, UI, GL | `Display` |
| device list | `J/DeviceListActivity.java` | main | `DeviceList` |
| sensors | `J/MySensor.java` | never registered | not modelled |

The camera view's worker thread calls `onCameraFrame()`, which runs the whole
native pipeline and hands the matrix to the renderer. `CameraView` shows when
that callback can run; `FrameFeed` is the part of this that the listener may
rely on; `Display` is composed with `FrameFeed` and follows a frame from the
callback to what the user sees; `PoseTracker` is the native part of one callback,
in steps; `FileTask` has the callback
only as the inference it may run, and takes from `CameraView` that
`disableView()` returns after the worker has ended (`CallsReturn`,
`WorkerHasResources`).

## Modules

### BluetoothService

Sockets, with the ConnectThread and the ConnectedThread that own them, are
numbered in the order of creation; so are AcceptThreads. The four fields of the
class keep their names. `ct`, `cd` and `at` say where each thread is in `run()`.
A `synchronized` method never blocks, so it is one action (`start`, `connect`,
`connected`, `stop`); whatever a thread does outside the monitor is a step of its
own: the two halves of `write()` (`WriteCopy`, `WriteOut`), the reset of
`mConnectThread` and the later `connected()` (`ResetConnectThread`,
`ConnectThreadConnected`), a caught IOException and the `start()` that follows it
(`connectionFailed`/`FailedClose`/`FailedStart`, `connectionLost`/`LostStart`).
Constructors that catch an IOException leave a null socket or stream, and the
uncaught exception that follows ends the process (`died`). The peer may connect,
fail and go away at any time.

### LinkManager

What the service promises about its sockets, without threads, states or locks:
each is made once, is served at most once and, closed, stays closed; a socket that
comes to be served closes the one that was. `BluetoothService` implements it under
the mapping `link`, which reads "open", "serving" and "closed" off the sockets and
the ConnectedThreads.

### CameraView and FrameFeed

`CameraView` has the UI thread (client calls, surface callbacks,
`onPreviewFrame()`) and the worker. `conds` is the set of conditions that
`checkCurrentState()` tests; `ui` and `worker` are program counters. The frame
chain holds frame numbers. `mStopThread` is a plain field written outside the
monitor: four values say what the worker may read (`StopStates`). `wait()` may
wake spuriously. The choice of preview size and format in `initializeCamera()` is
reduced to whether, and where, it fails. `FrameFeed` is the abstract listener
contract, implemented under `feed <- listener, newest <- produced`.

### FileTask

`looper` is the main thread's message queue, in order. The GL view and every
permission result construct a `MainActivity` of their own, so the static fields
(`mTouchStatus`, `init_done`, `progressDialog`) are shared and `fileCopyTask` is
not: only tasks of the GL view cancel each other. `stat` is the life of each
AsyncTask (queued, running, posted, finished); `cancel(true)` makes a queued task
post its result and interrupts a running one, whose `FileChannel.map()` then
throws. `tflite_load_model()` is three steps (`BuildModel`, `BuildInterpreter`,
`AllocateTensors`); a failed `TFLITE_MINIMAL_CHECK` exits the process. The camera
thread's inference has a beginning and an end. Process death keeps the storage
and the granted permissions (`Killed`, `Restart`).

### PoseTracker

Rotations and translations are named by the number of the frame they were solved
in, 0 being identity or zero. A frame goes through `ConvertRGBtoGray` (with
`detect_points`), one branch of `estimate_pose` and `Publish`. Points are integer
coordinates; the distance is the squared distance times the squared number of
points, which orders them alike. `std::sort` is any permutation the comparator
accepts as sorted, so an incomplete comparator shows up as nondeterminism.
`info` is passed by value but its matrix shares its data: `infoR` is that data.
`MCPoseTracker` gives the contours for model checking.

### Display

A value is named by the number of the frame that wrote it. The camera thread
fills `cInfo`, `gRMat` and `native_info`, starts a thread for the frame and, after
a detection, copies the matrix into the renderer's (`setRMatCameraOne`,
`CopyTranslation`: an array copy is not atomic, and two halves are enough to see
that). The frame's thread posts a runnable (`runOnUiThread`); the UI thread reads
the fields when the runnable runs (`BeginRunnable`, `Show`). Nothing orders this
read with the camera thread's writes for the next frame, so it gives any value
from the one that `Thread.start()` and the message queue make visible (`known`)
to the current one. The GL thread reads the matrix twice for a picture, each time
in two halves; `multiplyMM()` is native code, so it loads what memory holds.
`onPause()` waits for the camera thread, then for the GL thread. When the view
starts and stops the feed, and which frame it delivers, are the actions of
`FrameFeed`, which `CameraView` implements: this is where the components meet.

### DeviceList

The rows of the two lists, the adapter's discovery and its broadcasts, and the
result of a tap. A row is a device or one of the two string resources for "no
device", of which only the length matters. The adapter and pairing are external:
a discovery may run already, and a device may be paired, at any time. Nothing calls
`scanDevices()`, which opens the list, at present.

## Runs

| run | bound | states | shows |
|---|---|---|---|
| `bt_safety` | 2 sockets, 3 listeners, 3 client start/stop | 686,878 | no socket or listener leaks (`OpenSocketIsOwned`, `OneListener`), `write()` meets no null thread (`NullOnlyFromConstructor`), LISTEN has a thread behind it, no thread is stuck in its `run()` (`StepsEnabled`) |
| `bt_liveness` | 2 sockets, 4 listeners | all | the service implements `LinkManager` (`ManagerSpec`); `ConnectingEnds`, `LostIsNoticed`, `CancelledAcceptEnds` |
| `bt_stop` | 2, 2, 1 | violation | after `stop()` the cancelled threads call `start()` again |
| `bt_listen` | 2, 2, 1 | violation | an `accept()` that fails leaves STATE_LISTEN with no listener |
| `camera_view` | 4 frames | 11,370 | the Mat being delivered is never written (`FrameIntact`), nothing is released under the worker, a stopped view holds nothing, neither thread is stuck (`StepsEnabled`), the view implements `FrameFeed`, calls return, frames are taken |
| `camera_preview` | 1 frame | violation | `onCameraViewStarted()` without a preview |
| `file_tasks` | 2 tasks, 2 files | 110,580 | the dialog ends with the tasks, inference only in a resumed activity, whole copies stay whole, the network is never lost or replaced by an older one, every task finishes |
| `file_model` | 2 tasks, 1 file | violation | the model is destroyed under an interpreter in use |
| `file_buffer` | 2 tasks, 1 file | violation | the model's buffer may be unmapped while the model lives |
| `pose` | 3 frames, 4 contours | 38,837 | the solver's points match in number and label, labels do not depend on the order of detection, rotation and translation are of one frame, renderer and display have the newest solved pose |
| `display` | 2 frames | 74,588 | the text views end with the last frame (`TextSettles`), no picture goes back in time, no thread is stuck (`StepsEnabled`), every pose is drawn unless the activity is paused, the UI thread always comes back to its looper |
| `device_list` | 2 devices, 2 broadcasts | violation | a tap on a "no device" row gives text that is no address, or an exception |

Why the bounds are enough for what can go wrong here: two sockets are an
attempt and the attempt or the incoming connection that meets it, three listeners
let the service restart after each of them, and three calls let the client stop,
start and stop it meanwhile (the invariants other than
`StepsEnabled` were also explored with three sockets, two listeners and one call,
without an error, and are proved for any number);
four listeners let every loss restart the service; the frame chain has two Mats, so
four frames overwrite each of them twice; two tasks are a task and the one that
cancels or follows it (three tasks with two files were also explored without the
liveness property, without an error), and the assets differ only in name; three frames are
enough to make a model, solve against it and lose it, and four contours are one
more than the solver's minimum. The contours contain a tie in distance, repeated
centroids, a centroid at the origin and an area of exactly 300. Two frames let the
thread, the runnable and the picture of one frame meet the camera thread in the
next; three did not finish in ten minutes, but the safety properties of `display`
are proved for any number. `device_list` needs one tap, and its second device and
broadcast only make the lists vary.

`CHECK_DEADLOCK FALSE` is set for the Bluetooth runs, where an idle client and no
peer may stop everything, and for `pose`, where the camera may deliver no more
frames.

Each property of a passing run has a mutant: an operator in the same module, marked
`Mutant`, that changes one definition the way a plausible bug would, and under
which the property fails.

### Fairness

`bt_liveness`: every started thread is scheduled and `BluetoothSocket.connect()`
returns or throws; nothing is asked of the peer, the adapter or the client except
finishing its `write()`. `camera_view`: both threads are scheduled and
`onCameraFrame()` returns. `file_tasks`: the main thread handles its messages, the
executor runs its tasks and an inference ends. `display`: every thread that was
started goes on, the UI thread runs what is posted to it, the GL thread keeps
drawing (`RENDERMODE_CONTINUOUSLY`), and a camera thread that is told to stop does
(`CallsReturn` of `camera_view`); the camera owes no frame and the user nothing.
All of these are weak fairness of
threads that the Java scheduler runs and of loops without external waits.

The weak fairness of `CameraThreadEnds` in `display` is enough only because
`MaxFrames` ends the frames: with frames coming for ever the action is enabled
again and again, between two of them, but not all the time. The theorem
`UIDoesReturn`, which is for any number of frames, therefore assumes its strong
fairness. It is what `CallsReturn` shows of the camera view: `join()` returns,
whatever the camera does.

`StepsEnabled`, in the three modules with liveness theorems, says that the
fair actions can be taken where the code has a next step. It is the one fact about
ENABLED that the liveness proofs use, and a correctness property by itself: no
thread is ever at a place of its code from which no call returns or throws.

### Disagreements with the texts in the repository

1. `stop()` does not stop all threads for good (`J/BluetoothService.java:180`).
2. STATE_LISTEN does not imply listening (`J/BluetoothService.java:41`).
3. `onCameraViewStarted()` does not imply a preview (`V/CameraBridgeViewBase.java:123`).
4. The model does not outlive the interpreter (`interpreter.h:66`).
5. The buffer does not outlive the model (`model_builder.h:87`).
6. The last 17 characters of a row are not always an address
   (`J/DeviceListActivity.java:138`).

## Proofs

For every value of the constants, from the named assumptions on them
(`ServiceAssumption`, `CameraAssumption`, `PoseAssumption`, `DisplayAssumption`,
`TaskAssumption`):

- `BluetoothServiceProofs`: `TypeCorrect` first; then six safety invariants
  (four of `bt_safety`, `OneConnection` and `ConnectingHasAttempt`) are proved together, because they need one another: that a
  socket is owned rests on there being one connection, and `ListenHasAcceptThread`
  on where the failing threads are. `IInv` adds `Aux`, which ties the program
  counters to the sockets (a thread about to hand over a socket has one that
  exists; an object not made yet has no thread). `ServiceImplementsManager` follows
  from it, with one step per action: each opens, serves or closes a link, or leaves
  all links alone. What `LinkManager` itself implies then holds of the service:
  `ServiceServesOne` and `ServiceClosesForGood`.
- `BluetoothHandOverProofs`: `HandOver` (a socket not yet made has no thread; one
  that has a ConnectedThread has left its ConnectThread and no AcceptThread holds
  it; no two AcceptThreads hold the same; what is handed over is not null) is
  inductive with `IInv`: `SocketsAreHandedOver`. From it follows that nobody but a
  ConnectThread itself moves it, and in which steps each thread goes through its
  `run()` (`ConnectMove`, `ConnectedMove`, `AcceptMove`).
- `BluetoothLivenessProofs`: the three liveness properties, from `FairSpec` and
  `[]StepsEnabled`. `LiveInv` adds `Attempted`: STATE_CONNECTING has a ConnectThread
  that has not yet set the state, and a server socket has its thread. A null socket
  stays until the process dies of it (`NullIsFatal`). `ConnectingDoesEnd` follows one attempt from
  place to place until it calls `connected()` or `connectionFailed()`, if nobody has
  changed the state before (`AttemptsEnd`), and needs no count of the attempts that
  replace each other: any one that is left ends the state.
  `CancelledAcceptDoesEnd` and `LostDoesGetNoticed` follow the thread of one socket.
  The last assumes `[]CanStart`: that `start()` finds an AcceptThread, or the bound
  `MaxAccepts` leaves it one to make. The code has no such bound.
- `CameraViewProofs`: `IInv` adds `UIInv` (what the UI thread's place says of the
  state, the camera and the worker) and `FrameInv` (which frame is in which Mat).
  From it follow the four invariants and `Refinement`: every step of the view is a
  step of `FrameFeed` or leaves its variables alone. The safety part of
  `CallsReturn` is proved too: `WakeUpsAreNotLost` (the worker never waits with a
  frame ready or while it is being joined) and `JoinIsReached` (while the UI thread
  is in `join()`, only the worker runs and `StepsLeft`, at most 7, falls with
  every step of it). With `FairSpec` and `[]StepsEnabled` this gives
  `CallsDoReturn`. `FrameDoesGo` rests on `PreviewHasWorker`: a frame is ready only
  while the camera previews, and then the worker is alive and is not told to stop,
  or the UI thread is on its way to throw the frame away. So a frame that is ready
  meets, in at most four steps of the worker, the swap that takes it.
- `LabellingProofs`: the operators of `PoseTracker`, for points and contours of any
  number. What a loop computes needs induction, which is done on sets: a set of
  naturals that is not empty has a least member, so a set that has 0 and the
  successor of each of its members has them all (`LeastMember`, `Induction`);
  `Iteration` turns this into the existence of the function a loop fills in.
  `SumPermutation` says that a sum does not depend on the order of its terms, so
  that `avg_coord()` is the same for every order of detection. `SortExists` and
  `SortIsUnique` say that the sorting permutations of any sequence of pairs exist
  and give one result; the second rests on `ComparatorIsStrictTotalOrder` and on
  two permutations meeting (`PermutationsMeet`, a pigeonhole argument). From these
  follows `LabellingIsCanonical`. `DetectPointsFindsTheBlobs` follows the
  `push_back()` loop contour by contour.
- `PoseTrackerProofs`: `Labelled` (the image points are the labelling of the
  frame's points while they are needed, the model relabels to itself, and both
  have equally many points when the solver is called) makes `TypeOK` and
  `SolverInput` inductive; with `LabellingIsCanonical` it gives
  `LabelsAreCanonical`. `Agreement` (info.R is the identity until the solver has
  run, the renderer keeps the old pose until `Publish`) does so for
  `PoseIsOneSolve` and `RendererFollowsPose`.
- `DisplayProofs`: `Ahead` (frames come in order, so each half of the matrix only
  moves on, and nothing drawn is ahead of it) and `Paused` (the GL thread runs only
  in a resumed activity or until `onPause()` returns) make `NeverDrawnBackwards`
  inductive. `TextInv` does so for `TextSettles`: no thread or runnable knows of
  more than the current frame, and once that frame is handled either one that
  knows all of it is still to run or the UI thread knows it and has shown what its
  place in the runnable says. `OnPauseCanReturn` is the safety part of `UIReturns`:
  the UI thread joins only a camera thread of a started feed and pauses only a GL
  thread that runs, and frames are handled only between the listener's callbacks;
  `WaitInv` adds when the feed and the GL thread may be running at all.
  `PictureDoesCatchUp` follows the GL thread through the picture after the one it is
  drawing: each half it reads is at least the pose asked for, because the matrix
  only moves on. `UIDoesReturn` follows the runnable, the join and the GL pause in turn.
- `FileTaskProofs`: `Delivering` (frames are delivered only to a resumed activity
  that has its permissions, inference only while they are) gives
  `InferenceWhileResumed`. `LoadOrder` (tasks are made in order, and the model and
  the interpreter are of tasks that the executor has begun) gives
  `NewestModelWins`. `DialogEnds` is the strengthening of `DialogHiddenWhenIdle`:
  while the dialog is shown, or a message that would show it is pending, the queue
  ends with a message that hides it or a task still owes one. `WholeStaysWhole` is
  an action property that needs the types only.

Every property of a passing run has a theorem, except `StepsEnabled` and
`TasksFinish`. `TypeOK` of `Display`, `OneConnection`, `ConnectingHasAttempt`,
`HandOver`, `PreviewRuns`, `NoLostWakeUp`, `JoinComesNearer`, `WaitsCanEnd`, `OneServed` and
`ClosedForGood` are proved and are not properties of a run.

Only model-checked: `StepsEnabled`, because the prover knows nothing of ENABLED; so
the liveness theorems hold for any value of the constants for which it does, and TLC
shows it for the bounds above. `TasksFinish`, because the tasks before a task
in the executor's queue have to finish first, which is an induction over the
queue inside a temporal formula. The disagreements listed above are
counterexamples, which TLC finds and nothing has to prove. `DeviceList` has such a
run only, and no theorem.

## What is left out

- Rounding: `LabelsAreCanonical` and the theorems behind it are about exact
  arithmetic. `avg_coord()` sums floats in detection order, so an exact tie may be
  broken differently on a device.
- Destroying and recreating the activity in one process, the OpenCV manager
  service, menus, layouts, texts and logging.
- Image processing, the PnP solver and the network's arithmetic: OpenCV and
  TensorFlow Lite are vendored libraries, modelled by what the application sees of
  them. They are by far most of the C and C++ lines under `src/`.
- The GL calls of `Cube`, `Line` and `MyGLRenderer`, which draw with the matrices
  `Display` follows and keep no state that a property could be about. `Elements`
  has no user.
- `MySensor`: its listener is never registered, so its calibration never runs.
- The counters that the native display shows: `info` is passed by value, so they
  are always 0.
- `GetRvecTvec`, `clusturing_kmeans`, `AssetsfromJAVA`, `startSendData`,
  `stopSendData`, `SetSensorDataToBT`: no caller.

## Plan

1. `FileTask` takes `disableView()` returning after the worker from `CameraView`
   as part of its actions; composing it with `FrameFeed`, as `Display` is, would
   make this an INSTANCE.
2. Recreation of the activity, with the fields that are static and those that are
   not.
