------------------------------ MODULE FileTask ------------------------------
(***************************************************************************)
(* MainActivity's file tasks and the neural network they load: from the    *)
(* touch event and the permission result, through the messages of mHandler *)
(* and the AsyncTask FileCopyTask, to the native model and interpreter     *)
(* that the camera thread uses for its inference.                          *)
(*                                                                         *)
(* Three threads.  The main thread takes messages from its looper one at a *)
(* time and runs the lifecycle callbacks between them; the AsyncTask       *)
(* executor runs one task at a time; the camera thread delivers frames.    *)
(* The GL view and each permission result make a MainActivity of their own *)
(* (with its own mHandler and fileCopyTask), so that only the tasks of the *)
(* GL view ever cancel each other.                                         *)
(***************************************************************************)
EXTENDS Naturals, Sequences

CONSTANTS
    MaxPosts,   \* bound: FILE_CONTROL messages posted, hence tasks made
    NumFiles    \* assets that ASSETS_COPY copies

ASSUME TaskAssumption == MaxPosts \in Nat /\ NumFiles \in Nat \ {0}

Task  == 1..MaxPosts     \* tasks are numbered in creation order
Null  == 0
Files == 1..NumFiles
Permissions == {"READ", "WRITE", "CAMERA"}

VARIABLES
    granted, permissionList, asked,     \* permissions; "yes" while a request is open
    resumed, init_done, feed,           \* lifecycle; frames are delivered while feed is "on"
    finger, mTouchStatus,               \* the GL view's touch
    looper, posts,                      \* the main thread's messages
    dialog,                             \* progressDialog: "hidden" or "shown"
    kind, stat, cancelled,              \* the tasks
    fileCopyTask,                       \* the field of the GL view's MainActivity
    bg, pc, file,                       \* the executor: task, place in it, file it copies
    files,                              \* the copies on the storage
    buf,                                \* each load's MappedByteBuffer
    model, interpreter, ready,          \* the globals of tflite_obj.cpp
    using,                              \* the interpreter in the camera thread's inference
    died

activity == <<granted, permissionList, asked, resumed, init_done, feed>>
touch    == <<finger, mTouchStatus>>
tasks    == <<kind, stat, cancelled, fileCopyTask>>
executor == <<bg, pc, file>>
native   == <<buf, model, interpreter, ready>>
vars     == <<activity, touch, looper, posts, dialog, tasks, executor, files,
              native, using, died>>

Init ==
    /\ granted = {} /\ permissionList = {} /\ asked = "no"
    /\ resumed = "no" /\ init_done = 0 /\ feed = "off"
    /\ finger = "up" /\ mTouchStatus = 1
    /\ looper = <<>> /\ posts = 0 /\ dialog = "hidden"
    /\ kind = [t \in Task |-> "none"] /\ stat = [t \in Task |-> "none"]
    /\ cancelled = {} /\ fileCopyTask = Null
    /\ bg = Null /\ pc = "idle" /\ file = 1
    /\ files = [f \in Files |-> "absent"]
    /\ buf = [t \in Task |-> "none"]
    /\ model = Null /\ interpreter = Null /\ ready = "no"
    /\ using = Null /\ died = "none"

-----------------------------------------------------------------------------
(* Permissions and lifecycle, on the main thread. *)

post(what) == /\ posts < MaxPosts
              /\ posts' = posts + 1
              /\ looper' = Append(looper, <<what, Null>>)

\* Without every permission, onResume() asks for the missing ones and leaves.
onResume ==
    /\ resumed = "no"
    /\ resumed' = "yes"
    /\ permissionList' = Permissions \ granted
    /\ \/ /\ permissionList' # {}
          /\ asked' = "yes"
          /\ UNCHANGED <<init_done, feed>>
       \/ /\ permissionList' = {}
          /\ init_done' = 1 /\ feed' = "on"
          /\ UNCHANGED asked
    /\ UNCHANGED <<granted, touch, looper, posts, dialog, tasks, executor, files,
                   native, using, died>>

\* Mutant: the camera view is disabled without waiting for its thread.
onPause_NoJoin ==
    /\ resumed = "yes"
    /\ resumed' = "no" /\ feed' = "off"
    /\ UNCHANGED <<granted, permissionList, asked, init_done, touch, looper, posts,
                   dialog, tasks, executor, files, native, using, died>>

\* disableView() returns once the camera thread has ended.
onPause ==
    /\ resumed = "yes" /\ using = Null
    /\ resumed' = "no" /\ feed' = "off"
    /\ UNCHANGED <<granted, permissionList, asked, init_done, touch, looper, posts,
                   dialog, tasks, executor, files, native, using, died>>

\* The results are looked at in the order READ, WRITE, CAMERA up to the first
\* one that is denied: then the request is made again.  A request that was
\* interrupted has no results, which counts as granted.
onRequestPermissionsResult ==
    /\ asked = "yes" /\ resumed = "no"
    /\ \/ /\ asked' = "no"
          /\ UNCHANGED <<granted, looper, posts>>
       \/ /\ \E g \in SUBSET permissionList : granted' = granted \union g
          /\ asked' = IF permissionList \subseteq granted' THEN "no" ELSE "yes"
          /\ IF /\ "WRITE" \in permissionList \intersect granted'
                /\ "READ" \notin permissionList \ granted'
             THEN post("JAVA_FILE")
             ELSE UNCHANGED <<looper, posts>>
    /\ UNCHANGED <<permissionList, resumed, init_done, feed, touch, dialog, tasks,
                   executor, files, native, using, died>>

-----------------------------------------------------------------------------
(* Touch, on the main thread.  The dialog takes the touches while it shows. *)

TouchDown ==
    /\ resumed = "yes" /\ dialog = "hidden" /\ finger = "up"
    /\ finger' = "down" /\ mTouchStatus' = 0
    /\ post("NATIVE_FILE")
    /\ UNCHANGED <<activity, dialog, tasks, executor, files, native, using, died>>

\* ACTION_UP resets mTouchStatus; ACTION_CANCEL is not handled.
TouchEnds ==
    /\ finger = "down"
    /\ finger' = "up" /\ mTouchStatus' \in {1, mTouchStatus}
    /\ UNCHANGED <<activity, looper, posts, dialog, tasks, executor, files, native,
                   using, died>>

\* The back button cancels the dialog.
BackPressed ==
    /\ dialog = "shown"
    /\ dialog' = "hidden"
    /\ UNCHANGED <<activity, touch, looper, posts, tasks, executor, files, native,
                   using, died>>

-----------------------------------------------------------------------------
(* handleMessage(), and the AsyncTask's own handler, on the main thread. *)

Running(t) == t # Null /\ stat[t] \in {"queued", "running", "posted"}

\* new FileCopyTask(..).execute() and its onPreExecute(), with newStat and
\* newLooper as the handler has left the tasks and the messages by then.
execute(t, cmd, newStat, newLooper) ==
    /\ stat[t] = "none" /\ \A u \in 1..(t - 1) : stat[u] # "none"
    /\ kind' = [kind EXCEPT ![t] = cmd]
    /\ stat' = [newStat EXCEPT ![t] = "queued"]
    /\ looper' = Append(newLooper, <<"UPDATE_PROGRESS", Null>>)

\* A task that has not begun posts its result at once and never begins.
cancel(t) ==
    IF Running(t) /\ stat[t] = "queued"
    THEN [stat |-> [stat EXCEPT ![t] = "posted"], mail |-> <<<<"RESULT", t>>>>]
    ELSE [stat |-> stat, mail |-> <<>>]

\* Mutant: cancel() comes after the field has been given the new task.
NativeFile_CancelsNew ==
    /\ Head(looper) = <<"NATIVE_FILE", Null>> /\ init_done = 1
    /\ \E t \in Task :
          /\ execute(t, "native", stat, Tail(looper))
          /\ fileCopyTask' = t
          /\ cancelled' = cancelled \union {t}
    /\ UNCHANGED <<activity, touch, posts, dialog, executor, files, native, using, died>>

NativeFile ==
    /\ Head(looper) = <<"NATIVE_FILE", Null>> /\ init_done = 1
    /\ \E t \in Task :
          /\ execute(t, "native", cancel(fileCopyTask).stat,
                     Tail(looper) \o cancel(fileCopyTask).mail)
          /\ fileCopyTask' = t
    /\ cancelled' = cancelled \union (IF Running(fileCopyTask) THEN {fileCopyTask} ELSE {})
    /\ UNCHANGED <<activity, touch, posts, dialog, executor, files, native, using, died>>

\* The permission result's own MainActivity has no earlier task to cancel.
JavaFile ==
    /\ Head(looper) = <<"JAVA_FILE", Null>>
    /\ \E t \in Task : execute(t, "assets", stat, Tail(looper))
    /\ UNCHANGED <<activity, touch, posts, dialog, cancelled, fileCopyTask, executor,
                   files, native, using, died>>

\* NATIVE_FILE before init_done, or JAVA_FILE when the directory cannot be made.
FileControlIgnored ==
    /\ \/ Head(looper) = <<"NATIVE_FILE", Null>> /\ init_done = 0
       \/ Head(looper) = <<"JAVA_FILE", Null>>
    /\ looper' = Tail(looper)
    /\ UNCHANGED <<activity, touch, posts, dialog, tasks, executor, files, native,
                   using, died>>

Progress ==
    /\ \/ Head(looper) = <<"UPDATE_PROGRESS", Null>> /\ dialog' = "shown"
       \/ Head(looper) = <<"SEARCH_START", Null>> /\ dialog' = "hidden"
    /\ looper' = Tail(looper)
    /\ UNCHANGED <<activity, touch, posts, tasks, executor, files, native, using, died>>

\* AsyncTask.finish(): onPostExecute() unless the task was cancelled.
finish ==
    \E t \in Task :
        /\ Head(looper) = <<"RESULT", t>>
        /\ stat' = [stat EXCEPT ![t] = "finished"]
        /\ looper' = IF t \in cancelled THEN Tail(looper)
                     ELSE Append(Tail(looper), <<"SEARCH_START", Null>>)
        /\ UNCHANGED <<activity, touch, posts, dialog, kind, cancelled, fileCopyTask,
                       executor, files, native, using, died>>

handleMessage ==
    /\ looper # <<>>
    /\ NativeFile \/ JavaFile \/ FileControlIgnored \/ Progress \/ finish

-----------------------------------------------------------------------------
(* doInBackground(), on the executor's thread. *)

\* The serial executor takes the tasks in the order of execute().
BeginTask(t) ==
    /\ bg = Null /\ stat[t] = "queued"
    /\ \A u \in 1..(t - 1) : stat[u] # "queued"
    /\ stat' = [stat EXCEPT ![t] = "running"]
    /\ bg' = t /\ file' = 1
    /\ pc' = IF kind[t] = "native" THEN "map" ELSE "open"
    /\ UNCHANGED <<activity, touch, looper, posts, dialog, kind, cancelled,
                   fileCopyTask, files, native, using, died>>

\* Mutant: the old network is let go before the new one is mapped.
MapModel_DropsOld ==
    /\ pc = "map"
    /\ model' = Null /\ interpreter' = Null
    /\ \/ bg \notin cancelled /\ buf' = [buf EXCEPT ![bg] = "mapped"] /\ pc' = "model"
       \/ buf' = buf /\ pc' = "post"
    /\ UNCHANGED <<activity, touch, looper, posts, dialog, tasks, bg, file, files,
                   ready, using, died>>

\* NATIVE_COPY maps the asset; map() throws in a thread that cancel(true) has
\* interrupted, and openFd() may throw anyway.
MapModel ==
    /\ pc = "map"
    /\ \/ bg \notin cancelled /\ buf' = [buf EXCEPT ![bg] = "mapped"] /\ pc' = "model"
       \/ buf' = buf /\ pc' = "post"
    /\ UNCHANGED <<activity, touch, looper, posts, dialog, tasks, bg, file, files,
                   model, interpreter, ready, using, died>>

\* tflite_load_model(): the old model is destroyed ...
BuildModel ==
    /\ pc = "model"
    /\ model' = bg /\ pc' = "interpreter"
    /\ UNCHANGED <<activity, touch, looper, posts, dialog, tasks, bg, file, files,
                   buf, interpreter, ready, using, died>>

\* ... then the old interpreter is replaced ...
BuildInterpreter ==
    /\ pc = "interpreter"
    /\ interpreter' = bg /\ ready' = "no" /\ pc' = "allocate"
    /\ UNCHANGED <<activity, touch, looper, posts, dialog, tasks, bg, file, files,
                   buf, model, using, died>>

\* ... and its tensors are allocated.
AllocateTensors ==
    /\ pc = "allocate"
    /\ ready' = "yes" /\ pc' = "post"
    /\ UNCHANGED <<activity, touch, looper, posts, dialog, tasks, bg, file, files,
                   buf, model, interpreter, using, died>>

\* A failed TFLITE_MINIMAL_CHECK ends the process.
MinimalCheckFails ==
    /\ pc \in {"model", "interpreter", "allocate"}
    /\ died' = "exit"
    /\ UNCHANGED <<activity, touch, looper, posts, dialog, tasks, executor, files,
                   native, using>>

\* Mutant: the loop over the assets goes one too far.
NextFile_OneTooFar == IF file > NumFiles THEN pc' = "post" /\ file' = file
                                         ELSE pc' = "open" /\ file' = file + 1

NextFile == IF file = NumFiles THEN pc' = "post" /\ file' = file
                               ELSE pc' = "open" /\ file' = file + 1

\* Mutant: the file is written whether or not it exists.
OpenCopy_Overwrites ==
    /\ pc = "open"
    /\ files' = [files EXCEPT ![file] = "partial"]
    /\ pc' = "copy" /\ file' = file
    /\ UNCHANGED <<activity, touch, looper, posts, dialog, tasks, bg, native, using, died>>

\* ASSETS_COPY: a file that exists is taken for copied; another one is
\* created, unless an exception comes first.
OpenCopy ==
    /\ pc = "open"
    /\ \/ /\ files[file] = "absent"
          /\ files' = [files EXCEPT ![file] = "partial"]
          /\ pc' = "copy" /\ file' = file
       \/ files' = files /\ NextFile
    /\ UNCHANGED <<activity, touch, looper, posts, dialog, tasks, bg, native, using, died>>

\* The copy ends, or an IOException leaves a part of it behind.
WriteCopy ==
    /\ pc = "copy"
    /\ files' \in {files, [files EXCEPT ![file] = "whole"]}
    /\ NextFile
    /\ UNCHANGED <<activity, touch, looper, posts, dialog, tasks, bg, native, using, died>>

\* Mutant: the result is never posted.
PostResult_Lost ==
    /\ pc = "post"
    /\ stat' = [stat EXCEPT ![bg] = "posted"]
    /\ bg' = Null /\ pc' = "idle"
    /\ UNCHANGED <<activity, touch, looper, posts, dialog, kind, cancelled, fileCopyTask,
                   file, files, native, using, died>>

\* doInBackground() returns and the result goes to the main thread.
PostResult ==
    /\ pc = "post"
    /\ stat' = [stat EXCEPT ![bg] = "posted"]
    /\ looper' = Append(looper, <<"RESULT", bg>>)
    /\ bg' = Null /\ pc' = "idle"
    /\ UNCHANGED <<activity, touch, posts, dialog, kind, cancelled, fileCopyTask,
                   file, files, native, using, died>>

\* Once the call has returned nothing refers to the MappedByteBuffer: the
\* garbage collector unmaps it.
CollectBuffer(t) ==
    /\ buf[t] = "mapped" /\ bg # t
    /\ buf' = [buf EXCEPT ![t] = "unmapped"]
    /\ UNCHANGED <<activity, touch, looper, posts, dialog, tasks, executor, files,
                   model, interpreter, ready, using, died>>

-----------------------------------------------------------------------------
(* tflite_model(), on the camera thread: a frame with points and a touch.  *)
(* Frames without either leave all of this alone.                          *)

BeginInference ==
    /\ feed = "on" /\ using = Null /\ mTouchStatus = 0
    /\ using' = interpreter
    /\ died' = IF interpreter = Null THEN "segv" ELSE died
    /\ UNCHANGED <<activity, touch, looper, posts, dialog, tasks, executor, files, native>>

\* Memory that is gone by then may or may not bring the process down; so does
\* an Invoke() that fails.
Unsound == \/ using # interpreter \/ using # model \/ ready = "no"
           \/ buf[using] = "unmapped"

EndInference ==
    /\ using # Null
    /\ using' = Null
    /\ died' \in {"none", "exit"} \union (IF Unsound THEN {"segv"} ELSE {})
    /\ UNCHANGED <<activity, touch, looper, posts, dialog, tasks, executor, files, native>>

-----------------------------------------------------------------------------
\* A process in the background may be killed; the storage and the
\* permissions outlive it.
Killed ==
    /\ resumed = "no"
    /\ died' = "killed"
    /\ UNCHANGED <<activity, touch, looper, posts, dialog, tasks, executor, files,
                   native, using>>

Restart ==
    /\ died # "none"
    /\ permissionList' = {} /\ asked' = "no"
    /\ resumed' = "no" /\ init_done' = 0 /\ feed' = "off"
    /\ finger' = "up" /\ mTouchStatus' = 1
    /\ looper' = <<>> /\ dialog' = "hidden"
    /\ kind' = [t \in Task |-> "none"] /\ stat' = [t \in Task |-> "none"]
    /\ cancelled' = {} /\ fileCopyTask' = Null
    /\ bg' = Null /\ pc' = "idle" /\ file' = 1
    /\ buf' = [t \in Task |-> "none"]
    /\ model' = Null /\ interpreter' = Null /\ ready' = "no"
    /\ using' = Null /\ died' = "none"
    /\ UNCHANGED <<granted, posts, files>>

TaskStep == \/ \E t \in Task : BeginTask(t)
            \/ MapModel \/ BuildModel \/ BuildInterpreter \/ AllocateTensors
            \/ OpenCopy \/ WriteCopy \/ PostResult

UserStep == onResume \/ onPause \/ onRequestPermissionsResult
              \/ TouchDown \/ TouchEnds \/ BackPressed

Next ==
    \/ /\ died = "none"
       /\ \/ UserStep \/ handleMessage \/ TaskStep \/ MinimalCheckFails
          \/ (\E t \in Task : CollectBuffer(t))
          \/ BeginInference \/ EndInference \/ Killed
    \/ Restart

Spec == Init /\ [][Next]_vars

(***************************************************************************)
(* The main thread handles its messages, the executor runs its tasks and   *)
(* an inference ends.  Nothing else has to happen.                         *)
(***************************************************************************)
FairSpec ==
    /\ Spec
    /\ WF_vars(died = "none" /\ handleMessage)
    /\ WF_vars(died = "none" /\ TaskStep)
    /\ WF_vars(died = "none" /\ EndInference)

-----------------------------------------------------------------------------
(* Properties *)

Places == {"idle", "map", "model", "interpreter", "allocate", "open", "copy", "post"}

Messages == ({"NATIVE_FILE", "JAVA_FILE", "UPDATE_PROGRESS", "SEARCH_START"} \X {Null})
              \union ({"RESULT"} \X Task)

\* Every variable keeps its type; the executor is idle exactly when it has no
\* task.
TypeOK ==
    /\ granted \subseteq Permissions /\ permissionList \subseteq Permissions
    /\ asked \in {"no", "yes"} /\ resumed \in {"no", "yes"}
    /\ init_done \in {0, 1} /\ feed \in {"off", "on"}
    /\ finger \in {"up", "down"} /\ mTouchStatus \in {0, 1}
    /\ looper \in Seq(Messages) /\ posts \in Nat
    /\ dialog \in {"hidden", "shown"}
    /\ kind \in [Task -> {"none", "native", "assets"}]
    /\ stat \in [Task -> {"none", "queued", "running", "posted", "finished"}]
    /\ cancelled \subseteq Task
    /\ fileCopyTask \in Task \union {Null} /\ bg \in Task \union {Null}
    /\ pc \in Places /\ (pc = "idle" <=> bg = Null) /\ file \in Files
    /\ files \in [Files -> {"absent", "partial", "whole"}]
    /\ buf \in [Task -> {"none", "mapped", "unmapped"}]
    /\ model \in Task \union {Null} /\ interpreter \in Task \union {Null}
    /\ ready \in {"no", "yes"} /\ using \in Task \union {Null}
    /\ died \in {"none", "exit", "segv", "killed"}

\* When every task is finished and every message handled, the progress dialog
\* is gone: a cancelled task never dismisses it, so the task that replaced it
\* has to.
DialogHiddenWhenIdle ==
    /\ died = "none" /\ looper = <<>>
    /\ \A t \in Task : stat[t] \in {"none", "finished"}
    => dialog = "hidden"

\* The camera thread runs the network only in a resumed activity that has all
\* its permissions: onPause() does not return under an inference.
InferenceWhileResumed ==
    using # Null /\ died = "none" => resumed = "yes" /\ init_done = 1 /\ granted = Permissions

\* A copy that is whole stays so, over any number of tasks, crashes and
\* restarts.
WholeStaysWhole ==
    [][\A f \in Files : files[f] = "whole" => files'[f] = "whole"]_vars

\* Within a process the network is never lost, also when a later load fails or
\* is cancelled in the middle, and only replaced by one that was asked for
\* later.
NewestModelWins ==
    [][died = "none" => interpreter' >= interpreter /\ model' >= model]_vars

\* Every task that was executed reaches onPostExecute() or onCancelled().
TasksFinish ==
    \A t \in Task : stat[t] = "queued" ~> (stat[t] = "finished" \/ died # "none")

-----------------------------------------------------------------------------
(* What the TensorFlow Lite headers ask for, and the code does not do. *)

\* interpreter.h: "the model instance must outlive the interpreter instance":
\* the interpreter in use has the model it was built from.
ModelOutlivesInterpreter == using # Null => model = using

\* model_builder.h: the caller of BuildFromBuffer() "should keep it [the
\* buffer] alive until the returned object is destroyed".
BufferOutlivesModel == model # Null => buf[model] = "mapped"

=============================================================================
