--------------------------- MODULE FileTaskProofs ---------------------------
(***************************************************************************)
(* Proofs about FileTask for every number of posts and of assets: the      *)
(* types, where the camera thread's inference may run, that a network is   *)
(* only replaced by a later one and a copy never spoilt, and that the      *)
(* progress dialog does not outlive the tasks.                             *)
(***************************************************************************)
EXTENDS FileTask, SequenceTheorems, TLAPS

USE SMTT(60)

-----------------------------------------------------------------------------
(* Types *)

\* The messages that the handlers and the executor put into the looper.
LEMMA MessageTypes ==
    /\ \A what \in {"NATIVE_FILE", "JAVA_FILE", "UPDATE_PROGRESS", "SEARCH_START"} :
          <<what, Null>> \in Messages
    /\ \A t \in Task : <<"RESULT", t>> \in Messages
  BY DEF Messages

\* Taking a message from the looper, and putting one there, leave messages.
LEMMA LooperTypes ==
    ASSUME NEW s \in Seq(Messages)
    PROVE  /\ \A m \in Messages : Append(s, m) \in Seq(Messages)
           /\ s # <<>> => Tail(s) \in Seq(Messages)
           /\ \A m \in Messages : s \o <<m>> \in Seq(Messages)
           /\ s \o <<>> \in Seq(Messages)
  OBVIOUS

\* What cancel() leaves of the tasks and the result it may post.
LEMMA CancelTypes ==
    ASSUME TypeOK
    PROVE  /\ cancel(fileCopyTask).stat
                \in [Task -> {"none", "queued", "running", "posted", "finished"}]
           /\ \A s \in Seq(Messages) : s \o cancel(fileCopyTask).mail \in Seq(Messages)
  <1>1. CASE Running(fileCopyTask) /\ stat[fileCopyTask] = "queued"
    <2>1. /\ cancel(fileCopyTask).stat = [stat EXCEPT ![fileCopyTask] = "posted"]
          /\ cancel(fileCopyTask).mail = <<<<"RESULT", fileCopyTask>>>>
      BY <1>1 DEF cancel
    <2>2. fileCopyTask \in Task
      BY <1>1 DEF Running, TypeOK
    <2>3. <<"RESULT", fileCopyTask>> \in Messages
      BY <2>2, MessageTypes
    <2>. QED  BY <2>1, <2>2, <2>3, LooperTypes DEF TypeOK
  <1>2. CASE ~(Running(fileCopyTask) /\ stat[fileCopyTask] = "queued")
    <2>1. cancel(fileCopyTask).stat = stat /\ cancel(fileCopyTask).mail = <<>>
      BY <1>2, ZenonT(60) DEF cancel
    <2>. QED  BY <2>1, LooperTypes DEF TypeOK
  <1>. QED  BY <1>1, <1>2

\* Every step keeps the types.
LEMMA TypeStep == TypeOK /\ [Next]_vars => TypeOK'
  <1>. SUFFICES ASSUME TypeOK, [Next]_vars PROVE TypeOK'
    OBVIOUS
  <1>. USE DEF TypeOK
  <1>a. \A m \in Messages : Append(looper, m) \in Seq(Messages)
    BY LooperTypes
  <1>b. looper # <<>> => Tail(looper) \in Seq(Messages)
    BY LooperTypes
  <1>c. \A t \in Task : t # Null
    BY DEF Task, Null
  <1>1. CASE UserStep
    <2>1. CASE onResume
      BY <2>1 DEF onResume, touch, tasks, executor, native
    <2>2. CASE onPause
      BY <2>2 DEF onPause, touch, tasks, executor, native
    <2>3. CASE onRequestPermissionsResult
      <3>0. \/ looper' = looper /\ posts' = posts
            \/ post("JAVA_FILE")
        BY <2>3, Zenon DEF onRequestPermissionsResult
      <3>1. looper' \in Seq(Messages) /\ posts' \in Nat
        <4>1. Append(looper, <<"JAVA_FILE", Null>>) \in Seq(Messages)
          BY <1>a, MessageTypes
        <4>2. looper \in Seq(Messages) /\ posts \in Nat
          OBVIOUS
        <4>3. looper' = looper \/ looper' = Append(looper, <<"JAVA_FILE", Null>>)
          BY <3>0, Zenon DEF post
        <4>4. posts' = posts \/ posts' = posts + 1
          BY <3>0, Zenon DEF post
        <4>. HIDE DEF TypeOK
        <4>. QED  BY <4>1, <4>2, <4>3, <4>4
      <3>2. granted' \subseteq Permissions /\ asked' \in {"no", "yes"}
        BY <2>3 DEF onRequestPermissionsResult
      <3>. QED  BY <2>3, <3>1, <3>2 DEF onRequestPermissionsResult, touch, tasks,
                executor, native
    <2>4. CASE TouchDown
      BY <2>4, <1>a, MessageTypes DEF TouchDown, post, activity, tasks, executor, native
    <2>5. CASE TouchEnds
      BY <2>5 DEF TouchEnds, activity, tasks, executor, native
    <2>6. CASE BackPressed
      BY <2>6 DEF BackPressed, activity, touch, tasks, executor, native
    <2>. HIDE DEF TypeOK
    <2>. QED  BY <1>1, <2>1, <2>2, <2>3, <2>4, <2>5, <2>6 DEF UserStep
  <1>2. CASE handleMessage
    <2>. USE <1>2, <1>b DEF activity, touch, tasks, executor, native
    <2>a. \A s \in Seq(Messages), m \in Messages : Append(s, m) \in Seq(Messages)
      BY LooperTypes
    <2>1. CASE NativeFile
      <3>1. PICK t \in Task :
               /\ execute(t, "native", cancel(fileCopyTask).stat,
                          Tail(looper) \o cancel(fileCopyTask).mail)
               /\ fileCopyTask' = t
        BY <2>1 DEF NativeFile
      <3>2. looper' \in Seq(Messages)
        BY <3>1, <2>a, CancelTypes, MessageTypes DEF execute, handleMessage
      <3>3. stat' \in [Task -> {"none", "queued", "running", "posted", "finished"}]
        BY <3>1, CancelTypes DEF execute
      <3>4. kind' \in [Task -> {"none", "native", "assets"}]
        BY <3>1 DEF execute
      <3>5. cancelled' \subseteq Task
        BY <2>1 DEF NativeFile, Running
      <3>. QED  BY <2>1, <3>1, <3>2, <3>3, <3>4, <3>5 DEF NativeFile
    <2>2. CASE JavaFile
      BY <2>2, <2>a, MessageTypes DEF JavaFile, execute, handleMessage
    <2>3. CASE FileControlIgnored
      BY <2>3 DEF FileControlIgnored, handleMessage
    <2>4. CASE Progress
      BY <2>4 DEF Progress, handleMessage
    <2>5. CASE finish
      BY <2>5, <2>a, MessageTypes DEF finish, handleMessage
    <2>. HIDE DEF TypeOK
    <2>. QED  BY <2>1, <2>2, <2>3, <2>4, <2>5 DEF handleMessage
  <1>3. CASE TaskStep
    <2>. USE DEF activity, touch, tasks, native, Places
    <2>1. CASE \E t \in Task : BeginTask(t)
      BY <2>1, <1>c, TaskAssumption DEF BeginTask, Files
    <2>2. CASE MapModel
      BY <2>2 DEF MapModel
    <2>3. CASE BuildModel
      BY <2>3 DEF BuildModel
    <2>4. CASE BuildInterpreter
      BY <2>4 DEF BuildInterpreter
    <2>5. CASE AllocateTensors
      BY <2>5 DEF AllocateTensors
    <2>6. CASE OpenCopy
      BY <2>6, TaskAssumption DEF OpenCopy, NextFile, Files
    <2>7. CASE WriteCopy
      BY <2>7, TaskAssumption DEF WriteCopy, NextFile, Files
    <2>8. CASE PostResult
      BY <2>8, <1>a, MessageTypes DEF PostResult
    <2>. HIDE DEF TypeOK
    <2>. QED  BY <1>3, <2>1, <2>2, <2>3, <2>4, <2>5, <2>6, <2>7, <2>8 DEF TaskStep
  <1>4. CASE MinimalCheckFails
    BY <1>4 DEF MinimalCheckFails, activity, touch, tasks, executor, native
  <1>5. CASE \E t \in Task : CollectBuffer(t)
    BY <1>5 DEF CollectBuffer, activity, touch, tasks, executor
  <1>6. CASE BeginInference
    BY <1>6 DEF BeginInference, activity, touch, tasks, executor, native
  <1>7. CASE EndInference
    BY <1>7 DEF EndInference, activity, touch, tasks, executor, native
  <1>8. CASE Killed
    BY <1>8 DEF Killed, activity, touch, tasks, executor, native
  <1>9. CASE Restart
    BY <1>9, <1>c, TaskAssumption, EmptySeq DEF Restart, Files, Places
  <1>10. CASE UNCHANGED vars
    BY <1>10 DEF vars, activity, touch, tasks, executor, native
  <1>. HIDE DEF TypeOK
  <1>. QED  BY <1>1, <1>2, <1>3, <1>4, <1>5, <1>6, <1>7, <1>8, <1>9, <1>10 DEF Next

\* The initial state has the types.
LEMMA TypeInit == Init => TypeOK
  BY TaskAssumption, EmptySeq DEF Init, TypeOK, Task, Null, Files, Places

\* MainActivity, its tasks and the native globals keep their types, and the
\* executor is idle exactly when it has no task.
THEOREM TypeCorrect == Spec => []TypeOK
  BY TypeInit, TypeStep, PTL DEF Spec

-----------------------------------------------------------------------------
(* The copies *)

\* Only ASSETS_COPY writes files, and it writes those it found absent.
LEMMA CopyStep ==
    ASSUME TypeOK, [Next]_vars, NEW f \in Files, files[f] = "whole"
    PROVE  files'[f] = "whole"
  <1>1. CASE OpenCopy
    BY <1>1 DEF OpenCopy, TypeOK
  <1>2. CASE WriteCopy
    BY <1>2 DEF WriteCopy, TypeOK
  <1>3. CASE ~OpenCopy /\ ~WriteCopy
    <2>1. files' = files
      BY <1>3, Zenon DEF Next, UserStep, onResume, onPause, onRequestPermissionsResult,
         TouchDown, TouchEnds, BackPressed, handleMessage, NativeFile, JavaFile,
         FileControlIgnored, Progress, finish, TaskStep, BeginTask, MapModel, BuildModel,
         BuildInterpreter, AllocateTensors, PostResult, MinimalCheckFails, CollectBuffer,
         BeginInference, EndInference, Killed, Restart, vars
    <2>. QED  BY <2>1
  <1>. QED  BY <1>1, <1>2, <1>3

\* doInBackground() never spoils a copy that is whole, whatever tasks, failures
\* and deaths of the process come after it.
THEOREM CopiesAreKept == Spec => WholeStaysWhole
  <1>1. TypeOK /\ [Next]_vars
          => [\A f \in Files : files[f] = "whole" => files'[f] = "whole"]_vars
    BY CopyStep
  <1>. QED  BY <1>1, TypeCorrect, PTL DEF Spec, WholeStaysWhole

-----------------------------------------------------------------------------
(* Where the inference runs *)

\* Frames are delivered to a resumed activity with every permission, and an
\* inference is inside a delivery.
Delivering ==
    /\ feed = "on" => resumed = "yes" /\ init_done = 1 /\ granted = Permissions
    /\ using # Null => feed = "on"

\* Every step keeps the camera thread within a resumed activity.
LEMMA DeliveringStep == TypeOK /\ Delivering /\ [Next]_vars => Delivering'
  <1>. SUFFICES ASSUME TypeOK, Delivering, [Next]_vars PROVE Delivering'
    OBVIOUS
  <1>. USE DEF Delivering
  <1>1. CASE onResume
    <2>1. feed # "on"
      BY <1>1 DEF onResume
    <2>2. permissionList' = {} => granted = Permissions
      <3>1. permissionList' = Permissions \ granted
        BY <1>1 DEF onResume
      <3>2. granted \subseteq Permissions
        BY DEF TypeOK
      <3>. QED  BY <3>1, <3>2, Zenon
    <2>3. /\ feed' = "on" => permissionList' = {} /\ init_done' = 1
          /\ resumed' = "yes" /\ granted' = granted /\ using' = using
      BY <1>1, <2>1, Zenon DEF onResume
    <2>. QED  BY <2>1, <2>2, <2>3
  <1>2. CASE onPause
    BY <1>2 DEF onPause
  <1>3. CASE onRequestPermissionsResult
    BY <1>3 DEF onRequestPermissionsResult
  <1>4. CASE BeginInference \/ EndInference
    BY <1>4 DEF BeginInference, EndInference, activity
  <1>5. CASE Restart
    BY <1>5 DEF Restart
  <1>6. CASE ~(\/ onResume \/ onPause \/ onRequestPermissionsResult
              \/ BeginInference \/ EndInference \/ Restart)
    <2>1. UNCHANGED activity /\ UNCHANGED using
      BY <1>6, Zenon DEF Next, UserStep, TouchDown, TouchEnds, BackPressed, handleMessage,
         NativeFile, JavaFile, FileControlIgnored, Progress, finish, TaskStep, BeginTask,
         MapModel, BuildModel, BuildInterpreter, AllocateTensors, OpenCopy, WriteCopy,
         PostResult, MinimalCheckFails, CollectBuffer, Killed, vars
    <2>. QED  BY <2>1 DEF activity
  <1>. QED  BY <1>1, <1>2, <1>3, <1>4, <1>5, <1>6

\* tflite_model() runs only while MainActivity is resumed with the camera, and
\* onPause() waits for it.
THEOREM InferenceInsideResume == Spec => []InferenceWhileResumed
  <1>1. Init => Delivering
    BY DEF Init, Delivering
  <1>2. Delivering => InferenceWhileResumed
    BY DEF Delivering, InferenceWhileResumed
  <1>. QED  BY <1>1, <1>2, DeliveringStep, TypeCorrect, PTL DEF Spec

-----------------------------------------------------------------------------
(* The looper's messages *)

Mail(s) == {s[i] : i \in 1..Len(s)}

\* What a sequence of messages holds after Append, Tail and \o.
LEMMA MailFacts ==
    ASSUME NEW s \in Seq(Messages)
    PROVE  /\ \A m \in Messages : Mail(Append(s, m)) = Mail(s) \union {m}
           /\ \A m \in Messages : Mail(s \o <<m>>) = Mail(s) \union {m}
           /\ s # <<>> => Mail(Tail(s)) \subseteq Mail(s) /\ Head(s) \in Mail(s)
           /\ s # <<>> => Mail(s) = Mail(Tail(s)) \union {Head(s)}
           /\ s \o <<>> = s /\ Mail(<<>>) = {}
  <1>1. ASSUME NEW m \in Messages PROVE Mail(Append(s, m)) = Mail(s) \union {m}
    <2>1. /\ Len(Append(s, m)) = Len(s) + 1 /\ Append(s, m)[Len(s) + 1] = m
          /\ \A i \in 1..Len(s) : Append(s, m)[i] = s[i]
      BY AppendProperties
    <2>2. Len(s) \in Nat
      OBVIOUS
    <2>3. 1..(Len(s) + 1) = (1..Len(s)) \union {Len(s) + 1}
      BY <2>2
    <2>. QED  BY <2>1, <2>3, ZenonT(60) DEF Mail
  <1>2. ASSUME NEW m \in Messages PROVE s \o <<m>> = Append(s, m)
    OBVIOUS
  <1>3. ASSUME s # <<>> PROVE Mail(s) = Mail(Tail(s)) \union {Head(s)}
    <2>1. /\ Len(s) \in Nat /\ Len(s) # 0 /\ Len(Tail(s)) = Len(s) - 1
          /\ Head(s) = s[1] /\ \A i \in 1..Len(Tail(s)) : Tail(s)[i] = s[i + 1]
      BY <1>3
    <2>2. ASSUME NEW i \in 1..Len(s) PROVE i = 1 \/ (i - 1 \in 1..Len(Tail(s)) /\ (i - 1) + 1 = i)
      BY <2>1
    <2>3. ASSUME NEW i \in 1..Len(Tail(s)) PROVE i + 1 \in 1..Len(s)
      BY <2>1
    <2>4. 1 \in 1..Len(s)
      BY <2>1
    <2>5. Mail(s) \subseteq Mail(Tail(s)) \union {Head(s)}
      <3>1. SUFFICES ASSUME NEW i \in 1..Len(s)
                     PROVE  s[i] \in Mail(Tail(s)) \union {Head(s)}
        BY DEF Mail
      <3>2. CASE i = 1
        BY <3>2, <2>1
      <3>3. CASE i # 1
        <4>1. Tail(s)[i - 1] = s[i] /\ i - 1 \in 1..Len(Tail(s))
          BY <3>3, <2>1, <2>2
        <4>. QED  BY <4>1 DEF Mail
      <3>. QED  BY <3>2, <3>3
    <2>6. Mail(Tail(s)) \subseteq Mail(s)
      BY <2>1, <2>3 DEF Mail
    <2>7. Head(s) \in Mail(s)
      BY <2>1, <2>4 DEF Mail
    <2>. QED  BY <2>5, <2>6, <2>7
  <1>4. s \o <<>> = s /\ Mail(<<>>) = {}
    BY DEF Mail
  <1>5. s # <<>> => Mail(Tail(s)) \subseteq Mail(s) /\ Head(s) \in Mail(s)
    BY <1>3
  <1>6. \A m \in Messages : Mail(s \o <<m>>) = Mail(s) \union {m}
    BY <1>1, <1>2, Zenon
  <1>. QED  BY <1>1, <1>3, <1>4, <1>5, <1>6, Zenon

-----------------------------------------------------------------------------
(* Making a task *)

\* Task t is made and those of C are cancelled, with q the messages before the
\* new task's own.
Makes(t, q, C) ==
    /\ stat[t] = "none" /\ \A u \in Task : u < t => stat[u] # "none"
    /\ stat'[t] = "queued"
    /\ \A u \in Task \ {t} : \/ stat'[u] = stat[u]
                             \/ u \in C /\ stat[u] = "queued" /\ stat'[u] = "posted"
    /\ looper' = Append(q, <<"UPDATE_PROGRESS", Null>>)
    /\ Mail(Tail(looper)) \subseteq Mail(q)
    /\ \A m \in Mail(q) : m \in Mail(Tail(looper)) \/ \E u \in C : m = <<"RESULT", u>>
    /\ cancelled' = cancelled \union C
    /\ \A u \in C : stat[u] \notin {"none", "finished"}
    /\ UNCHANGED <<dialog, bg, model, interpreter>>

\* That is what both FILE_CONTROL messages do.
LEMMA MakesTask ==
    ASSUME TypeOK, looper # <<>>, NativeFile \/ JavaFile
    PROVE  \E t \in Task, q \in Seq(Messages), C \in SUBSET Task : Makes(t, q, C)
  <1>a. Tail(looper) \in Seq(Messages)
    BY LooperTypes DEF TypeOK
  <1>b. stat \in [Task -> {"none", "queued", "running", "posted", "finished"}]
    BY DEF TypeOK
  <1>1. CASE JavaFile
    <2>1. PICK t \in Task : execute(t, "assets", stat, Tail(looper))
      BY <1>1 DEF JavaFile
    <2>2. stat[t] = "none" /\ \A u \in Task : u < t => stat[u] # "none"
      BY <2>1, TaskAssumption DEF execute, Task
    <2>3. stat'[t] = "queued" /\ \A u \in Task \ {t} : stat'[u] = stat[u]
      BY <2>1, <1>b DEF execute
    <2>4. UNCHANGED <<cancelled, dialog, bg, model, interpreter>>
      BY <1>1 DEF JavaFile, executor, native
    <2>5. Makes(t, Tail(looper), {})
      BY <2>1, <2>2, <2>3, <2>4 DEF Makes, execute
    <2>. QED  BY <2>5, <1>a, Zenon
  <1>2. CASE NativeFile
    <2>. DEFINE s == cancel(fileCopyTask).stat
                q == Tail(looper) \o cancel(fileCopyTask).mail
                C == IF Running(fileCopyTask) THEN {fileCopyTask} ELSE {}
    <2>1. PICK t \in Task : execute(t, "native", s, q)
      BY <1>2 DEF NativeFile
    <2>2. stat[t] = "none" /\ \A u \in Task : u < t => stat[u] # "none"
      BY <2>1, TaskAssumption DEF execute, Task
    <2>3. cancelled' = cancelled \union C /\ UNCHANGED <<dialog, bg, model, interpreter>>
      BY <1>2 DEF NativeFile, executor, native
    <2>4. C \in SUBSET Task /\ \A u \in C : stat[u] \notin {"none", "finished"}
      BY DEF Running, TypeOK
    <2>5. /\ q \in Seq(Messages) /\ Mail(Tail(looper)) \subseteq Mail(q)
          /\ \A m \in Mail(q) : m \in Mail(Tail(looper)) \/ \E u \in C : m = <<"RESULT", u>>
          /\ s \in [Task -> {"none", "queued", "running", "posted", "finished"}]
          /\ \A u \in Task : \/ s[u] = stat[u]
                             \/ u \in C /\ stat[u] = "queued" /\ s[u] = "posted"
      <3>1. CASE Running(fileCopyTask) /\ stat[fileCopyTask] = "queued"
        <4>1. /\ s = [stat EXCEPT ![fileCopyTask] = "posted"]
              /\ q = Tail(looper) \o <<<<"RESULT", fileCopyTask>>>>
          BY <3>1 DEF cancel
        <4>0. fileCopyTask \in Task
          BY <3>1 DEF Running, TypeOK
        <4>2. fileCopyTask \in Task /\ C = {fileCopyTask}
          BY <3>1, <4>0, Zenon
        <4>. HIDE DEF s, q, C
        <4>3. Mail(q) = Mail(Tail(looper)) \union {<<"RESULT", fileCopyTask>>}
          <5>1. \A m \in Messages : Mail(Tail(looper) \o <<m>>) = Mail(Tail(looper)) \union {m}
            BY <1>a, MailFacts, Zenon
          <5>2. <<"RESULT", fileCopyTask>> \in Messages
            BY <4>2, MessageTypes
          <5>. QED  BY <4>1, <5>1, <5>2, Zenon
        <4>4. q \in Seq(Messages)
          BY <4>1, <4>2, <1>a, LooperTypes, MessageTypes
        <4>5. /\ s \in [Task -> {"none", "queued", "running", "posted", "finished"}]
              /\ \A u \in Task : \/ s[u] = stat[u]
                                 \/ u \in C /\ stat[u] = "queued" /\ s[u] = "posted"
          BY <4>1, <4>2, <3>1, <1>b
        <4>6. /\ Mail(Tail(looper)) \subseteq Mail(q)
              /\ \A m \in Mail(q) : m \in Mail(Tail(looper)) \/ m = <<"RESULT", fileCopyTask>>
          BY <4>3, Zenon
        <4>7. \A m \in Mail(q) : m \in Mail(Tail(looper)) \/ \E u \in C : m = <<"RESULT", u>>
          BY <4>2, <4>6, Zenon
        <4>. QED  BY <4>4, <4>5, <4>6, <4>7
      <3>2. CASE ~(Running(fileCopyTask) /\ stat[fileCopyTask] = "queued")
        <4>1. s = stat /\ q = Tail(looper)
          BY <3>2, <1>a, MailFacts DEF cancel
        <4>. HIDE DEF s, q, C
        <4>2. Mail(Tail(looper)) = Mail(q) /\ q \in Seq(Messages)
          BY <4>1, <1>a
        <4>3. /\ s \in [Task -> {"none", "queued", "running", "posted", "finished"}]
              /\ \A u \in Task : s[u] = stat[u]
          BY <4>1, <1>b
        <4>. QED  BY <4>2, <4>3
      <3>. QED  BY <3>1, <3>2
    <2>. HIDE DEF s, q, C
    <2>6. stat'[t] = "queued" /\ \A u \in Task \ {t} : stat'[u] = s[u]
      BY <2>1, <2>5 DEF execute
    <2>7. looper' = Append(q, <<"UPDATE_PROGRESS", Null>>)
      BY <2>1 DEF execute
    <2>8. Makes(t, q, C)
      BY <2>2, <2>3, <2>4, <2>5, <2>6, <2>7 DEF Makes
    <2>. QED  BY <2>4, <2>5, <2>8
  <1>. QED  BY <1>1, <1>2

-----------------------------------------------------------------------------
(* The steps as the tasks see them *)

core == <<stat, cancelled, bg, model, interpreter>>

\* Steps that leave the tasks and the messages alone.
Quiet == UNCHANGED <<core, looper>> /\ dialog' \in {dialog, "hidden"}

\* A FILE_CONTROL message is posted.
Posts == /\ \E what \in {"NATIVE_FILE", "JAVA_FILE"} : looper' = Append(looper, <<what, Null>>)
         /\ UNCHANGED <<core, dialog>>

\* A message is taken that makes and ends no task.
Takes == /\ looper # <<>> /\ (FileControlIgnored \/ Progress)
         /\ looper' = Tail(looper) /\ UNCHANGED core

\* Every step is one of these.
LEMMA StepKinds ==
    ASSUME [Next]_vars
    PROVE  \/ Quiet \/ Posts \/ Takes
           \/ looper # <<>> /\ (NativeFile \/ JavaFile)
           \/ looper # <<>> /\ finish
           \/ (\E t \in Task : BeginTask(t))
           \/ BuildModel \/ BuildInterpreter \/ PostResult \/ Restart
  <1>. USE DEF activity, touch, tasks, executor, native, core
  <1>1. CASE onResume \/ onPause \/ TouchEnds
    BY <1>1 DEF onResume, onPause, TouchEnds, Quiet
  <1>2. CASE BackPressed
    BY <1>2 DEF BackPressed, Quiet
  <1>3. CASE onRequestPermissionsResult
    <2>1. UNCHANGED <<core, dialog>>
      BY <1>3, Zenon DEF onRequestPermissionsResult
    <2>2. looper' = looper \/ looper' = Append(looper, <<"JAVA_FILE", Null>>)
      BY <1>3, Zenon DEF onRequestPermissionsResult, post
    <2>. QED  BY <2>1, <2>2, Zenon DEF Quiet, Posts
  <1>4. CASE TouchDown
    BY <1>4 DEF TouchDown, post, Posts
  <1>5. CASE looper # <<>> /\ (FileControlIgnored \/ Progress)
    BY <1>5 DEF FileControlIgnored, Progress, Takes
  <1>6. CASE MapModel \/ AllocateTensors \/ OpenCopy \/ WriteCopy
    BY <1>6 DEF MapModel, AllocateTensors, OpenCopy, WriteCopy, Quiet
  <1>7. CASE MinimalCheckFails \/ (\E t \in Task : CollectBuffer(t)) \/ Killed
    BY <1>7 DEF MinimalCheckFails, CollectBuffer, Killed, Quiet
  <1>8. CASE BeginInference \/ EndInference
    BY <1>8 DEF BeginInference, EndInference, Quiet
  <1>9. CASE UNCHANGED vars
    BY <1>9 DEF vars, Quiet
  <1>. QED  BY <1>1, <1>2, <1>3, <1>4, <1>5, <1>6, <1>7, <1>8, <1>9, ZenonT(60)
            DEF Next, UserStep, handleMessage, TaskStep

-----------------------------------------------------------------------------
(* The order of the loads *)

\* Results, and cancelled tasks, are of tasks that were made.
Made == /\ \A t \in Task : <<"RESULT", t>> \in Mail(looper) => stat[t] # "none"
        /\ \A t \in cancelled : stat[t] # "none"

\* No step posts a result of a task that does not exist.
LEMMA MadeStep == TypeOK /\ Made /\ [Next]_vars => Made'
  <1>. SUFFICES ASSUME TypeOK, Made, [Next]_vars PROVE Made'
    OBVIOUS
  <1>t. /\ looper \in Seq(Messages) /\ cancelled \subseteq Task
        /\ stat \in [Task -> {"none", "queued", "running", "posted", "finished"}]
    BY DEF TypeOK
  <1>a. /\ \A m \in Messages : Mail(Append(looper, m)) = Mail(looper) \union {m}
        /\ looper # <<>> => /\ Mail(Tail(looper)) \subseteq Mail(looper)
                            /\ Tail(looper) \in Seq(Messages)
    BY <1>t, MailFacts, LooperTypes, Zenon
  <1>b. ASSUME \A t \in Task : stat[t] # "none" => stat'[t] # "none",
               cancelled' = cancelled,
               \A t \in Task : <<"RESULT", t>> \in Mail(looper')
                                 => \/ <<"RESULT", t>> \in Mail(looper)
                                    \/ stat'[t] # "none"
        PROVE  Made'
    BY <1>b, <1>t DEF Made
  <1>1. CASE Quiet
    BY <1>1 DEF Quiet, core, Made
  <1>2. CASE Posts
    <2>1. PICK what \in {"NATIVE_FILE", "JAVA_FILE"} : looper' = Append(looper, <<what, Null>>)
      BY <1>2 DEF Posts
    <2>2. Mail(looper') = Mail(looper) \union {<<what, Null>>}
      BY <2>1, <1>a, MessageTypes
    <2>3. stat' = stat /\ cancelled' = cancelled
      BY <1>2 DEF Posts, core
    <2>4. \A t \in Task : <<"RESULT", t>> \in Mail(looper') => <<"RESULT", t>> \in Mail(looper)
      BY <2>2
    <2>. QED  BY <1>b, <2>3, <2>4, Zenon
  <1>3. CASE Takes
    BY <1>3, <1>a, <1>b DEF Takes, core
  <1>4. CASE looper # <<>> /\ (NativeFile \/ JavaFile)
    <2>1. PICK t \in Task, q \in Seq(Messages), C \in SUBSET Task : Makes(t, q, C)
      BY <1>4, MakesTask
    <2>2. Mail(looper') = Mail(q) \union {<<"UPDATE_PROGRESS", Null>>}
      BY <2>1, MailFacts, MessageTypes DEF Makes
    <2>3. \A u \in Task : stat[u] # "none" => stat'[u] # "none"
      BY <2>1 DEF Makes
    <2>4. \A u \in Task : <<"RESULT", u>> \in Mail(looper')
                            => <<"RESULT", u>> \in Mail(looper) \/ u \in C
      BY <2>1, <2>2, <1>4, <1>a DEF Makes
    <2>5. cancelled' = cancelled \union C /\ \A u \in C : u \in Task /\ stat'[u] # "none"
      BY <2>1, <2>3 DEF Makes
    <2>6. \A u \in cancelled' : stat'[u] # "none"
      BY <2>3, <2>5, <1>t DEF Made
    <2>7. \A u \in Task : <<"RESULT", u>> \in Mail(looper') => stat'[u] # "none"
      BY <2>3, <2>4, <2>5 DEF Made
    <2>. QED  BY <2>6, <2>7 DEF Made
  <1>5. CASE looper # <<>> /\ finish
    <2>1. PICK t \in Task : /\ stat' = [stat EXCEPT ![t] = "finished"]
                            /\ looper' = IF t \in cancelled THEN Tail(looper)
                                         ELSE Append(Tail(looper), <<"SEARCH_START", Null>>)
                            /\ cancelled' = cancelled
      BY <1>5, Zenon DEF finish
    <2>2. Mail(looper') \subseteq Mail(looper) \union {<<"SEARCH_START", Null>>}
      <3>1. Mail(Append(Tail(looper), <<"SEARCH_START", Null>>))
              = Mail(Tail(looper)) \union {<<"SEARCH_START", Null>>}
        <4>1. \A m \in Messages : Mail(Append(Tail(looper), m)) = Mail(Tail(looper)) \union {m}
          BY <1>5, <1>a, MailFacts, Zenon
        <4>. QED  BY <4>1, MessageTypes
      <3>. QED  BY <2>1, <1>5, <1>a, <3>1
    <2>. QED  BY <2>1, <2>2, <1>b, <1>t
  <1>6. CASE \E t \in Task : BeginTask(t)
    <2>1. PICK t \in Task : BeginTask(t)
      BY <1>6
    <2>. QED  BY <2>1, <1>b, <1>t DEF BeginTask
  <1>7. CASE BuildModel \/ BuildInterpreter
    BY <1>7 DEF BuildModel, BuildInterpreter, tasks, Made
  <1>8. CASE PostResult
    <2>1. bg \in Task
      BY <1>8 DEF PostResult, TypeOK
    <2>2. Mail(looper') = Mail(looper) \union {<<"RESULT", bg>>}
      BY <1>8, <2>1, <1>a, MessageTypes DEF PostResult
    <2>3. stat' = [stat EXCEPT ![bg] = "posted"] /\ cancelled' = cancelled
      BY <1>8 DEF PostResult
    <2>. QED  BY <2>1, <2>2, <2>3, <1>b, <1>t
  <1>9. CASE Restart
    <2>1. looper' = <<>> /\ cancelled' = {}
      BY <1>9 DEF Restart
    <2>2. Mail(looper') = {}
      BY <2>1, <1>t, MailFacts, Zenon
    <2>. QED  BY <2>1, <2>2 DEF Made
  <1>. QED  BY <1>1, <1>2, <1>3, <1>4, <1>5, <1>6, <1>7, <1>8, <1>9, StepKinds

\* The executor has been through every task up to m.
Begun(m) == \A u \in Task : u <= m => stat[u] \notin {"none", "queued"}

\* Tasks are made in the order of their numbers, and the executor takes them in
\* that order: the network in place is of the task it runs or of an earlier one.
LoadOrder ==
    /\ Begun(model) /\ Begun(interpreter) /\ Begun(bg)
    /\ bg # Null => model <= bg /\ interpreter <= bg
    /\ \A t, u \in Task : u < t /\ stat[t] # "none" => stat[u] # "none"

\* Every step keeps the order.
LEMMA OrderStep == TypeOK /\ Made /\ LoadOrder /\ [Next]_vars => LoadOrder'
  <1>. SUFFICES ASSUME TypeOK, Made, LoadOrder, [Next]_vars PROVE LoadOrder'
    OBVIOUS
  <1>t. /\ looper \in Seq(Messages) /\ Task \subseteq Nat /\ 0 \notin Task
        /\ stat \in [Task -> {"none", "queued", "running", "posted", "finished"}]
        /\ bg \in Task \union {0} /\ model \in Task \union {0} /\ interpreter \in Task \union {0}
    BY TaskAssumption DEF TypeOK, Task, Null
  <1>a. ASSUME \A u \in Task : stat[u] \notin {"none", "queued"}
                                 => stat'[u] \notin {"none", "queued"},
               \A v, u \in Task : u < v /\ stat'[v] # "none" => stat'[u] # "none",
               model' = model, interpreter' = interpreter, bg' = bg \/ bg' = Null
        PROVE  LoadOrder'
    BY <1>a, <1>t DEF LoadOrder, Begun, Null
  <1>s. stat \in [Task -> {"none", "queued", "running", "posted", "finished"}]
    BY <1>t
  <1>b. ASSUME NEW t \in Task, stat[t] # "none", NEW x \in {"posted", "finished"},
               stat' = [stat EXCEPT ![t] = x],
               model' = model, interpreter' = interpreter, bg' = bg \/ bg' = Null
        PROVE  LoadOrder'
    <2>1. \A u \in Task : stat'[u] = stat[u] \/ (u = t /\ stat'[u] = x)
      BY <1>b, <1>s
    <2>2. \A u \in Task : (stat'[u] # "none") <=> (stat[u] # "none")
      BY <2>1, <1>b
    <2>3. \A v, u \in Task : u < v /\ stat'[v] # "none" => stat'[u] # "none"
      BY <2>2 DEF LoadOrder
    <2>. QED  BY <1>a, <1>b, <2>1, <2>3
  <1>1. CASE Quiet \/ Posts \/ Takes
    BY <1>1 DEF Quiet, Posts, Takes, core, LoadOrder, Begun
  <1>2. CASE looper # <<>> /\ (NativeFile \/ JavaFile)
    <2>1. PICK t \in Task, q \in Seq(Messages), C \in SUBSET Task : Makes(t, q, C)
      BY <1>2, MakesTask
    <2>2. /\ stat[t] = "none" /\ \A u \in Task : u < t => stat[u] # "none"
          /\ \A u \in Task : stat[u] # "none" => stat'[u] # "none"
          /\ \A u \in Task : stat'[u] # "none" => stat[u] # "none" \/ u = t
          /\ \A u \in Task : stat[u] \notin {"none", "queued"}
                               => stat'[u] \notin {"none", "queued"}
          /\ model' = model /\ interpreter' = interpreter /\ bg' = bg
      BY <2>1 DEF Makes
    <2>3. \A v, u \in Task : u < v /\ stat'[v] # "none" => stat'[u] # "none"
      BY <2>2 DEF LoadOrder
    <2>. QED  BY <1>a, <2>2, <2>3
  <1>3. CASE looper # <<>> /\ finish
    <2>1. PICK t \in Task : /\ Head(looper) = <<"RESULT", t>>
                            /\ stat' = [stat EXCEPT ![t] = "finished"]
      BY <1>3, Zenon DEF finish
    <2>2. Head(looper) \in Mail(looper)
      BY <1>3, <1>t, MailFacts, Zenon
    <2>3. stat[t] # "none"
      BY <2>1, <2>2, Zenon DEF Made
    <2>4. model' = model /\ interpreter' = interpreter /\ bg' = bg
      BY <1>3 DEF finish, executor, native
    <2>. QED  BY <1>b, <2>1, <2>3, <2>4, Zenon
  <1>4. CASE \E t \in Task : BeginTask(t)
    <2>1. PICK t \in Task : BeginTask(t)
      BY <1>4
    <2>2. /\ stat[t] = "queued" /\ stat' = [stat EXCEPT ![t] = "running"]
          /\ \A u \in Task : u < t => stat[u] # "queued"
          /\ bg' = t /\ model' = model /\ interpreter' = interpreter
      BY <2>1, TaskAssumption DEF BeginTask, native, Task
    <2>3. \A u \in Task : stat'[u] = stat[u] \/ (u = t /\ stat'[u] = "running")
      BY <2>2, <1>s
    <2>4. \A u \in Task : u < t => stat[u] \notin {"none", "queued"}
      BY <2>2 DEF LoadOrder
    <2>5. model < t /\ interpreter < t
      BY <2>2, <1>t DEF LoadOrder, Begun
    <2>6. \A u \in Task : u <= t => stat'[u] \notin {"none", "queued"}
      BY <2>2, <2>3, <2>4, <1>t
    <2>7. \A v, u \in Task : u < v /\ stat'[v] # "none" => stat'[u] # "none"
      BY <2>2, <2>3 DEF LoadOrder
    <2>. QED  BY <2>2, <2>3, <2>5, <2>6, <2>7, <1>t DEF LoadOrder, Begun
  <1>5. CASE BuildModel \/ BuildInterpreter
    <2>1. /\ bg # Null /\ bg' = bg /\ stat' = stat
          /\ model' \in {model, bg} /\ interpreter' \in {interpreter, bg}
      BY <1>5 DEF BuildModel, BuildInterpreter, tasks, TypeOK
    <2>. QED  BY <2>1, <1>t DEF LoadOrder, Begun
  <1>6. CASE PostResult
    <2>1. /\ bg \in Task /\ stat' = [stat EXCEPT ![bg] = "posted"]
          /\ bg' = Null /\ model' = model /\ interpreter' = interpreter
      BY <1>6 DEF PostResult, native, TypeOK
    <2>2. stat[bg] # "none"
      BY <2>1, <1>t DEF LoadOrder, Begun
    <2>. QED  BY <1>b, <2>1, <2>2, Zenon
  <1>7. CASE Restart
    <2>1. /\ stat' = [t \in Task |-> "none"] /\ bg' = Null /\ model' = Null /\ interpreter' = Null
      BY <1>7 DEF Restart
    <2>. QED  BY <2>1, <1>t DEF LoadOrder, Begun, Null
  <1>. QED  BY <1>1, <1>2, <1>3, <1>4, <1>5, <1>6, <1>7, StepKinds

\* A new network is of a later task than the one it replaces.
LEMMA LoadStep ==
    ASSUME TypeOK, LoadOrder, [Next]_vars, died = "none"
    PROVE  interpreter' >= interpreter /\ model' >= model
  <1>t. model \in Nat /\ interpreter \in Nat /\ bg \in Nat
    BY TaskAssumption DEF TypeOK, Task, Null
  <1>1. CASE BuildModel \/ BuildInterpreter
    <2>1. bg # Null /\ model' \in {model, bg} /\ interpreter' \in {interpreter, bg}
      BY <1>1 DEF BuildModel, BuildInterpreter, TypeOK
    <2>. QED  BY <2>1, <1>t DEF LoadOrder
  <1>2. CASE ~BuildModel /\ ~BuildInterpreter
    <2>1. ~Restart
      BY DEF Restart
    <2>2. CASE looper # <<>> /\ (NativeFile \/ JavaFile)
      BY <2>2, <1>t DEF NativeFile, JavaFile, native
    <2>3. CASE looper # <<>> /\ finish
      BY <2>3, <1>t DEF finish, native
    <2>4. CASE \E t \in Task : BeginTask(t)
      BY <2>4, <1>t DEF BeginTask, native
    <2>5. CASE PostResult
      BY <2>5, <1>t DEF PostResult, native
    <2>6. CASE Quiet \/ Posts \/ Takes
      BY <2>6, <1>t DEF Quiet, Posts, Takes, core
    <2>. QED  BY <1>2, <2>1, <2>2, <2>3, <2>4, <2>5, <2>6, StepKinds
  <1>. QED  BY <1>1, <1>2

\* Results and tasks are in order in every state.
LEMMA OrderHolds == Spec => [](Made /\ LoadOrder)
  <1>1. Init => Made /\ LoadOrder
    <2>1. ASSUME Init PROVE Made
      <3>1. looper = <<>> /\ cancelled = {} /\ Mail(looper) = {}
        BY <2>1 DEF Init, Mail
      <3>. QED  BY <3>1 DEF Made
    <2>2. ASSUME Init PROVE LoadOrder
      BY <2>2, TaskAssumption DEF Init, LoadOrder, Begun, Task, Null
    <2>. QED  BY <2>1, <2>2
  <1>. QED  BY <1>1, MadeStep, OrderStep, TypeCorrect, PTL DEF Spec

\* Within a process tflite_load_model() only ever replaces the network by one
\* that was asked for later, and nothing takes it away.
THEOREM LoadsInOrder == Spec => NewestModelWins
  <1>1. TypeOK /\ LoadOrder /\ [Next]_vars
          => [died = "none" => interpreter' >= interpreter /\ model' >= model]_vars
    BY LoadStep
  <1>. QED  BY <1>1, TypeCorrect, OrderHolds, PTL DEF Spec, NewestModelWins

-----------------------------------------------------------------------------
(* The progress dialog *)

Shows  == <<"UPDATE_PROGRESS", Null>>
Hides  == <<"SEARCH_START", Null>>

\* The messages s end with the dialog hidden.
Dismissed(s) == \E i \in 1..Len(s) : /\ s[i] = Hides
                                     /\ \A j \in 1..Len(s) : j > i => s[j] # Shows

\* A task that was not cancelled has still to post its SEARCH_START.
Owed == \E t \in Task \ cancelled : \/ stat[t] \in {"queued", "running"}
                                    \/ <<"RESULT", t>> \in Mail(looper)

\* A dialog that shows, or is about to, will be dismissed by a message that is
\* there or by a task that is not cancelled.
DialogEnds == dialog = "shown" \/ Shows \in Mail(looper) => Dismissed(looper) \/ Owed

\* How Append and Tail change the end.
LEMMA DismissedFacts ==
    ASSUME NEW s \in Seq(Messages)
    PROVE  /\ Dismissed(Append(s, Hides))
           /\ \A m \in Messages : m # Shows /\ Dismissed(s) => Dismissed(Append(s, m))
           /\ s # <<>> /\ Dismissed(s)
                => Dismissed(Tail(s)) \/ (Head(s) = Hides /\ Shows \notin Mail(Tail(s)))
  <1>1. \A m : /\ Len(Append(s, m)) = Len(s) + 1 /\ Append(s, m)[Len(s) + 1] = m
               /\ \A i \in 1..Len(s) : Append(s, m)[i] = s[i]
    BY AppendProperties
  <1>2. Len(s) \in Nat
    OBVIOUS
  <1>3. Dismissed(Append(s, Hides))
    BY <1>1, <1>2 DEF Dismissed
  <1>4. ASSUME NEW m \in Messages, m # Shows, Dismissed(s)
        PROVE  Dismissed(Append(s, m))
    <2>1. PICK i \in 1..Len(s) : s[i] = Hides /\ \A j \in 1..Len(s) : j > i => s[j] # Shows
      BY <1>4 DEF Dismissed
    <2>2. i \in 1..Len(Append(s, m)) /\ Append(s, m)[i] = Hides
      BY <1>1, <1>2, <2>1
    <2>3. ASSUME NEW j \in 1..Len(Append(s, m)), j > i PROVE Append(s, m)[j] # Shows
      <3>1. CASE j = Len(s) + 1
        BY <3>1, <1>1, <1>4
      <3>2. CASE j # Len(s) + 1
        <4>1. j \in 1..Len(s)
          BY <3>2, <1>1, <1>2
        <4>. QED  BY <4>1, <2>1, <2>3, <1>1
      <3>. QED  BY <3>1, <3>2
    <2>. QED  BY <2>2, <2>3 DEF Dismissed
  <1>5. ASSUME s # <<>>, Dismissed(s)
        PROVE  Dismissed(Tail(s)) \/ (Head(s) = Hides /\ Shows \notin Mail(Tail(s)))
    <2>1. PICK i \in 1..Len(s) : s[i] = Hides /\ \A j \in 1..Len(s) : j > i => s[j] # Shows
      BY <1>5 DEF Dismissed
    <2>2. /\ Len(Tail(s)) = Len(s) - 1 /\ Head(s) = s[1]
          /\ \A k \in 1..Len(Tail(s)) : Tail(s)[k] = s[k + 1]
      BY <1>5
    <2>3. \A k \in 1..Len(Tail(s)) : k + 1 \in 1..Len(s)
      BY <1>2, <2>2
    <2>4. CASE i = 1
      <3>1. \A k \in 1..Len(Tail(s)) : Tail(s)[k] # Shows
        BY <2>1, <2>2, <2>3, <2>4
      <3>. QED  BY <2>1, <2>2, <2>4, <3>1 DEF Mail
    <2>5. CASE i # 1
      <3>1. i - 1 \in 1..Len(Tail(s)) /\ (i - 1) + 1 = i
        BY <1>2, <2>2, <2>5
      <3>2. Tail(s)[i - 1] = Hides
        BY <3>1, <2>1, <2>2
      <3>3. \A k \in 1..Len(Tail(s)) : k > i - 1 => Tail(s)[k] # Shows
        BY <2>1, <2>2, <2>3
      <3>. QED  BY <3>1, <3>2, <3>3 DEF Dismissed
    <2>. QED  BY <2>4, <2>5
  <1>. QED  BY <1>3, <1>4, <1>5

\* Every step leaves someone to dismiss the dialog.
LEMMA DialogStep == TypeOK /\ Made /\ DialogEnds /\ [Next]_vars => DialogEnds'
  <1>. SUFFICES ASSUME TypeOK, Made, DialogEnds, [Next]_vars,
                       (dialog = "shown" \/ Shows \in Mail(looper))'
                PROVE  Dismissed(looper') \/ Owed'
    BY DEF DialogEnds
  <1>t. looper \in Seq(Messages) /\ dialog \in {"hidden", "shown"}
    BY DEF TypeOK
  <1>s. stat \in [Task -> {"none", "queued", "running", "posted", "finished"}]
    BY DEF TypeOK
  <1>m. Shows \in Messages /\ Hides \in Messages /\ \A t \in Task : <<"RESULT", t>> \in Messages
    BY MessageTypes DEF Shows, Hides
  <1>a. \A m \in Messages : /\ Mail(Append(looper, m)) = Mail(looper) \union {m}
                            /\ m # Shows /\ Dismissed(looper) => Dismissed(Append(looper, m))
    BY <1>t, MailFacts, DismissedFacts, ZenonT(60)
  <1>b. ASSUME looper # <<>>
        PROVE  /\ Tail(looper) \in Seq(Messages) /\ Head(looper) \in Mail(looper)
               /\ Mail(looper) = Mail(Tail(looper)) \union {Head(looper)}
               /\ Dismissed(looper)
                    => \/ Dismissed(Tail(looper))
                       \/ Head(looper) = Hides /\ Shows \notin Mail(Tail(looper))
    BY <1>b, <1>t, MailFacts, DismissedFacts, LooperTypes, Zenon
  <1>1. CASE Quiet
    <2>1. /\ stat' = stat /\ cancelled' = cancelled /\ looper' = looper
          /\ dialog' \in {dialog, "hidden"}
      BY <1>1 DEF Quiet, core
    <2>2. Owed => Owed'
      BY <2>1 DEF Owed
    <2>. QED  BY <2>1, <2>2 DEF DialogEnds
  <1>2. CASE Posts
    <2>1. PICK what \in {"NATIVE_FILE", "JAVA_FILE"} : looper' = Append(looper, <<what, Null>>)
      BY <1>2 DEF Posts
    <2>2. stat' = stat /\ cancelled' = cancelled /\ dialog' = dialog
      BY <1>2 DEF Posts, core
    <2>3. <<what, Null>> \in Messages /\ <<what, Null>> # Shows
      BY MessageTypes DEF Shows
    <2>4. /\ Mail(looper') = Mail(looper) \union {<<what, Null>>}
          /\ Dismissed(looper) => Dismissed(looper')
      BY <2>1, <2>3, <1>a
    <2>5. Owed => Owed'
      BY <2>2, <2>4 DEF Owed
    <2>. QED  BY <2>2, <2>3, <2>4, <2>5 DEF DialogEnds
  <1>3. CASE Takes
    <2>1. looper # <<>> /\ looper' = Tail(looper) /\ stat' = stat /\ cancelled' = cancelled
      BY <1>3 DEF Takes, core
    <2>2. \/ Head(looper) \notin {Shows, Hides} /\ dialog' = dialog
          \/ Head(looper) = Shows
          \/ Head(looper) = Hides /\ dialog' = "hidden"
      BY <1>3 DEF Takes, FileControlIgnored, Progress, Shows, Hides
    <2>3. \A t \in Task : Head(looper) # <<"RESULT", t>>
      BY <1>3 DEF Takes, FileControlIgnored, Progress
    <2>4. Owed => Owed'
      BY <2>1, <2>3, <1>b DEF Owed
    <2>5. dialog = "shown" \/ Shows \in Mail(looper)
      BY <2>1, <2>2, <1>b
    <2>6. Head(looper) = Hides => Shows \in Mail(Tail(looper))
      BY <2>1, <2>2 DEF Shows, Hides
    <2>. QED  BY <2>1, <2>4, <2>5, <2>6, <1>b DEF DialogEnds
  <1>4. CASE looper # <<>> /\ (NativeFile \/ JavaFile)
    <2>1. PICK t \in Task, q \in Seq(Messages), C \in SUBSET Task : Makes(t, q, C)
      BY <1>4, MakesTask
    <2>2. t \notin cancelled' /\ stat'[t] = "queued"
      BY <2>1 DEF Makes, Made
    <2>. QED  BY <2>2 DEF Owed
  <1>5. CASE looper # <<>> /\ finish
    <2>1. PICK t \in Task : /\ Head(looper) = <<"RESULT", t>>
                            /\ stat' = [stat EXCEPT ![t] = "finished"]
                            /\ looper' = IF t \in cancelled THEN Tail(looper)
                                         ELSE Append(Tail(looper), Hides)
                            /\ cancelled' = cancelled /\ dialog' = dialog
      BY <1>5, Zenon DEF finish, Hides
    <2>2. CASE t \notin cancelled
      <3>1. \A z \in Seq(Messages) : Dismissed(Append(z, Hides))
        BY DismissedFacts, Zenon
      <3>2. looper' = Append(Tail(looper), Hides) /\ Tail(looper) \in Seq(Messages)
        BY <2>1, <2>2, <1>5, <1>b
      <3>. QED  BY <3>1, <3>2, Zenon
    <2>3. CASE t \in cancelled
      <3>1. looper' = Tail(looper)
        BY <2>1, <2>3
      <3>2. Head(looper) \notin {Shows, Hides}
        BY <2>1 DEF Shows, Hides
      <3>3. \A u \in Task \ {t} : stat'[u] = stat[u] /\ <<"RESULT", u>> # Head(looper)
        BY <2>1, <1>s
      <3>4. Owed => Owed'
        <4>1. \A u \in Task \ {t} : <<"RESULT", u>> \in Mail(looper)
                                      => <<"RESULT", u>> \in Mail(looper')
          BY <3>1, <3>3, <1>5, <1>b
        <4>2. SUFFICES ASSUME NEW u \in Task \ cancelled,
                              \/ stat[u] \in {"queued", "running"}
                              \/ <<"RESULT", u>> \in Mail(looper)
                       PROVE  Owed'
          BY Zenon DEF Owed
        <4>3. u \in Task \ {t} /\ u \in Task \ cancelled'
          BY <2>1, <2>3
        <4>4. stat'[u] \in {"queued", "running"} \/ <<"RESULT", u>> \in Mail(looper')
          BY <3>3, <4>1, <4>2, <4>3
        <4>. QED  BY <4>3, <4>4, Zenon DEF Owed
      <3>5. dialog = "shown" \/ Shows \in Mail(looper)
        BY <2>1, <3>1, <1>5, <1>b
      <3>. QED  BY <3>1, <3>2, <3>4, <3>5, <1>5, <1>b DEF DialogEnds
    <2>. QED  BY <2>2, <2>3
  <1>6. CASE \E t \in Task : BeginTask(t)
    <2>1. PICK t \in Task : BeginTask(t)
      BY <1>6
    <2>2. /\ stat' = [stat EXCEPT ![t] = "running"]
          /\ looper' = looper /\ cancelled' = cancelled /\ dialog' = dialog
      BY <2>1 DEF BeginTask
    <2>3. \A u \in Task : stat[u] \in {"queued", "running"} => stat'[u] \in {"queued", "running"}
      BY <2>2, <1>s
    <2>4. Owed => Owed'
      BY <2>2, <2>3 DEF Owed
    <2>. QED  BY <2>2, <2>4 DEF DialogEnds
  <1>7. CASE BuildModel \/ BuildInterpreter
    <2>1. stat' = stat /\ cancelled' = cancelled /\ looper' = looper /\ dialog' = dialog
      BY <1>7 DEF BuildModel, BuildInterpreter, tasks
    <2>2. Owed => Owed'
      BY <2>1 DEF Owed
    <2>. QED  BY <2>1, <2>2 DEF DialogEnds
  <1>8. CASE PostResult
    <2>1. /\ bg \in Task /\ stat' = [stat EXCEPT ![bg] = "posted"]
          /\ looper' = Append(looper, <<"RESULT", bg>>)
          /\ cancelled' = cancelled /\ dialog' = dialog
      BY <1>8 DEF PostResult, TypeOK
    <2>2. <<"RESULT", bg>> \in Messages /\ <<"RESULT", bg>> # Shows
      BY <2>1, <1>m DEF Shows
    <2>3. /\ Mail(looper') = Mail(looper) \union {<<"RESULT", bg>>}
          /\ Dismissed(looper) => Dismissed(looper')
      BY <2>1, <2>2, <1>a
    <2>4. \A u \in Task \ {bg} : stat'[u] = stat[u]
      BY <2>1, <1>s
    <2>5. ASSUME Owed PROVE Owed'
      <3>1. PICK t \in Task \ cancelled : \/ stat[t] \in {"queued", "running"}
                                          \/ <<"RESULT", t>> \in Mail(looper)
        BY <2>5, ZenonT(60) DEF Owed
      <3>2. stat'[t] \in {"queued", "running"} \/ <<"RESULT", t>> \in Mail(looper')
        BY <3>1, <2>3, <2>4
      <3>3. t \in Task \ cancelled'
        BY <2>1
      <3>. QED  BY <3>2, <3>3, Zenon DEF Owed
    <2>. QED  BY <2>1, <2>2, <2>3, <2>5 DEF DialogEnds
  <1>9. CASE Restart
    <2>1. looper' = <<>> /\ dialog' = "hidden" /\ Mail(<<>>) = {}
      BY <1>9, <1>t, MailFacts, Zenon DEF Restart
    <2>. QED  BY <2>1
  <1>. QED  BY <1>1, <1>2, <1>3, <1>4, <1>5, <1>6, <1>7, <1>8, <1>9, StepKinds

\* When the tasks are finished and the looper is empty, progressDialog is not
\* left on the screen, however many tasks were cancelled.
THEOREM DialogGoesAway == Spec => []DialogHiddenWhenIdle
  <1>1. Init => DialogEnds
    <2>1. ASSUME Init PROVE dialog = "hidden" /\ Mail(looper) = {}
      BY <2>1 DEF Init, Mail
    <2>. QED  BY <2>1 DEF DialogEnds
  <1>2. TypeOK /\ DialogEnds => DialogHiddenWhenIdle
    <2>. SUFFICES ASSUME TypeOK, DialogEnds, looper = <<>>,
                         \A t \in Task : stat[t] \in {"none", "finished"}
                  PROVE  dialog = "hidden"
      BY DEF DialogHiddenWhenIdle
    <2>1. Mail(looper) = {} /\ ~Dismissed(looper)
      BY DEF Mail, Dismissed
    <2>2. \A t \in Task : stat[t] \notin {"queued", "running"}
      OBVIOUS
    <2>3. ~Owed
      BY <2>1, <2>2, Zenon DEF Owed
    <2>. QED  BY <2>1, <2>3 DEF DialogEnds, TypeOK
  <1>. QED  BY <1>1, <1>2, DialogStep, TypeCorrect, OrderHolds, PTL DEF Spec

=============================================================================
