---------------------- MODULE BluetoothLivenessProofs ----------------------
(***************************************************************************)
(* Liveness of BluetoothService, for any number of sockets, AcceptThreads  *)
(* and client calls: from FairSpec and StepsEnabled, which takes the place *)
(* of the meaning of ENABLED in the proofs.                                *)
(***************************************************************************)
EXTENDS BluetoothHandOverProofs

USE SMTT(60)

\* A server socket comes with its thread, whichever of the synchronized methods
\* makes or closes one.
LEMMA ServersHaveThreads ==
    ASSUME LiveInv,
           \/ start
           \/ /\ CancelAccept \/ UNCHANGED <<mAcceptThread, srv>>
              /\ \A a \in Accept : at[a] # "none" => at'[a] # "none"
    PROVE  /\ \A a \in Accept : srv'[a] # "none" => at'[a] # "none"
           /\ mAcceptThread' # Null => srv'[mAcceptThread'] # "none"
<1>1. /\ srv \in [Accept -> ServerStates] /\ at \in [Accept -> AcceptPCs]
      /\ mAcceptThread \in Accept \union {Null}
      /\ mAcceptThread # Null => srv[mAcceptThread] # "none"
      /\ \A a \in Accept : srv[a] # "none" => at[a] # "none"
  BY DEF LiveInv, IInv, TypeOK, Attempted
<1>2. CASE start
  BY <1>1, <1>2, NullIsNoObject DEF start, NewAcceptThread
<1>3. CASE /\ CancelAccept \/ UNCHANGED <<mAcceptThread, srv>>
           /\ \A a \in Accept : at[a] # "none" => at'[a] # "none"
  BY <1>1, <1>3, NullIsNoObject DEF CancelAccept
<1>4. QED
  BY <1>2, <1>3

\* An attempt ends only by setting the state.
LEMMA AttemptedStep ==
    ASSUME LiveInv, [Next]_vars
    PROVE  Attempted'
<1>0. TypeOK /\ ct \in [Link -> ConnectPCs] /\ at \in [Accept -> AcceptPCs]
  BY DEF LiveInv, IInv, TypeOK
<1> DEFINE Away    == mState' # STATE_CONNECTING \/ mState' = mState
           Started == \A a \in Accept : at[a] # "none" => at'[a] # "none"
           Servers == start \/ ((CancelAccept \/ UNCHANGED <<mAcceptThread, srv>>) /\ Started)
<1> USE DEF setState, STATE_CONNECTING, STATE_LISTEN, STATE_NONE, STATE_CONNECTED
<1>1. ASSUME ClientStart PROVE Away /\ Servers
  BY <1>1 DEF ClientStart, start
<1>2. ASSUME ClientStop \/ WriteCopy \/ WriteOut PROVE Away /\ Servers
  BY <1>2 DEF ClientStop, stop, WriteCopy, WriteOut, fields, threads
<1>3. ASSUME NEW s \in Link, ClientConnect(s) PROVE ct'[s] = "connect" /\ Servers
  BY <1>0, <1>3 DEF ClientConnect, connect
<1>4. ASSUME NEW s \in Link, ConnectThreadStep(s) PROVE Away /\ Servers
  <2>1. Away
    BY <1>0, <1>4, ConnectMoves DEF ConnectMove
  <2>2. CASE FailedStart(s)
    BY <2>1, <2>2 DEF FailedStart
  <2>3. CASE ConnectThreadConnected(s)
    BY <2>1, <2>3 DEF ConnectThreadConnected, connected
  <2>4. QED
    BY <1>4, <2>1, <2>2, <2>3 DEF ConnectThreadStep, ConnectSucceeds, ConnectThrows,
       connectionFailed, FailedClose, ResetConnectThread, fields
<1>5. ASSUME NEW s \in Link, ConnectedThreadStep(s) PROVE Away /\ Servers
  BY <1>5 DEF ConnectedThreadStep, ReadThrows, connectionLost, LostStart, start, fields
<1>6. ASSUME NEW s \in Link, ReadReturns(s) \/ PeerLost(s) PROVE Away /\ Servers
  BY <1>6 DEF ReadReturns, PeerLost, fields, threads
<1>7. ASSUME NEW a \in Accept, AcceptThreadStep(a) \/ AcceptThrows(a) PROVE Away /\ Servers
  <2>1. Started
    BY <1>0, <1>7, AcceptMoves DEF AcceptMove, AcceptThrows
  <2>2. QED
    BY <1>7, <2>1 DEF AcceptThreadStep, AcceptWhile, AcceptCancelled, AcceptSwitch, connected,
       AcceptThrows, fields
<1>8. ASSUME NEW a \in Accept, NEW s \in Link, AcceptReturns(a, s) PROVE Away /\ Servers
  BY <1>0, <1>8 DEF AcceptReturns, fields
<1>9. ASSUME NullPointer \/ UNCHANGED vars PROVE Away /\ Servers
  BY <1>9 DEF NullPointer, vars, fields, threads
<1>10. Servers /\ (Away \/ \E s \in Link : ct'[s] = "connect")
  BY <1>1, <1>2, <1>3, <1>4, <1>5, <1>6, <1>7, <1>8, <1>9 DEF Next, ClientStep
<1>11. ASSUME mState' = STATE_CONNECTING, mState' = mState
       PROVE  \E s \in Link : ct'[s] \in Attempting
  <2>1. PICK s \in Link : ct[s] \in Attempting
    BY <1>11 DEF LiveInv, Attempted
  <2>2. ct'[s] = ct[s] \/ ConnectMove(s)
    BY <1>0, <2>1, ConnectOnlyMovesItself, ConnectMoves DEF Attempting
  <2>3. ct'[s] \in Attempting
    BY <1>11, <2>1, <2>2 DEF ConnectMove, Attempting
  <2>4. QED
    BY <2>3
<1>12. QED
  BY <1>10, <1>11, ServersHaveThreads DEF Attempted, Attempting

\* The three facts hold together.
LEMMA LiveInvariance == Spec => []LiveInv
<1>1. Init => Attempted
  BY DEF Init, Attempted, STATE_NONE, STATE_CONNECTING
<1>2. IInv /\ HandOver /\ Attempted /\ [Next]_vars => Attempted'
  BY AttemptedStep DEF LiveInv
<1>3. QED
  BY <1>1, <1>2, Invariance, SocketsAreHandedOver, PTL DEF Spec, LiveInv


\* A null socket stays: what is closed or handed over is another one, and
\* cancelling it is the end of the process (NullPointer).
LEMMA NullSocketStays ==
    ASSUME LiveInv, [Next]_vars, NullSocket
    PROVE  NullSocket'
<1>0. /\ sock \in [Link -> SocketStates] /\ srv \in [Accept -> ServerStates]
      /\ mConnectThread \in Link \union {Null} /\ mAcceptThread \in Accept \union {Null}
      /\ mConnectedThread # Null => mConnectedThread \in Link /\ sock[mConnectedThread] # "null"
      /\ \A s \in Link : ct[s] \notin {"none", "connect"} => sock[s] # "null"
      /\ \A a \in Accept : at[a] = "switch" => sock[socket[a]] # "null"
  BY DEF LiveInv, IInv, TypeOK, HandOver
<1> DEFINE SockStays == \A s \in Link : sock[s] = "null" => sock'[s] = "null"
           SrvStays  == \A a \in Accept : srv[a] = "null" => srv'[a] = "null"
<1> USE NullIsNoObject DEF Cancellable, CloseSockets
<1>a. ASSUME start PROVE SockStays /\ SrvStays
  BY <1>0, <1>a DEF start, NewAcceptThread, NewAccept
<1>b. ASSUME CancelAccept PROVE SrvStays
  BY <1>0, <1>b DEF CancelAccept
<1>c. ASSUME NEW s \in Link, connected(s) PROVE SockStays /\ SrvStays
  BY <1>0, <1>b, <1>c DEF connected
<1>1. ASSUME ClientStart PROVE SockStays /\ SrvStays
  BY <1>1, <1>a DEF ClientStart
<1>2. ASSUME ClientStop PROVE SockStays /\ SrvStays
  BY <1>0, <1>b, <1>2 DEF ClientStop, stop
<1>3. ASSUME NEW s \in Link, ClientConnect(s) PROVE SockStays /\ SrvStays
  BY <1>0, <1>3 DEF ClientConnect, connect, NewLink
<1>4. ASSUME NEW s \in Link, ConnectThreadStep(s) PROVE SockStays /\ SrvStays
  <2>1. CASE FailedStart(s) \/ ConnectThreadConnected(s)
    BY <1>a, <1>c, <2>1 DEF FailedStart, ConnectThreadConnected
  <2>2. CASE FailedClose(s)
    BY <1>0, <2>2 DEF FailedClose
  <2>3. QED
    BY <1>0, <1>4, <2>1, <2>2 DEF ConnectThreadStep, ConnectSucceeds, ConnectThrows,
       connectionFailed, ResetConnectThread
<1>5. ASSUME NEW s \in Link, ConnectedThreadStep(s) PROVE SockStays /\ SrvStays
  BY <1>a, <1>5 DEF ConnectedThreadStep, ReadThrows, connectionLost, LostStart
<1>6. ASSUME NEW s \in Link, ReadReturns(s) \/ PeerLost(s) PROVE SockStays /\ SrvStays
  BY <1>0, <1>6 DEF ReadReturns, PeerLost
<1>7. ASSUME NEW a \in Accept, AcceptThreadStep(a) \/ AcceptThrows(a)
      PROVE  SockStays /\ SrvStays
  <2>1. CASE AcceptSwitch(a)
    <3>1. socket[a] \in Link
      BY <2>1 DEF AcceptSwitch, LiveInv, IInv, Aux
    <3>2. QED
      BY <1>0, <1>c, <2>1, <3>1 DEF AcceptSwitch
  <2>2. QED
    BY <1>7, <2>1 DEF AcceptThreadStep, AcceptWhile, AcceptCancelled, AcceptThrows
<1>8. ASSUME NEW a \in Accept, NEW s \in Link, AcceptReturns(a, s)
      PROVE  SockStays /\ SrvStays
  BY <1>0, <1>8 DEF AcceptReturns, NewLink
<1>9. ASSUME WriteCopy \/ WriteOut \/ NullPointer \/ UNCHANGED vars
      PROVE  SockStays /\ SrvStays
  BY <1>9 DEF WriteCopy, WriteOut, NullPointer, vars
<1>10. SockStays /\ SrvStays
  BY <1>1, <1>2, <1>3, <1>4, <1>5, <1>6, <1>7, <1>8, <1>9 DEF Next, ClientStep
<1>11. QED
  BY <1>10 DEF NullSocket

\* A process with a null socket dies.
LEMMA NullIsFatal == FairSpec /\ []StepsEnabled => (NullSocket ~> Dead)
<1>1. LiveInv /\ NullSocket /\ [Next]_vars => NullSocket'
  BY NullSocketStays
<1>2. <<~Dead /\ NullPointer>>_vars => Dead'
  BY DEF NullPointer, Dead
<1>3. NullSocket => NullCanStep
  BY DEF NullCanStep
<1>4. StepsEnabled => (~Dead /\ NullCanStep => ENABLED <<~Dead /\ NullPointer>>_vars)
  BY DEF StepsEnabled, NullEnabled
<1>5. Fairness => WF_vars(~Dead /\ NullPointer)
  BY PTL DEF Fairness
<1>6. QED
  BY <1>1, <1>2, <1>3, <1>4, <1>5, LiveInvariance, PTL DEF FairSpec, Spec


\* Every thread is scheduled.
LEMMA ThreadsAreFair ==
    Fairness => /\ \A s \in Link : ConnectFairness(s) /\ ConnectedFairness(s)
                /\ \A a \in Accept : AcceptFairness(a)
BY PTL DEF Fairness

\* What ConnectingEnds promises from now on, and for one attempt.
Left == mState # STATE_CONNECTING \/ Dead

LeftLater == <>Left

AttemptEnds(s) == (mState = STATE_CONNECTING /\ ct[s] \in Attempting) => LeftLater

\* An attempt takes the service out of STATE_CONNECTING: it goes on until it
\* has called connected() or connectionFailed(), unless somebody else has set
\* the state before.
LEMMA AttemptsEnd ==
    ASSUME NEW s \in Link
    PROVE  FairSpec /\ []StepsEnabled => []AttemptEnds(s)
<1> DEFINE At(p) == ct[s] = p /\ mState = STATE_CONNECTING
           Step  == ~Dead /\ ConnectThreadStep(s)
<1>1. ASSUME LiveInv, [Next]_vars, ct[s] \in Attempting
      PROVE  ct'[s] = ct[s] \/ ConnectMove(s)
  <2>1. TypeOK
    BY <1>1 DEF LiveInv, IInv
  <2>2. QED
    BY <1>1, <2>1, ConnectOnlyMovesItself, ConnectMoves DEF Attempting
<1>2. ASSUME LiveInv, ConnectThreadStep(s) PROVE ConnectMove(s)
  BY <1>2, ConnectMoves DEF LiveInv, IInv
<1> USE DEF Attempting, ConnectMove, Left, STATE_CONNECTING, STATE_LISTEN, STATE_CONNECTED
<1>3. /\ LiveInv /\ At("connect") /\ [Next]_vars
           => At("connect")' \/ At("reset")' \/ At("failed")' \/ Left'
      /\ LiveInv /\ At("connect") /\ <<Step>>_vars => At("reset")' \/ At("failed")' \/ Left'
  BY <1>1, <1>2
<1>4. /\ LiveInv /\ At("reset") /\ [Next]_vars => At("reset")' \/ At("connected")' \/ Left'
      /\ LiveInv /\ At("reset") /\ <<Step>>_vars => At("connected")' \/ Left'
  BY <1>1, <1>2
<1>5. /\ LiveInv /\ At("connected") /\ [Next]_vars => At("connected")' \/ Left'
      /\ LiveInv /\ At("connected") /\ <<Step>>_vars => Left'
  BY <1>1, <1>2
<1>6. /\ LiveInv /\ At("failed") /\ [Next]_vars => At("failed")' \/ Left'
      /\ LiveInv /\ At("failed") /\ <<Step>>_vars => Left'
  BY <1>1, <1>2
<1>7. /\ At("connect") \/ At("reset") \/ At("connected") \/ At("failed") => ConnectCanStep(s)
      /\ mState = STATE_CONNECTING /\ ct[s] \in Attempting
           => At("connect") \/ At("reset") \/ At("connected") \/ At("failed")
      /\ Dead => Left
  BY DEF ConnectCanStep
<1>8. StepsEnabled => ConnectEnabled(s)
  BY DEF StepsEnabled
<1>9. Fairness => ConnectFairness(s)
  BY ThreadsAreFair
<1> HIDE DEF Attempting, ConnectMove, Left, At, STATE_CONNECTING
<1>10. QED
  BY <1>3, <1>4, <1>5, <1>6, <1>7, <1>8, <1>9, LiveInvariance, NullIsFatal, PTL
     DEF FairSpec, Spec, ConnectEnabled, ConnectFairness, AttemptEnds, LeftLater

\* The service never stays in STATE_CONNECTING: connect(), start(), stop() and
\* the other threads may cancel or replace an attempt, but what is left of it,
\* or the one after it, still ends the state.
THEOREM ConnectingDoesEnd == FairSpec /\ []StepsEnabled => ConnectingEnds
<1>1. FairSpec /\ []StepsEnabled => \A s \in Link : []AttemptEnds(s)
  BY AttemptsEnd
<1>2. (\A s \in Link : []AttemptEnds(s)) => [](\A s \in Link : AttemptEnds(s))
  OBVIOUS
<1>3. (\A s \in Link : AttemptEnds(s)) /\ LiveInv => (mState = STATE_CONNECTING => LeftLater)
  BY DEF AttemptEnds, LiveInv, Attempted
<1>4. QED
  BY <1>1, <1>2, <1>3, LiveInvariance, PTL DEF FairSpec, ConnectingEnds, LeftLater, Left


\* A server socket that is closed stays closed, and its thread is moved by
\* nobody else.
LEMMA ClosedListenerStep ==
    ASSUME LiveInv, [Next]_vars, NEW a \in Accept, srv[a] = "closed"
    PROVE  srv'[a] = "closed" /\ (at'[a] = at[a] \/ AcceptMove(a))
<1>0. TypeOK /\ at \in [Accept -> AcceptPCs] /\ srv \in [Accept -> ServerStates]
  BY DEF LiveInv, IInv, TypeOK
<1>a. ASSUME start PROVE srv'[a] = "closed" /\ at'[a] = at[a]
  BY <1>0, <1>a DEF start, NewAcceptThread, NewAccept
<1>b. ASSUME CancelAccept PROVE srv'[a] = "closed"
  BY <1>0, <1>b DEF CancelAccept
<1>1. CASE ClientStep
  <2>1. CASE ClientStart \/ ClientStop \/ WriteCopy \/ WriteOut
    BY <1>a, <1>b, <2>1 DEF ClientStart, ClientStop, stop, WriteCopy, WriteOut, threads
  <2>2. ASSUME NEW s \in Link, ClientConnect(s) PROVE srv' = srv /\ at' = at
    BY <2>2 DEF ClientConnect
  <2>3. QED
    BY <1>1, <2>1, <2>2 DEF ClientStep
<1>2. ASSUME NEW s \in Link, ConnectThreadStep(s) PROVE srv'[a] = "closed" /\ at'[a] = at[a]
  BY <1>2, <1>a, <1>b DEF ConnectThreadStep, ConnectSucceeds, ConnectThrows, connectionFailed,
     FailedClose, FailedStart, ResetConnectThread, ConnectThreadConnected, connected
<1>3. ASSUME NEW s \in Link, ConnectedThreadStep(s) \/ ReadReturns(s) \/ PeerLost(s)
      PROVE  srv'[a] = "closed" /\ at'[a] = at[a]
  BY <1>3, <1>a DEF ConnectedThreadStep, ReadThrows, connectionLost, LostStart, ReadReturns,
     PeerLost, threads
<1>4. ASSUME NEW b \in Accept, AcceptThreadStep(b)
      PROVE  srv'[a] = "closed" /\ (at'[a] = at[a] \/ AcceptMove(a))
  <2>1. srv'[a] = "closed"
    BY <1>4, <1>b DEF AcceptThreadStep, AcceptWhile, AcceptCancelled, AcceptSwitch, connected
  <2>2. CASE b = a
    BY <1>0, <1>4, <2>1, <2>2, AcceptMoves
  <2>3. CASE b # a
    BY <1>0, <1>4, <2>1, <2>3, AcceptMoves DEF AcceptMove
  <2>4. QED
    BY <2>2, <2>3
<1>5. ASSUME NEW b \in Accept, AcceptThrows(b) PROVE srv'[a] = "closed" /\ at'[a] = at[a]
  BY <1>0, <1>5 DEF AcceptThrows
<1>6. ASSUME NEW b \in Accept, NEW s \in Link, AcceptReturns(b, s)
      PROVE  srv'[a] = "closed" /\ at'[a] = at[a]
  BY <1>0, <1>6 DEF AcceptReturns
<1>7. CASE NullPointer \/ UNCHANGED vars
  BY <1>7 DEF NullPointer, vars, threads
<1>8. QED
  BY <1>1, <1>2, <1>3, <1>4, <1>5, <1>6, <1>7 DEF Next

\* A cancelled listener ends, wherever in its run() cancel() met it: in
\* accept(), before it, or with an accepted socket waiting for the monitor.
THEOREM CancelledAcceptDoesEnd == FairSpec /\ []StepsEnabled => CancelledAcceptEnds
<1> SUFFICES ASSUME NEW a \in Accept
             PROVE  FairSpec /\ []StepsEnabled
                      => ((srv[a] = "closed") ~> (at[a] = "done" \/ Dead))
  BY DEF CancelledAcceptEnds
<1> DEFINE At(p) == at[a] = p /\ srv[a] = "closed"
           Step  == ~Dead /\ AcceptThreadStep(a)
           Ended == at[a] = "done" \/ Dead
<1>1. ASSUME LiveInv, [Next]_vars, srv[a] = "closed"
      PROVE  srv'[a] = "closed" /\ (at'[a] = at[a] \/ AcceptMove(a))
  BY <1>1, ClosedListenerStep
<1>2. ASSUME LiveInv, <<Step>>_vars, srv[a] = "closed"
      PROVE  srv'[a] = "closed" /\ AcceptMove(a)
  <2>1. TypeOK
    BY <1>2 DEF LiveInv, IInv
  <2>2. Next
    BY <1>2 DEF Next
  <2>3. QED
    BY <1>2, <2>1, <2>2, ClosedListenerStep, AcceptMoves
<1> USE DEF AcceptMove
<1>3. /\ LiveInv /\ At("switch") /\ [Next]_vars => At("switch")' \/ At("while")'
      /\ LiveInv /\ At("switch") /\ <<Step>>_vars => At("while")'
  BY <1>1, <1>2
<1>4. /\ LiveInv /\ At("while") /\ [Next]_vars => At("while")' \/ At("accept")' \/ Ended'
      /\ LiveInv /\ At("while") /\ <<Step>>_vars => At("accept")' \/ Ended'
  BY <1>1, <1>2
<1>5. /\ LiveInv /\ At("accept") /\ [Next]_vars => At("accept")' \/ Ended'
      /\ LiveInv /\ At("accept") /\ <<Step>>_vars => Ended'
  BY <1>1, <1>2
<1>6. /\ At("switch") \/ At("while") \/ At("accept") => AcceptCanStep(a)
      /\ LiveInv /\ srv[a] = "closed" => At("switch") \/ At("while") \/ At("accept") \/ Ended
      /\ Dead => Ended
  BY DEF AcceptCanStep, LiveInv, Attempted, IInv, TypeOK, AcceptPCs
<1>7. StepsEnabled => AcceptEnabled(a)
  BY DEF StepsEnabled
<1>8. Fairness => AcceptFairness(a)
  BY ThreadsAreFair
<1>9. FairSpec /\ []StepsEnabled => ((srv[a] = "closed") ~> Ended)
  <2> HIDE DEF At, Ended
  <2>1. QED
    BY <1>3, <1>4, <1>5, <1>6, <1>7, <1>8, LiveInvariance, NullIsFatal, PTL
       DEF FairSpec, Spec, AcceptEnabled, AcceptFairness
<1>10. QED
  BY <1>9


\* A ConnectedThread is moved by nobody else, keeps the streams it was made
\* with, and a socket that is lost or closed does not come back.
LEMMA ConnectedStep ==
    ASSUME LiveInv, [Next]_vars, NEW s \in Link, cd[s] # "none"
    PROVE  /\ cd'[s] = cd[s] \/ ConnectedMove(s)
           /\ streams'[s] = streams[s]
           /\ sock[s] \in {"lost", "closed"} => sock'[s] \in {"lost", "closed"}
<1>0. /\ TypeOK /\ cd \in [Link -> ConnectedPCs] /\ sock \in [Link -> SocketStates]
      /\ streams \in [Link -> StreamStates] /\ sock[s] # "none"
  BY DEF LiveInv, IInv, TypeOK, HandOver
<1> DEFINE Keeps == /\ cd'[s] = cd[s] /\ streams'[s] = streams[s]
                    /\ sock[s] \in {"lost", "closed"} => sock'[s] \in {"lost", "closed"}
<1>a. ASSUME start PROVE sock[s] \in {"lost", "closed"} => sock'[s] \in {"lost", "closed"}
  BY <1>a DEF start, CloseSockets
<1>b. ASSUME NEW t \in Link \ {s}, connected(t) PROVE Keeps
  BY <1>0, <1>b DEF connected, CloseSockets
<1>1. ASSUME ClientStep PROVE Keeps
  <2>1. CASE ClientStart \/ ClientStop \/ WriteCopy \/ WriteOut
    BY <1>a, <2>1 DEF ClientStart, ClientStop, stop, CloseSockets, WriteCopy, WriteOut, threads
  <2>2. ASSUME NEW t \in Link, ClientConnect(t) PROVE Keeps
    BY <1>0, <2>2 DEF ClientConnect, connect, NewLink
  <2>3. QED
    BY <1>1, <2>1, <2>2 DEF ClientStep
<1>2. ASSUME NEW t \in Link, ConnectThreadStep(t) PROVE Keeps
  <2>1. CASE ConnectThreadConnected(t)
    <3>1. t # s
      BY <2>1 DEF ConnectThreadConnected, LiveInv, HandOver
    <3>2. QED
      BY <1>b, <2>1, <3>1 DEF ConnectThreadConnected
  <2>2. CASE FailedStart(t)
    BY <1>a, <2>2 DEF FailedStart
  <2>3. QED
    BY <1>0, <1>2, <2>1, <2>2 DEF ConnectThreadStep, ConnectSucceeds, ConnectThrows,
       connectionFailed, FailedClose, CloseSockets, ResetConnectThread
<1>3. ASSUME NEW t \in Link, ConnectedThreadStep(t)
      PROVE  /\ cd'[s] = cd[s] \/ ConnectedMove(s)
             /\ streams'[s] = streams[s]
             /\ sock[s] \in {"lost", "closed"} => sock'[s] \in {"lost", "closed"}
  <2>1. cd'[s] = cd[s] \/ ConnectedMove(s)
    <3>1. ConnectedMove(t)
      BY <1>0, <1>3, ConnectedMoves
    <3>2. CASE t = s
      BY <3>1, <3>2
    <3>3. CASE t # s
      BY <3>1, <3>3 DEF ConnectedMove
    <3>4. QED
      BY <3>2, <3>3
  <2>2. QED
    BY <1>3, <1>a, <2>1 DEF ConnectedThreadStep, ReadThrows, connectionLost, LostStart
<1>4. ASSUME NEW t \in Link, ReadReturns(t) \/ PeerLost(t) PROVE Keeps
  BY <1>0, <1>4 DEF ReadReturns, PeerLost, threads
<1>5. ASSUME NEW a \in Accept, AcceptThreadStep(a) \/ AcceptThrows(a) PROVE Keeps
  <2>1. CASE AcceptSwitch(a)
    <3>1. socket[a] \in Link \ {s}
      BY <2>1 DEF AcceptSwitch, LiveInv, IInv, Aux, HandOver
    <3>2. QED
      BY <1>b, <2>1, <3>1 DEF AcceptSwitch, CloseSockets
  <2>2. QED
    BY <1>5, <2>1 DEF AcceptThreadStep, AcceptWhile, AcceptCancelled, AcceptThrows
<1>6. ASSUME NEW a \in Accept, NEW t \in Link, AcceptReturns(a, t) PROVE Keeps
  <2>1. t # s /\ sock' = [sock EXCEPT ![t] = "up"] /\ cd' = cd /\ streams' = streams
    BY <1>0, <1>6 DEF AcceptReturns, NewLink
  <2>2. QED
    BY <1>0, <2>1
<1>7. ASSUME NullPointer \/ UNCHANGED vars PROVE Keeps
  BY <1>7 DEF NullPointer, vars, threads
<1>8. QED
  BY <1>1, <1>2, <1>3, <1>4, <1>5, <1>6, <1>7 DEF Next

\* A lost or cancelled connection is noticed: read() throws, and the thread
\* goes through connectionLost() and start() to its end, or a stream that was
\* null has ended the process.  CanStart says that it is not the bound on
\* AcceptThreads that keeps start() from making one.
THEOREM LostDoesGetNoticed ==
    FairSpec /\ []StepsEnabled /\ []CanStart => LostIsNoticed
<1> SUFFICES ASSUME NEW s \in Link
             PROVE  FairSpec /\ []StepsEnabled /\ []CanStart =>
                      ((cd[s] = "read" /\ sock[s] \in {"lost", "closed"})
                         ~> (cd[s] = "done" \/ Dead))
  BY DEF LostIsNoticed
<1> DEFINE Broken == /\ cd[s] = "read" /\ streams[s] # "null"
                     /\ sock[s] \in {"lost", "closed"}
           NoStream == cd[s] = "read" /\ streams[s] = "null"
           Ended == cd[s] = "done" \/ Dead
           Step == ~Dead /\ ConnectedThreadStep(s)
<1>1. ASSUME LiveInv, [Next]_vars, cd[s] # "none"
      PROVE  /\ cd'[s] = cd[s] \/ ConnectedMove(s)
             /\ streams'[s] = streams[s]
             /\ sock[s] \in {"lost", "closed"} => sock'[s] \in {"lost", "closed"}
  BY <1>1, ConnectedStep
<1>2. ASSUME LiveInv, <<Step>>_vars PROVE ConnectedMove(s)
  BY <1>2, ConnectedMoves DEF LiveInv, IInv
<1> USE DEF ConnectedMove
<1>3. /\ LiveInv /\ Broken /\ [Next]_vars => Broken' \/ (cd[s] = "lost")'
      /\ LiveInv /\ Broken /\ <<Step>>_vars => (cd[s] = "lost")'
  BY <1>1, <1>2
<1>4. /\ LiveInv /\ cd[s] = "lost" /\ [Next]_vars => (cd[s] = "lost")' \/ (cd[s] = "start")'
      /\ LiveInv /\ cd[s] = "lost" /\ <<Step>>_vars => (cd[s] = "start")'
  BY <1>1, <1>2
<1>5. /\ LiveInv /\ cd[s] = "start" /\ [Next]_vars => (cd[s] = "start")' \/ Ended'
      /\ LiveInv /\ cd[s] = "start" /\ <<Step>>_vars => Ended'
  BY <1>1, <1>2
<1>6. LiveInv /\ NoStream /\ [Next]_vars => NoStream'
  BY <1>1
<1>7. <<~Dead /\ NullPointer>>_vars => Dead'
  BY DEF NullPointer, Dead
<1>8. /\ CanStart /\ (Broken \/ cd[s] = "lost" \/ cd[s] = "start") => ConnectedCanStep(s)
      /\ NoStream => NullCanStep
      /\ cd[s] = "read" /\ sock[s] \in {"lost", "closed"} => Broken \/ NoStream
      /\ Dead => Ended
  BY DEF ConnectedCanStep, NullCanStep
<1>9. StepsEnabled => ConnectedEnabled(s) /\ NullEnabled
  BY DEF StepsEnabled
<1>10. Fairness => ConnectedFairness(s)
  BY ThreadsAreFair
<1>11. Fairness => WF_vars(~Dead /\ NullPointer)
  BY PTL DEF Fairness
<1>12. FairSpec /\ []StepsEnabled /\ []CanStart =>
         ((cd[s] = "read" /\ sock[s] \in {"lost", "closed"}) ~> Ended)
  <2> HIDE DEF Broken, NoStream, Ended
  <2>1. QED
    BY <1>3, <1>4, <1>5, <1>6, <1>7, <1>8, <1>9, <1>10, <1>11, LiveInvariance, NullIsFatal,
       PTL DEF FairSpec, Spec, ConnectedEnabled, NullEnabled, ConnectedFairness
<1>13. QED
  BY <1>12
=============================================================================
