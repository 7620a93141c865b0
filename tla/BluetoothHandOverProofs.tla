---------------------- MODULE BluetoothHandOverProofs ----------------------
(***************************************************************************)
(* How the threads of BluetoothService hand a socket over, and how each one *)
(* goes through its run(): what the liveness proofs need of the reachable  *)
(* states and of the steps.                                                *)
(***************************************************************************)
EXTENDS BluetoothServiceProofs

USE SMTT(60)

\* A socket is handed to a ConnectedThread once, by the one thread that has it,
\* and what is handed over is not null.
HandOver ==
    /\ \A s \in Link :
          /\ sock[s] = "none" => ct[s] = "none" /\ cd[s] = "none"
          /\ cd[s] # "none" => ct[s] \in {"none", "done"} /\ sock[s] # "null"
          /\ ct[s] \notin {"none", "connect"} => sock[s] # "null"
    /\ mConnectedThread # Null => cd[mConnectedThread] # "none"
    /\ \A a \in Accept :
          at[a] = "switch" => /\ ct[socket[a]] = "none" /\ cd[socket[a]] = "none"
                              /\ sock[socket[a]] # "null"
    /\ \A a, b \in Accept :
          at[a] = "switch" /\ at[b] = "switch" /\ socket[a] = socket[b] => a = b

\* The places of a ConnectThread from which it will take the service out of
\* STATE_CONNECTING.
Attempting == {"connect", "reset", "connected", "failed"}

\* STATE_CONNECTING has an attempt that has not yet set the state, and every
\* server socket has its thread.
Attempted ==
    /\ mState = STATE_CONNECTING => \E s \in Link : ct[s] \in Attempting
    /\ \A a \in Accept : srv[a] # "none" => at[a] # "none"
    /\ mAcceptThread # Null => srv[mAcceptThread] # "none"

LiveInv == IInv /\ HandOver /\ Attempted

\* A step that hands no socket over, accepts none and makes none: sockets are
\* closed or change their state, and a ConnectThread may go on.
Quiet ==
    /\ \A s \in Link : \/ sock'[s] = sock[s]
                       \/ sock[s] # "none" /\ sock'[s] \notin {"none", "null"}
    /\ \A s \in Link : \/ ct'[s] = ct[s]
                       \/ /\ ct[s] \notin {"none", "done"} /\ ct'[s] # "none"
                          /\ sock'[s] # "null"
    /\ cd' = cd \/ \A s \in Link : cd[s] = "none" <=> cd'[s] = "none"
    /\ mConnectedThread' \in {mConnectedThread, Null}
    /\ \A a \in Accept : at'[a] = "switch" => at[a] = "switch" /\ socket'[a] = socket[a]

\* Such a step keeps the hand-over.
LEMMA QuietKeepsHandOver ==
    ASSUME IInv, HandOver, Quiet
    PROVE  HandOver'
<1> USE NullIsNoObject
<1>1. /\ \A a \in Accept : at[a] = "switch" => socket[a] \in Link /\ sock[socket[a]] # "none"
      /\ mConnectedThread \in Link \union {Null}
  BY DEF IInv, Aux, TypeOK
<1>2. \A s \in Link : cd[s] = "none" <=> cd'[s] = "none"
  BY DEF Quiet
<1>3. ASSUME NEW s \in Link
      PROVE  /\ sock'[s] = "none" => ct'[s] = "none" /\ cd'[s] = "none"
             /\ cd'[s] # "none" => ct'[s] \in {"none", "done"} /\ sock'[s] # "null"
             /\ ct'[s] \notin {"none", "connect"} => sock'[s] # "null"
  BY <1>2 DEF Quiet, HandOver
<1>4. mConnectedThread' # Null => cd'[mConnectedThread'] # "none"
  BY <1>1, <1>2 DEF Quiet, HandOver
<1>5. ASSUME NEW a \in Accept, at'[a] = "switch"
      PROVE  /\ ct'[socket'[a]] = "none" /\ cd'[socket'[a]] = "none"
             /\ sock'[socket'[a]] # "null"
  BY <1>1, <1>2, <1>5 DEF Quiet, HandOver
<1>6. ASSUME NEW a \in Accept, NEW b \in Accept, at'[a] = "switch", at'[b] = "switch",
             socket'[a] = socket'[b]
      PROVE  a = b
  BY <1>6 DEF Quiet, HandOver
<1>7. QED
  BY <1>3, <1>4, <1>5, <1>6 DEF HandOver

\* connected(s) hands over a socket that nobody else has, or has had.
LEMMA connectedHandsOver ==
    ASSUME IInv, HandOver, NEW s \in Link, connected(s),
           sock[s] \notin {"none", "null"}, cd[s] = "none",
           (ct' = ct /\ ct[s] = "none") \/ ct' = [ct EXCEPT ![s] = "done"],
           \A a \in Accept : at'[a] = "switch" =>
              at[a] = "switch" /\ socket'[a] = socket[a] /\ socket[a] # s
    PROVE  HandOver'
<1> USE NullIsNoObject
<1>0. /\ cd \in [Link -> ConnectedPCs] /\ ct \in [Link -> ConnectPCs]
      /\ sock \in [Link -> SocketStates]
      /\ \A a \in Accept : at[a] = "switch" => socket[a] \in Link /\ sock[socket[a]] # "none"
  BY DEF IInv, Aux, TypeOK
<1>1. /\ cd' = [cd EXCEPT ![s] = "read"] /\ mConnectedThread' = s
      /\ sock' = [t \in Link |-> IF t \in {mConnectThread, mConnectedThread}
                                 THEN "closed" ELSE sock[t]]
  BY DEF connected, CloseSockets
<1>2. /\ \A t \in Link : sock'[t] = sock[t] \/ sock'[t] = "closed"
      /\ \A t \in Link : sock'[t] = "none" => sock[t] = "none"
      /\ \A t \in Link : sock'[t] = "null" => sock[t] = "null"
  BY <1>1
<1>3. /\ cd'[s] = "read" /\ ct'[s] \in {"none", "done"} /\ sock'[s] \notin {"none", "null"}
      /\ \A t \in Link \ {s} : cd'[t] = cd[t] /\ ct'[t] = ct[t]
  BY <1>0, <1>1, <1>2
<1>4. ASSUME NEW t \in Link, sock'[t] = "none" PROVE ct'[t] = "none" /\ cd'[t] = "none"
  BY <1>2, <1>3, <1>4 DEF HandOver
<1>5. ASSUME NEW t \in Link
      PROVE  /\ cd'[t] # "none" => ct'[t] \in {"none", "done"} /\ sock'[t] # "null"
             /\ ct'[t] \notin {"none", "connect"} => sock'[t] # "null"
  BY <1>2, <1>3 DEF HandOver
<1>6. mConnectedThread' # Null => cd'[mConnectedThread'] # "none"
  BY <1>1, <1>3
<1>7. ASSUME NEW a \in Accept, at'[a] = "switch"
      PROVE  /\ ct'[socket'[a]] = "none" /\ cd'[socket'[a]] = "none"
             /\ sock'[socket'[a]] # "null"
  <2>1. socket'[a] = socket[a] /\ socket[a] \in Link \ {s} /\ at[a] = "switch"
    BY <1>0, <1>7
  <2>2. QED
    BY <1>2, <1>3, <2>1 DEF HandOver
<1>8. ASSUME NEW a \in Accept, NEW b \in Accept, at'[a] = "switch", at'[b] = "switch",
             socket'[a] = socket'[b]
      PROVE  a = b
  BY <1>8 DEF HandOver
<1>9. QED
  BY <1>4, <1>5, <1>6, <1>7, <1>8 DEF HandOver

\* A new socket, of a ConnectThread or of an AcceptThread that accepted it.
LEMMA NewSocketHandOver ==
    ASSUME IInv, HandOver, NEW s \in Link, sock[s] = "none", sock'[s] # "none",
           \A t \in Link \ {s} : ct'[t] = ct[t] /\
              (sock'[t] = sock[t] \/ (sock[t] # "none" /\ sock'[t] = "closed")),
           cd' = cd, mConnectedThread' \in {mConnectedThread, Null},
           \/ ct'[s] = "connect" /\ UNCHANGED <<at, socket>>
           \/ /\ ct'[s] = "none" /\ sock'[s] = "up"
              /\ \E a \in Accept :
                    /\ socket' = [socket EXCEPT ![a] = s]
                    /\ \A b \in Accept \ {a} : at'[b] = at[b]
    PROVE  HandOver'
<1> USE NullIsNoObject
<1>0. /\ \A a \in Accept : at[a] = "switch" => socket[a] \in Link \ {s}
      /\ mConnectedThread \in Link \union {Null}
      /\ socket \in [Accept -> Link \union {Null}]
      /\ cd[s] = "none"
  BY DEF IInv, Aux, TypeOK, HandOver
<1>1. ASSUME NEW t \in Link
      PROVE  /\ sock'[t] = "none" => ct'[t] = "none" /\ cd'[t] = "none"
             /\ cd'[t] # "none" => ct'[t] \in {"none", "done"} /\ sock'[t] # "null"
             /\ ct'[t] \notin {"none", "connect"} => sock'[t] # "null"
  BY <1>0 DEF HandOver
<1>2. mConnectedThread' # Null => cd'[mConnectedThread'] # "none"
  BY DEF HandOver
<1>3. ASSUME NEW a \in Accept, at'[a] = "switch"
      PROVE  \/ at[a] = "switch" /\ socket'[a] = socket[a] /\ socket[a] # s
             \/ /\ socket'[a] = s /\ ct'[s] = "none" /\ sock'[s] = "up"
                /\ \A b \in Accept \ {a} : at'[b] = at[b] /\ socket'[b] = socket[b]
  BY <1>0, <1>3
<1>4. ASSUME NEW a \in Accept, at'[a] = "switch"
      PROVE  /\ ct'[socket'[a]] = "none" /\ cd'[socket'[a]] = "none"
             /\ sock'[socket'[a]] # "null"
  <2>1. CASE at[a] = "switch" /\ socket'[a] = socket[a] /\ socket[a] # s
    <3>1. socket[a] \in Link \ {s}
      BY <1>0, <2>1
    <3>2. QED
      BY <2>1, <3>1 DEF HandOver
  <2>2. CASE socket'[a] = s /\ ct'[s] = "none" /\ sock'[s] = "up"
    BY <1>0, <2>2
  <2>3. QED
    BY <1>3, <1>4, <2>1, <2>2
<1>5. ASSUME NEW a \in Accept, NEW b \in Accept, at'[a] = "switch", at'[b] = "switch",
             socket'[a] = socket'[b]
      PROVE  a = b
  BY <1>0, <1>3, <1>5 DEF HandOver
<1>6. QED
  BY <1>1, <1>2, <1>4, <1>5 DEF HandOver

\* The synchronized methods that close and make no hand-over are quiet.
LEMMA startIsQuiet ==
    ASSUME IInv, start
    PROVE  /\ \A s \in Link : \/ sock'[s] = sock[s]
                              \/ sock[s] # "none" /\ sock'[s] = "closed"
           /\ mConnectedThread' = Null
           /\ \A a \in Accept : at'[a] = at[a] \/ at'[a] = "while"
<1>1. /\ mConnectThread # Null => sock[mConnectThread] # "none"
      /\ mConnectedThread # Null => sock[mConnectedThread] # "none"
      /\ at \in [Accept -> AcceptPCs]
  BY DEF IInv, Aux, TypeOK
<1>2. QED
  BY <1>1, NullIsNoObject DEF start, CloseSockets, NewAcceptThread

\* Every step of a live process keeps the hand-over.
LEMMA HandOverStep ==
    ASSUME IInv, HandOver, [Next]_vars
    PROVE  HandOver'
<1>a. /\ ct \in [Link -> ConnectPCs] /\ cd \in [Link -> ConnectedPCs]
      /\ sock \in [Link -> SocketStates]
      /\ at \in [Accept -> AcceptPCs] /\ socket \in [Accept -> Link \union {Null}]
  BY DEF IInv, TypeOK
<1>b. /\ \A s \in Link : ct[s] # "none" => sock[s] # "none"
      /\ mConnectThread # Null => sock[mConnectThread] # "none"
      /\ mConnectedThread # Null => sock[mConnectedThread] # "none"
      /\ \A a \in Accept : at[a] = "switch" => socket[a] \in Link /\ sock[socket[a]] # "none"
  BY DEF IInv, Aux
<1>c. \A s \in Link : ct[s] \notin {"none", "connect"} => sock[s] # "null"
  BY DEF HandOver
<1> USE DEF Quiet
<1>1. CASE ClientStart
  <2>1. Quiet
    BY <1>1, startIsQuiet DEF ClientStart
  <2>2. QED
    BY <2>1, QuietKeepsHandOver
<1>2. CASE ClientStop
  <2>1. Quiet
    BY <1>2, <1>b, NullIsNoObject DEF ClientStop, stop, CloseSockets, threads
  <2>2. QED
    BY <2>1, QuietKeepsHandOver
<1>3. ASSUME NEW s \in Link, ClientConnect(s) PROVE HandOver'
  <2>1. /\ sock[s] = "none" /\ sock'[s] # "none" /\ ct' = [ct EXCEPT ![s] = "connect"]
        /\ cd' = cd /\ mConnectedThread' = Null /\ UNCHANGED <<at, socket>>
    BY <1>3 DEF ClientConnect, connect, NewLink
  <2>2. \A t \in Link \ {s} : \/ sock'[t] = sock[t]
                              \/ sock'[t] = "closed" /\ t \in {mConnectThread, mConnectedThread}
    BY <1>3 DEF ClientConnect, connect
  <2>3. ASSUME NEW t \in Link \ {s}
        PROVE  ct'[t] = ct[t] /\
                 (sock'[t] = sock[t] \/ (sock[t] # "none" /\ sock'[t] = "closed"))
    <3>1. ct'[t] = ct[t]
      BY <1>a, <2>1
    <3>2. t # Null
      BY NullIsNoObject
    <3>3. t \in {mConnectThread, mConnectedThread} => sock[t] # "none"
      BY <1>b, <3>2, Zenon
    <3>4. QED
      BY <2>2, <3>1, <3>3, Zenon
  <2>4. ct'[s] = "connect"
    BY <1>a, <2>1
  <2>5. QED
    BY <2>1, <2>3, <2>4, NewSocketHandOver
<1>4. CASE WriteCopy \/ WriteOut \/ NullPointer
  <2>1. Quiet
    BY <1>4 DEF WriteCopy, WriteOut, NullPointer, fields, threads
  <2>2. QED
    BY <2>1, QuietKeepsHandOver
<1>5. ASSUME NEW s \in Link, ConnectSucceeds(s) \/ ConnectThrows(s) PROVE HandOver'
  <2>1. Quiet
    BY <1>a, <1>5 DEF ConnectSucceeds, ConnectThrows, fields
  <2>2. QED
    BY <2>1, QuietKeepsHandOver
<1>6. ASSUME NEW s \in Link, connectionFailed(s) \/ ResetConnectThread(s) PROVE HandOver'
  <2>1. Quiet
    BY <1>a, <1>c, <1>6 DEF connectionFailed, ResetConnectThread
  <2>2. QED
    BY <2>1, QuietKeepsHandOver
<1>7. ASSUME NEW s \in Link, FailedClose(s) PROVE HandOver'
  <2>1. Quiet
    BY <1>a, <1>b, <1>7 DEF FailedClose, CloseSockets, fields
  <2>2. QED
    BY <2>1, QuietKeepsHandOver
<1>8. ASSUME NEW s \in Link, FailedStart(s) PROVE HandOver'
  <2>1. Quiet
    BY <1>a, <1>c, <1>8, startIsQuiet DEF FailedStart
  <2>2. QED
    BY <2>1, QuietKeepsHandOver
<1>9. ASSUME NEW s \in Link, ConnectThreadConnected(s) PROVE HandOver'
  <2>1. ct[s] = "connected" /\ connected(s) /\ ct' = [ct EXCEPT ![s] = "done"]
        /\ UNCHANGED <<at, socket>>
    BY <1>9 DEF ConnectThreadConnected
  <2>2. sock[s] \notin {"none", "null"} /\ cd[s] = "none"
    BY <1>b, <1>c, <2>1 DEF HandOver
  <2>3. \A a \in Accept : at'[a] = "switch" =>
           at[a] = "switch" /\ socket'[a] = socket[a] /\ socket[a] # s
    BY <2>1 DEF HandOver
  <2>4. QED
    BY <2>1, <2>2, <2>3, connectedHandsOver, Zenon
<1>10. ASSUME NEW s \in Link, PeerLost(s) \/ ReadReturns(s) PROVE HandOver'
  <2>1. Quiet
    BY <1>a, <1>10 DEF PeerLost, ReadReturns, fields, threads
  <2>2. QED
    BY <2>1, QuietKeepsHandOver
<1>11. ASSUME NEW s \in Link, ReadThrows(s) \/ connectionLost(s) PROVE HandOver'
  <2>1. \A t \in Link : cd[t] = "none" <=> cd'[t] = "none"
    BY <1>a, <1>11 DEF ReadThrows, connectionLost
  <2>2. Quiet
    BY <1>11, <2>1 DEF ReadThrows, connectionLost, fields
  <2>3. QED
    BY <2>2, QuietKeepsHandOver
<1>12. ASSUME NEW s \in Link, LostStart(s) PROVE HandOver'
  <2>1. \A t \in Link : cd[t] = "none" <=> cd'[t] = "none"
    BY <1>a, <1>12 DEF LostStart
  <2>2. Quiet
    BY <1>12, <2>1, startIsQuiet DEF LostStart
  <2>3. QED
    BY <2>2, QuietKeepsHandOver
<1>13. ASSUME NEW a \in Accept, AcceptWhile(a) \/ AcceptCancelled(a) \/ AcceptThrows(a)
       PROVE  HandOver'
  <2>1. Quiet
    BY <1>a, <1>13 DEF AcceptWhile, AcceptCancelled, AcceptThrows, fields
  <2>2. QED
    BY <2>1, QuietKeepsHandOver
<1>14. ASSUME NEW a \in Accept, NEW s \in Link, AcceptReturns(a, s) PROVE HandOver'
  <2>1. /\ sock[s] = "none" /\ sock' = [sock EXCEPT ![s] = "up"]
        /\ socket' = [socket EXCEPT ![a] = s] /\ at' = [at EXCEPT ![a] = "switch"]
        /\ UNCHANGED <<ct, cd, mConnectedThread>>
    BY <1>14 DEF AcceptReturns, NewLink, fields
  <2>2. ct[s] = "none"
    BY <2>1 DEF HandOver
  <2>3. sock'[s] = "up" /\ \A t \in Link \ {s} : sock'[t] = sock[t]
    BY <1>a, <2>1
  <2>4. \A b \in Accept \ {a} : at'[b] = at[b]
    BY <1>a, <2>1
  <2>5. \E b \in Accept : /\ socket' = [socket EXCEPT ![b] = s]
                          /\ \A c \in Accept \ {b} : at'[c] = at[c]
    BY <2>1, <2>4, Zenon
  <2>6. \A t \in Link \ {s} : ct'[t] = ct[t] /\
           (sock'[t] = sock[t] \/ (sock[t] # "none" /\ sock'[t] = "closed"))
    BY <2>1, <2>3, Zenon
  <2>7. sock'[s] # "none" /\ ct'[s] = "none" /\ mConnectedThread' \in {mConnectedThread, Null}
    BY <2>1, <2>2, <2>3
  <2>8. QED
    BY <2>1, <2>3, <2>5, <2>6, <2>7, NewSocketHandOver, Zenon
<1>15. ASSUME NEW a \in Accept, AcceptSwitch(a) PROVE HandOver'
  <2>1. /\ at[a] = "switch" /\ ct' = ct /\ at' = [at EXCEPT ![a] = "while"]
        /\ socket' = [socket EXCEPT ![a] = Null]
        /\ socket[a] \in Link /\ sock[socket[a]] \notin {"none", "null"}
        /\ cd[socket[a]] = "none" /\ ct[socket[a]] = "none"
    BY <1>15, <1>b DEF AcceptSwitch, HandOver
  <2>2. \A b \in Accept : at'[b] = "switch" =>
           at[b] = "switch" /\ socket'[b] = socket[b] /\ socket[b] # socket[a]
    BY <1>a, <2>1 DEF HandOver
  <2>3. CASE connected(socket[a])
    BY <2>1, <2>2, <2>3, connectedHandsOver
  <2>4. CASE CloseSockets({socket[a]}) /\ UNCHANGED <<fields, cd>>
    <3>1. Quiet
      BY <2>1, <2>2, <2>4 DEF CloseSockets, fields
    <3>2. QED
      BY <3>1, QuietKeepsHandOver
  <2>5. QED
    BY <1>15, <2>3, <2>4 DEF AcceptSwitch
<1>16. CASE UNCHANGED vars
  BY <1>16 DEF vars, fields, threads, HandOver
<1>17. QED
  BY <1>1, <1>2, <1>3, <1>4, <1>5, <1>6, <1>7, <1>8, <1>9, <1>10, <1>11, <1>12, <1>13,
     <1>14, <1>15, <1>16 DEF Next, ClientStep, ConnectThreadStep, ConnectedThreadStep,
     AcceptThreadStep

\* A socket is handed to a ConnectedThread once: the places of the three kinds
\* of threads never give two of them the same socket to work on.
THEOREM SocketsAreHandedOver == Spec => []HandOver
<1>1. Init => HandOver
  BY DEF Init, HandOver
<1>2. QED
  BY <1>1, HandOverStep, Invariance, PTL DEF Spec


\* One step of a ConnectThread's run(), and what it makes of the state.
ConnectMove(t) ==
    /\ \A u \in Link \ {t} : ct'[u] = ct[u]
    /\ \/ ct[t] = "connect" /\ ct'[t] \in {"reset", "failed"} /\ mState' = mState
       \/ ct[t] = "reset" /\ ct'[t] = "connected" /\ mState' = mState
       \/ ct[t] = "connected" /\ ct'[t] = "done" /\ mState' = STATE_CONNECTED
       \/ ct[t] = "failed" /\ ct'[t] = "close" /\ mState' = STATE_LISTEN
       \/ ct[t] = "close" /\ ct'[t] = "start" /\ mState' = mState
       \/ ct[t] = "start" /\ ct'[t] = "done" /\ mState' = STATE_LISTEN

\* The same of a ConnectedThread and of an AcceptThread.
ConnectedMove(s) ==
    /\ \A u \in Link \ {s} : cd'[u] = cd[u]
    /\ \/ cd[s] = "read" /\ cd'[s] = "lost" /\ streams[s] # "null"
       \/ cd[s] = "lost" /\ cd'[s] = "start"
       \/ cd[s] = "start" /\ cd'[s] = "done"

AcceptMove(a) ==
    /\ \A b \in Accept \ {a} : at'[b] = at[b]
    /\ \/ at[a] = "while" /\ at'[a] \in {"accept", "done"}
       \/ at[a] = "accept" /\ at'[a] = "done"
       \/ at[a] = "switch" /\ at'[a] = "while"

\* The threads go through their run() in these moves.
LEMMA ConnectMoves ==
    ASSUME TypeOK, NEW t \in Link, ConnectThreadStep(t)
    PROVE  ConnectMove(t)
<1>1. ct \in [Link -> ConnectPCs]
  BY DEF TypeOK
<1>2. CASE ConnectSucceeds(t) \/ ConnectThrows(t)
  BY <1>1, <1>2 DEF ConnectSucceeds, ConnectThrows, ConnectMove, fields
<1>3. CASE connectionFailed(t) \/ FailedClose(t) \/ ResetConnectThread(t)
  BY <1>1, <1>3 DEF connectionFailed, FailedClose, ResetConnectThread, setState, ConnectMove,
     fields
<1>4. CASE FailedStart(t)
  BY <1>1, <1>4 DEF FailedStart, start, setState, ConnectMove
<1>5. CASE ConnectThreadConnected(t)
  BY <1>1, <1>5 DEF ConnectThreadConnected, connected, setState, ConnectMove
<1>6. QED
  BY <1>2, <1>3, <1>4, <1>5 DEF ConnectThreadStep

LEMMA ConnectedMoves ==
    ASSUME TypeOK, NEW s \in Link, ConnectedThreadStep(s)
    PROVE  ConnectedMove(s) /\ ct' = ct
<1>1. cd \in [Link -> ConnectedPCs]
  BY DEF TypeOK
<1>2. QED
  BY <1>1 DEF ConnectedThreadStep, ReadThrows, connectionLost, LostStart, ConnectedMove

LEMMA AcceptMoves ==
    ASSUME TypeOK, NEW a \in Accept, AcceptThreadStep(a)
    PROVE  AcceptMove(a) /\ ct' = ct
<1>1. at \in [Accept -> AcceptPCs]
  BY DEF TypeOK
<1>2. QED
  BY <1>1 DEF AcceptThreadStep, AcceptWhile, AcceptCancelled, AcceptSwitch, AcceptMove

\* Nobody but a ConnectThread itself moves it once it is made; connect() makes
\* another one.
LEMMA ConnectOnlyMovesItself ==
    ASSUME LiveInv, [Next]_vars, NEW t \in Link, ct[t] # "none"
    PROVE  ct'[t] = ct[t] \/ (~Dead /\ ConnectThreadStep(t))
<1>1. ct \in [Link -> ConnectPCs] /\ TypeOK /\ sock[t] # "none"
  BY DEF LiveInv, IInv, TypeOK, HandOver
<1>2. CASE ClientStep
  <2>1. CASE ClientStart \/ ClientStop \/ WriteCopy \/ WriteOut
    BY <2>1 DEF ClientStart, ClientStop, WriteCopy, WriteOut, threads
  <2>2. ASSUME NEW s \in Link, ClientConnect(s) PROVE ct'[t] = ct[t]
    BY <1>1, <2>2 DEF ClientConnect, connect, NewLink
  <2>3. QED
    BY <1>2, <2>1, <2>2 DEF ClientStep
<1>3. ASSUME NEW s \in Link, ~Dead, ConnectThreadStep(s)
      PROVE  ct'[t] = ct[t] \/ ConnectThreadStep(t)
  <2>1. CASE s = t
    BY <1>3, <2>1
  <2>2. CASE s # t
    BY <1>1, <1>3, <2>2, ConnectMoves DEF ConnectMove
  <2>3. QED
    BY <2>1, <2>2
<1>4. ASSUME NEW s \in Link, ConnectedThreadStep(s) \/ ReadReturns(s) \/ PeerLost(s)
      PROVE  ct' = ct
  BY <1>1, <1>4, ConnectedMoves DEF ReadReturns, PeerLost, threads
<1>5. ASSUME NEW a \in Accept, AcceptThreadStep(a) \/ AcceptThrows(a) PROVE ct' = ct
  BY <1>1, <1>5, AcceptMoves DEF AcceptThrows
<1>6. ASSUME NEW a \in Accept, NEW s \in Link, AcceptReturns(a, s) PROVE ct' = ct
  BY <1>6 DEF AcceptReturns
<1>7. CASE NullPointer \/ UNCHANGED vars
  BY <1>7 DEF NullPointer, vars, threads
<1>8. QED
  BY <1>2, <1>3, <1>4, <1>5, <1>6, <1>7 DEF Next

=============================================================================
