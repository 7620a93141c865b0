----------------------- MODULE BluetoothServiceProofs -----------------------
(***************************************************************************)
(* Proofs about BluetoothService, for any number of sockets, AcceptThreads *)
(* and client calls.                                                       *)
(***************************************************************************)
EXTENDS BluetoothService, TLAPS

USE SMTT(60)

\* 0 stands for null and is neither a socket nor an AcceptThread.
LEMMA NullIsNoObject == Null \notin Link /\ Null \notin Accept
  BY ServiceAssumption DEF Null, Link, Accept

\* The bodies of the synchronized methods keep the types of what they assign.
LEMMA startType ==
    ASSUME TypeOK, start
    PROVE  /\ mState' \in STATE_NONE..STATE_CONNECTED
           /\ mAcceptThread' \in Accept \union {Null}
           /\ mConnectThread' \in Link \union {Null}
           /\ mConnectedThread' \in Link \union {Null}
           /\ sock' \in [Link -> SocketStates]
           /\ srv' \in [Accept -> ServerStates]
           /\ at' \in [Accept -> AcceptPCs]
  BY DEF TypeOK, start, NewAcceptThread, CloseSockets, setState, STATE_NONE,
         STATE_LISTEN, STATE_CONNECTED, SocketStates, ServerStates, AcceptPCs

\* So does connected(), whichever socket it is given.
LEMMA connectedType ==
    ASSUME TypeOK, NEW s \in Link \union {Null}, connected(s)
    PROVE  /\ mState' \in STATE_NONE..STATE_CONNECTED
           /\ mAcceptThread' \in Accept \union {Null}
           /\ mConnectThread' \in Link \union {Null}
           /\ mConnectedThread' \in Link \union {Null}
           /\ sock' \in [Link -> SocketStates]
           /\ srv' \in [Accept -> ServerStates]
           /\ cd' \in [Link -> ConnectedPCs]
           /\ streams' \in [Link -> StreamStates]
<1>1. PICK result \in StreamStates \ {"none"} :
             streams' = [streams EXCEPT ![s] = result]
  BY Zenon DEF connected
<1>2. streams' \in [Link -> StreamStates]
  BY <1>1, Zenon DEF TypeOK
<1>3. cd' \in [Link -> ConnectedPCs]
  BY Zenon DEF connected, TypeOK, ConnectedPCs
<1>4. QED
  BY <1>2, <1>3 DEF TypeOK, connected, CancelAccept, CloseSockets, setState, STATE_NONE,
         STATE_CONNECTED, SocketStates, ServerStates


-----------------------------------------------------------------------------
\* Every step keeps the types.
LEMMA TypeStep ==
    ASSUME TypeOK, [Next]_vars
    PROVE  TypeOK'
<1> USE DEF Exceptions
<1>1. CASE ClientStart
  BY startType, <1>1 DEF ClientStart, TypeOK
<1>2. CASE ClientStop
  BY <1>2 DEF ClientStop, stop, CancelAccept, CloseSockets, setState, TypeOK, threads,
     STATE_NONE, STATE_CONNECTED, SocketStates, ServerStates
<1>3. ASSUME NEW s \in Link, ClientConnect(s) PROVE TypeOK'
  BY <1>3 DEF ClientConnect, connect, setState, TypeOK, STATE_NONE, STATE_CONNECTING,
     STATE_CONNECTED, SocketStates, ConnectPCs
<1>4. CASE WriteCopy
  BY <1>4 DEF WriteCopy, TypeOK, fields, threads
<1>5. CASE WriteOut
  BY <1>5 DEF WriteOut, TypeOK, fields, threads
<1>6. ASSUME NEW s \in Link, ConnectSucceeds(s) PROVE TypeOK'
  BY <1>6 DEF ConnectSucceeds, TypeOK, fields, client, SocketStates, ConnectPCs
<1>7. ASSUME NEW s \in Link, ConnectThrows(s) PROVE TypeOK'
  BY <1>7 DEF ConnectThrows, TypeOK, fields, client, ConnectPCs
<1>8. ASSUME NEW s \in Link, connectionFailed(s) PROVE TypeOK'
  BY <1>8 DEF connectionFailed, setState, TypeOK, client, ConnectPCs,
     STATE_NONE, STATE_LISTEN, STATE_CONNECTED
<1>9. ASSUME NEW s \in Link, FailedClose(s) PROVE TypeOK'
  BY <1>9 DEF FailedClose, CloseSockets, TypeOK, fields, client, SocketStates, ConnectPCs
<1>10. ASSUME NEW s \in Link, FailedStart(s) PROVE TypeOK'
  BY startType, <1>10 DEF FailedStart, TypeOK, client, ConnectPCs
<1>11. ASSUME NEW s \in Link, ResetConnectThread(s) PROVE TypeOK'
  BY <1>11 DEF ResetConnectThread, TypeOK, client, ConnectPCs
<1>12. ASSUME NEW s \in Link, ConnectThreadConnected(s) PROVE TypeOK'
  BY connectedType, <1>12 DEF ConnectThreadConnected, TypeOK, client, ConnectPCs
<1>13. ASSUME NEW s \in Link, PeerLost(s) PROVE TypeOK'
  BY <1>13 DEF PeerLost, TypeOK, fields, threads, client, SocketStates
<1>14. ASSUME NEW s \in Link, ReadThrows(s) PROVE TypeOK'
  BY <1>14 DEF ReadThrows, TypeOK, fields, client, ConnectedPCs
<1>15. ASSUME NEW s \in Link, ReadReturns(s) PROVE TypeOK'
  BY <1>15 DEF ReadReturns, TypeOK, fields, threads, client
<1>16. ASSUME NEW s \in Link, connectionLost(s) PROVE TypeOK'
  BY <1>16 DEF connectionLost, setState, TypeOK, client, ConnectedPCs,
     STATE_NONE, STATE_LISTEN, STATE_CONNECTED
<1>17. ASSUME NEW s \in Link, LostStart(s) PROVE TypeOK'
  BY startType, <1>17 DEF LostStart, TypeOK, client, ConnectedPCs
<1>18. ASSUME NEW a \in Accept, AcceptWhile(a) PROVE TypeOK'
  BY <1>18 DEF AcceptWhile, TypeOK, fields, client, AcceptPCs
<1>19. ASSUME NEW a \in Accept, NEW s \in Link, AcceptReturns(a, s) PROVE TypeOK'
  BY <1>19 DEF AcceptReturns, TypeOK, fields, client, SocketStates, AcceptPCs
<1>20. ASSUME NEW a \in Accept, AcceptCancelled(a) PROVE TypeOK'
  BY <1>20 DEF AcceptCancelled, TypeOK, fields, client, AcceptPCs
<1>21. ASSUME NEW a \in Accept, AcceptThrows(a) PROVE TypeOK'
  BY <1>21 DEF AcceptThrows, TypeOK, fields, client, AcceptPCs
<1>22. ASSUME NEW a \in Accept, AcceptSwitch(a) PROVE TypeOK'
  <2>1. CASE mState \in {STATE_LISTEN, STATE_CONNECTING} /\ connected(socket[a])
    <3>1. PICK s \in Link \union {Null} : s = socket[a]
      BY DEF TypeOK
    <3>2. connected(s)
      BY <2>1, <3>1
    <3>3. QED
      BY connectedType, <1>22, <3>2 DEF AcceptSwitch, TypeOK, client, AcceptPCs
  <2>2. CASE CloseSockets({socket[a]}) /\ UNCHANGED <<fields, cd, streams, srv>>
    BY <1>22, <2>2 DEF AcceptSwitch, CloseSockets, TypeOK, fields, client, SocketStates, AcceptPCs
  <2>3. QED
    BY <1>22, <2>1, <2>2 DEF AcceptSwitch
<1>23. CASE NullPointer
  BY <1>23 DEF NullPointer, TypeOK, fields, threads, client
<1>24. CASE UNCHANGED vars
  BY <1>24 DEF vars, fields, threads, client, TypeOK
<1>q. QED
  BY <1>1, <1>2, <1>3, <1>4, <1>5, <1>6, <1>7, <1>8, <1>9, <1>10, <1>11, <1>12,
     <1>13, <1>14, <1>15, <1>16, <1>17, <1>18, <1>19, <1>20, <1>21, <1>22, <1>23, <1>24
  DEF Next, ClientStep, ConnectThreadStep, ConnectedThreadStep, AcceptThreadStep

\* Type correctness: no interleaving of the client, the threads and the remote
\* devices takes a field, a socket or a thread outside its type.
THEOREM TypeCorrect == Spec => []TypeOK
<1>1. Init => TypeOK
  BY ServiceAssumption
  DEF Init, TypeOK, STATE_NONE, STATE_CONNECTED, SocketStates, ServerStates,
      ConnectPCs, ConnectedPCs, AcceptPCs, StreamStates, Exceptions
<1>2. TypeOK /\ [Next]_vars => TypeOK'
  BY TypeStep
<1>3. QED
  BY <1>1, <1>2, PTL DEF Spec

-----------------------------------------------------------------------------
(***************************************************************************)
(* The inductive invariant.  What the properties need besides themselves:  *)
(* a thread that works on a socket has one, and a server socket comes      *)
(* before its AcceptThread runs; a ConnectThread that reaches start() has  *)
(* closed its own socket; the thread that write() finds in                 *)
(* STATE_CONNECTED, or has already copied, was made by connected().        *)
(***************************************************************************)
Aux ==
    /\ \A a \in Accept :
          /\ at[a] = "switch" => socket[a] \in Link /\ sock[socket[a]] # "none"
          /\ srv[a] = "none" => at[a] = "none"
    /\ \A s \in Link :
          /\ ct[s] # "none" => sock[s] # "none"
          /\ ct[s] = "start" => sock[s] = "closed"
    /\ mConnectThread # Null => sock[mConnectThread] # "none"
    /\ mState = STATE_CONNECTED => mConnectedThread # Null
    /\ mConnectedThread # Null => /\ streams[mConnectedThread] # "none"
                                  /\ sock[mConnectedThread] # "none"
    /\ pc = "write" => r # Null /\ streams[r] # "none"

IInv ==
    /\ TypeOK
    /\ Aux
    /\ NullOnlyFromConstructor
    /\ OpenSocketIsOwned
    /\ OneConnection
    /\ OneListener
    /\ ListenHasAcceptThread
    /\ ConnectingHasAttempt

\* Every step of a live process keeps the inductive invariant.  The steps that
\* run a synchronized method can disturb several conjuncts, each in a step of
\* its own; none of them throws, so NullOnlyFromConstructor is about the rest.
LEMMA InvStep ==
    ASSUME IInv, TypeOK', Next
    PROVE  IInv'
<1> USE NullIsNoObject
    DEF STATE_NONE, STATE_LISTEN, STATE_CONNECTING, STATE_CONNECTED, ConnectPCs
<1>t. /\ mState \in 0..3 /\ mAcceptThread \in Accept \union {Null}
      /\ mConnectThread \in Link \union {Null} /\ mConnectedThread \in Link \union {Null}
      /\ sock \in [Link -> SocketStates] /\ srv \in [Accept -> ServerStates]
      /\ ct \in [Link -> ConnectPCs] /\ cd \in [Link -> ConnectedPCs]
      /\ at \in [Accept -> AcceptPCs] /\ socket \in [Accept -> Link \union {Null}]
      /\ streams \in [Link -> StreamStates] /\ r \in Link \union {Null}
  BY DEF IInv, TypeOK
<1>0. died = "none"
  BY DEF Next, Dead
<1>1. CASE ClientStart
  <2>1. Aux'
    BY <1>t, <1>1 DEF ClientStart, start, NewAcceptThread, NewAccept, CloseSockets,
       setState, IInv, Aux
  <2>2. OpenSocketIsOwned'
    BY <1>t, <1>1 DEF ClientStart, start, NewAcceptThread, NewAccept, CloseSockets,
       setState, IInv, OpenSocketIsOwned, Aux
  <2>3. OneConnection'
    BY <1>t, <1>1 DEF ClientStart, start, NewAcceptThread, NewAccept, CloseSockets,
       setState, IInv, OneConnection, Aux
  <2>4. OneListener'
    BY <1>t, <1>1 DEF ClientStart, start, NewAcceptThread, NewAccept, CloseSockets,
       setState, IInv, OneListener
  <2>5. ListenHasAcceptThread'
    BY <1>t, <1>1 DEF ClientStart, start, NewAcceptThread, NewAccept, CloseSockets,
       setState, IInv, ListenHasAcceptThread
  <2>6. ConnectingHasAttempt'
    BY <1>t, <1>1 DEF ClientStart, start, NewAcceptThread, NewAccept, CloseSockets,
       setState, IInv, ConnectingHasAttempt
  <2>7. QED
    BY <1>0, <1>1, <2>1, <2>2, <2>3, <2>4, <2>5, <2>6 DEF IInv,
       NullOnlyFromConstructor, ClientStart
<1>2. CASE ClientStop
  <2>1. Aux'
    BY <1>t, <1>2 DEF ClientStop, stop, CancelAccept, CloseSockets, setState, threads,
       IInv, Aux
  <2>2. OpenSocketIsOwned'
    BY <1>t, <1>2 DEF ClientStop, stop, CancelAccept, CloseSockets, setState, threads,
       IInv, OpenSocketIsOwned, Aux
  <2>3. OneConnection'
    BY <1>t, <1>2 DEF ClientStop, stop, CancelAccept, CloseSockets, setState, threads,
       IInv, OneConnection, Aux
  <2>4. OneListener'
    BY <1>t, <1>2 DEF ClientStop, stop, CancelAccept, CloseSockets, setState, threads,
       IInv, OneListener
  <2>5. ListenHasAcceptThread'
    BY <1>t, <1>2 DEF ClientStop, stop, CancelAccept, CloseSockets, setState, threads,
       IInv, ListenHasAcceptThread
  <2>6. ConnectingHasAttempt'
    BY <1>t, <1>2 DEF ClientStop, stop, CancelAccept, CloseSockets, setState, threads,
       IInv, ConnectingHasAttempt
  <2>7. QED
    BY <1>0, <1>2, <2>1, <2>2, <2>3, <2>4, <2>5, <2>6 DEF IInv,
       NullOnlyFromConstructor, ClientStop
<1>3. ASSUME NEW s \in Link, ClientConnect(s) PROVE IInv'
  <2>1. Aux'
    BY <1>t, <1>3 DEF ClientConnect, connect, NewLink, setState, IInv, Aux
  <2>2. OpenSocketIsOwned'
    BY <1>t, <1>3 DEF ClientConnect, connect, NewLink, setState, IInv, OpenSocketIsOwned, Aux
  <2>3. OneConnection'
    BY <1>t, <1>3 DEF ClientConnect, connect, NewLink, setState, IInv, OneConnection, Aux
  <2>4. OneListener'
    BY <1>t, <1>3 DEF ClientConnect, connect, NewLink, setState, IInv, OneListener
  <2>5. ListenHasAcceptThread'
    BY <1>t, <1>3 DEF ClientConnect, connect, NewLink, setState, IInv,
       ListenHasAcceptThread
  <2>6. ConnectingHasAttempt'
    BY <1>t, <1>3 DEF ClientConnect, connect, NewLink, setState, IInv,
       ConnectingHasAttempt
  <2>7. QED
    BY <1>0, <1>3, <2>1, <2>2, <2>3, <2>4, <2>5, <2>6 DEF IInv,
       NullOnlyFromConstructor, ClientConnect
<1>4. CASE WriteCopy
  BY <1>t, <1>0, <1>4 DEF WriteCopy, fields, threads, IInv,
     NullOnlyFromConstructor, Aux, OpenSocketIsOwned, OneConnection, OneListener,
     ListenHasAcceptThread, ConnectingHasAttempt
<1>5. CASE WriteOut
  <2>1. streams[r] # "both" => NullInThread
    BY <1>t, <1>5 DEF WriteOut, IInv, Aux, StreamStates, NullInThread
  <2>2. NullInThread' <=> NullInThread
    BY <1>5 DEF WriteOut, threads, NullInThread
  <2>3. NullOnlyFromConstructor'
    BY <1>0, <1>5, <2>1, <2>2 DEF WriteOut, IInv, Aux, NullOnlyFromConstructor
  <2>4. QED
    BY <1>5, <2>3 DEF WriteOut, fields, threads, IInv, Aux, OpenSocketIsOwned,
       OneConnection, OneListener, ListenHasAcceptThread, ConnectingHasAttempt
<1>6. ASSUME NEW s \in Link, ConnectSucceeds(s) PROVE IInv'
  BY <1>t, <1>0, <1>6 DEF ConnectSucceeds, fields, client, IInv,
     NullOnlyFromConstructor, Aux, OpenSocketIsOwned, OneConnection, OneListener,
     ListenHasAcceptThread, ConnectingHasAttempt
<1>7. ASSUME NEW s \in Link, ConnectThrows(s) PROVE IInv'
  BY <1>t, <1>0, <1>7 DEF ConnectThrows, fields, client, IInv,
     NullOnlyFromConstructor, Aux, OpenSocketIsOwned, OneConnection, OneListener,
     ListenHasAcceptThread, ConnectingHasAttempt
<1>8. ASSUME NEW s \in Link, connectionFailed(s) PROVE IInv'
  BY <1>t, <1>0, <1>8 DEF connectionFailed, setState, client, IInv,
     NullOnlyFromConstructor, Aux, OpenSocketIsOwned, OneConnection, OneListener,
     ListenHasAcceptThread, ConnectingHasAttempt
<1>9. ASSUME NEW s \in Link, FailedClose(s) PROVE IInv'
  BY <1>t, <1>0, <1>9 DEF FailedClose, CloseSockets, fields, client, IInv,
     NullOnlyFromConstructor, Aux, OpenSocketIsOwned, OneConnection, OneListener,
     ListenHasAcceptThread, ConnectingHasAttempt
<1>10. ASSUME NEW s \in Link, FailedStart(s) PROVE IInv'
  <2>1. Aux'
    BY <1>t, <1>10 DEF FailedStart, start, NewAcceptThread, NewAccept, CloseSockets,
       setState, client, IInv, Aux
  <2>2. OpenSocketIsOwned'
    BY <1>t, <1>10 DEF FailedStart, start, NewAcceptThread, NewAccept, CloseSockets,
       setState, client, IInv, OpenSocketIsOwned, Aux
  <2>3. OneConnection'
    BY <1>t, <1>10 DEF FailedStart, start, NewAcceptThread, NewAccept, CloseSockets,
       setState, client, IInv, OneConnection, Aux
  <2>4. OneListener'
    BY <1>t, <1>10 DEF FailedStart, start, NewAcceptThread, NewAccept, CloseSockets,
       setState, client, IInv, OneListener
  <2>5. ListenHasAcceptThread'
    BY <1>t, <1>10 DEF FailedStart, start, NewAcceptThread, NewAccept, CloseSockets,
       setState, client, IInv, ListenHasAcceptThread
  <2>6. ConnectingHasAttempt'
    BY <1>t, <1>10 DEF FailedStart, start, NewAcceptThread, NewAccept, CloseSockets,
       setState, client, IInv, ConnectingHasAttempt
  <2>7. QED
    BY <1>0, <1>10, <2>1, <2>2, <2>3, <2>4, <2>5, <2>6 DEF IInv,
       NullOnlyFromConstructor, FailedStart, client
<1>11. ASSUME NEW s \in Link, ResetConnectThread(s) PROVE IInv'
  BY <1>t, <1>0, <1>11 DEF ResetConnectThread, client, IInv,
     NullOnlyFromConstructor, Aux, OpenSocketIsOwned, OneConnection, OneListener,
     ListenHasAcceptThread, ConnectingHasAttempt
<1>12. ASSUME NEW s \in Link, ConnectThreadConnected(s) PROVE IInv'
  <2>1. Aux'
    BY <1>t, <1>12 DEF ConnectThreadConnected, connected, CancelAccept, CloseSockets,
       setState, client, IInv, Aux
  <2>2. OpenSocketIsOwned'
    BY <1>t, <1>12 DEF ConnectThreadConnected, connected, CancelAccept, CloseSockets,
       setState, client, IInv, OpenSocketIsOwned, Aux
  <2>3. OneConnection'
    BY <1>t, <1>12 DEF ConnectThreadConnected, connected, CancelAccept, CloseSockets,
       setState, client, IInv, OneConnection, Aux
  <2>4. OneListener'
    BY <1>t, <1>12 DEF ConnectThreadConnected, connected, CancelAccept, CloseSockets,
       setState, client, IInv, OneListener
  <2>5. ListenHasAcceptThread'
    BY <1>t, <1>12 DEF ConnectThreadConnected, connected, CancelAccept, CloseSockets,
       setState, client, IInv, ListenHasAcceptThread
  <2>6. ConnectingHasAttempt'
    BY <1>t, <1>12 DEF ConnectThreadConnected, connected, CancelAccept, CloseSockets,
       setState, client, IInv, ConnectingHasAttempt
  <2>7. QED
    BY <1>0, <1>12, <2>1, <2>2, <2>3, <2>4, <2>5, <2>6 DEF IInv,
       NullOnlyFromConstructor, ConnectThreadConnected, client
<1>13. ASSUME NEW s \in Link, PeerLost(s) PROVE IInv'
  BY <1>t, <1>0, <1>13 DEF PeerLost, fields, threads, client, IInv,
     NullOnlyFromConstructor, Aux, OpenSocketIsOwned, OneConnection, OneListener,
     ListenHasAcceptThread, ConnectingHasAttempt
<1>14. ASSUME NEW s \in Link, ReadThrows(s) PROVE IInv'
  BY <1>t, <1>0, <1>14 DEF ReadThrows, fields, client, IInv,
     NullOnlyFromConstructor, Aux, OpenSocketIsOwned, OneConnection, OneListener,
     ListenHasAcceptThread, ConnectingHasAttempt
<1>15. ASSUME NEW s \in Link, ReadReturns(s) PROVE IInv'
  BY <1>t, <1>0, <1>15 DEF ReadReturns, fields, threads, client, IInv,
     NullOnlyFromConstructor, NullInThread, Aux, OpenSocketIsOwned, OneConnection,
     OneListener, ListenHasAcceptThread, ConnectingHasAttempt
<1>16. ASSUME NEW s \in Link, connectionLost(s) PROVE IInv'
  BY <1>t, <1>0, <1>16 DEF connectionLost, setState, client, IInv,
     NullOnlyFromConstructor, Aux, OpenSocketIsOwned, OneConnection, OneListener,
     ListenHasAcceptThread, ConnectingHasAttempt
<1>17. ASSUME NEW s \in Link, LostStart(s) PROVE IInv'
  <2>1. Aux'
    BY <1>t, <1>17 DEF LostStart, start, NewAcceptThread, NewAccept, CloseSockets,
       setState, client, IInv, Aux
  <2>2. OpenSocketIsOwned'
    BY <1>t, <1>17 DEF LostStart, start, NewAcceptThread, NewAccept, CloseSockets,
       setState, client, IInv, OpenSocketIsOwned, Aux
  <2>3. OneConnection'
    BY <1>t, <1>17 DEF LostStart, start, NewAcceptThread, NewAccept, CloseSockets,
       setState, client, IInv, OneConnection, Aux
  <2>4. OneListener'
    BY <1>t, <1>17 DEF LostStart, start, NewAcceptThread, NewAccept, CloseSockets,
       setState, client, IInv, OneListener
  <2>5. ListenHasAcceptThread'
    BY <1>t, <1>17 DEF LostStart, start, NewAcceptThread, NewAccept, CloseSockets,
       setState, client, IInv, ListenHasAcceptThread
  <2>6. ConnectingHasAttempt'
    BY <1>t, <1>17 DEF LostStart, start, NewAcceptThread, NewAccept, CloseSockets,
       setState, client, IInv, ConnectingHasAttempt
  <2>7. QED
    BY <1>0, <1>17, <2>1, <2>2, <2>3, <2>4, <2>5, <2>6 DEF IInv,
       NullOnlyFromConstructor, LostStart, client
<1>18. ASSUME NEW a \in Accept, AcceptWhile(a) PROVE IInv'
  BY <1>t, <1>0, <1>18 DEF AcceptWhile, fields, client, IInv,
     NullOnlyFromConstructor, Aux, OpenSocketIsOwned, OneConnection, OneListener,
     ListenHasAcceptThread, ConnectingHasAttempt
<1>19. ASSUME NEW a \in Accept, NEW s \in Link, AcceptReturns(a, s) PROVE IInv'
  BY <1>t, <1>0, <1>19 DEF AcceptReturns, fields, client, NewLink, IInv,
     NullOnlyFromConstructor, Aux, OpenSocketIsOwned, OneConnection, OneListener,
     ListenHasAcceptThread, ConnectingHasAttempt
<1>20. ASSUME NEW a \in Accept, AcceptCancelled(a) PROVE IInv'
  BY <1>t, <1>0, <1>20 DEF AcceptCancelled, fields, client, IInv,
     NullOnlyFromConstructor, Aux, OpenSocketIsOwned, OneConnection, OneListener,
     ListenHasAcceptThread, ConnectingHasAttempt
<1>21. ASSUME NEW a \in Accept, AcceptThrows(a) PROVE IInv'
  BY <1>t, <1>0, <1>21 DEF AcceptThrows, fields, client, IInv,
     NullOnlyFromConstructor, Aux, OpenSocketIsOwned, OneConnection, OneListener,
     ListenHasAcceptThread, ConnectingHasAttempt
<1>22. ASSUME NEW a \in Accept, AcceptSwitch(a) PROVE IInv'
  <2>1. Aux'
    BY <1>t, <1>22 DEF AcceptSwitch, connected, CancelAccept, CloseSockets, setState,
       fields, client, IInv, Aux
  <2>2. OpenSocketIsOwned'
    BY <1>t, <1>22 DEF AcceptSwitch, connected, CancelAccept, CloseSockets, setState,
       fields, client, IInv, OpenSocketIsOwned, Aux
  <2>3. OneConnection'
    BY <1>t, <1>22 DEF AcceptSwitch, connected, CancelAccept, CloseSockets, setState,
       fields, client, IInv, OneConnection, Aux
  <2>4. OneListener'
    BY <1>t, <1>22 DEF AcceptSwitch, connected, CancelAccept, CloseSockets, setState,
       fields, client, IInv, OneListener
  <2>5. ListenHasAcceptThread'
    BY <1>t, <1>22 DEF AcceptSwitch, connected, CancelAccept, CloseSockets, setState,
       fields, client, IInv, ListenHasAcceptThread
  <2>6. ConnectingHasAttempt'
    BY <1>t, <1>22 DEF AcceptSwitch, connected, CancelAccept, CloseSockets, setState,
       fields, client, IInv, ConnectingHasAttempt
  <2>7. QED
    BY <1>0, <1>22, <2>1, <2>2, <2>3, <2>4, <2>5, <2>6 DEF IInv,
       NullOnlyFromConstructor, AcceptSwitch, client
<1>23. CASE NullPointer
  BY <1>t, <1>0, <1>23 DEF NullPointer, fields, threads, client, IInv,
     NullOnlyFromConstructor, NullInThread, Aux, OpenSocketIsOwned, OneConnection,
     OneListener, ListenHasAcceptThread, ConnectingHasAttempt
<1>24. QED
  BY <1>1, <1>2, <1>3, <1>4, <1>5, <1>6, <1>7, <1>8, <1>9, <1>10, <1>11, <1>12,
     <1>13, <1>14, <1>15, <1>16, <1>17, <1>18, <1>19, <1>20, <1>21, <1>22, <1>23 DEF
     Next, ClientStep, ConnectThreadStep, ConnectedThreadStep, AcceptThreadStep

\* The inductive invariant holds in every reachable state.
THEOREM Invariance == Spec => []IInv
<1>1. Init => IInv
  <2>1. Init => TypeOK
    BY ServiceAssumption
    DEF Init, TypeOK, STATE_NONE, STATE_CONNECTED, SocketStates, ServerStates,
        ConnectPCs, ConnectedPCs, AcceptPCs, StreamStates, Exceptions
  <2>2. QED
    BY <2>1 DEF Init, IInv, Aux, NullOnlyFromConstructor, OpenSocketIsOwned, OneConnection,
       OneListener, ListenHasAcceptThread, ConnectingHasAttempt, STATE_NONE,
       STATE_LISTEN, STATE_CONNECTING, STATE_CONNECTED
<1>2. IInv /\ [Next]_vars => IInv'
  <2> SUFFICES ASSUME IInv, [Next]_vars PROVE IInv'
    OBVIOUS
  <2>1. TypeOK'
    BY TypeStep DEF IInv
  <2>2. CASE Next
    BY <2>1, <2>2, InvStep
  <2>3. CASE UNCHANGED vars
    BY <2>1, <2>3 DEF vars, fields, threads, client, IInv, Aux, NullOnlyFromConstructor,
       NullInThread, OpenSocketIsOwned, OneConnection, OneListener,
       ListenHasAcceptThread, ConnectingHasAttempt
  <2>4. QED
    BY <2>2, <2>3
<1>3. QED
  BY <1>1, <1>2, PTL DEF Spec

\* The unsynchronised r.write() in write() never meets a null thread: an
\* uncaught NullPointerException always comes from a constructor that failed.
THEOREM WriteIsSafe == Spec => []NullOnlyFromConstructor
<1>1. IInv => NullOnlyFromConstructor
  BY DEF IInv
<1>2. QED
  BY <1>1, Invariance, PTL

\* However connect(), accept() and connected() interleave, a socket left open
\* is in the hands of a thread that will close it or serve it.
THEOREM SocketsAreOwned == Spec => []OpenSocketIsOwned
<1>1. IInv => OpenSocketIsOwned
  BY DEF IInv
<1>2. QED
  BY <1>1, Invariance, PTL

\* Connected() keeps the comment it makes: at any time one device at most is
\* connected, since every other ConnectedThread has a closed socket.
THEOREM OnlyOneConnection == Spec => []OneConnection
<1>1. IInv => OneConnection
  BY DEF IInv
<1>2. QED
  BY <1>1, Invariance, PTL

\* Start(), stop() and connected() never lose track of an open server socket.
THEOREM OnlyOneListener == Spec => []OneListener
<1>1. IInv => OneListener
  BY DEF IInv
<1>2. QED
  BY <1>1, Invariance, PTL

\* In STATE_LISTEN there is an AcceptThread or a thread about to start() one.
THEOREM ListenHasThread == Spec => []ListenHasAcceptThread
<1>1. IInv => ListenHasAcceptThread
  BY DEF IInv
<1>2. QED
  BY <1>1, Invariance, PTL

\* STATE_CONNECTING always has an unfinished ConnectThread behind it.
THEOREM ConnectingIsTransient == Spec => []ConnectingHasAttempt
<1>1. IInv => ConnectingHasAttempt
  BY DEF IInv
<1>2. QED
  BY <1>1, Invariance, PTL

-----------------------------------------------------------------------------
(***************************************************************************)
(* The refinement.  A step is seen from outside through sock and cd only:  *)
(* most steps leave every socket alone or close some; the others make one  *)
(* socket or hand one to a ConnectedThread.                                *)
(***************************************************************************)
Unmoved(t) ==
    \/ sock'[t] = sock[t] /\ (cd[t] = "none" <=> cd'[t] = "none")
    \/ sock[t] # "none" /\ sock'[t] = "closed"
    \/ sock[t] = "up" /\ sock'[t] = "lost" /\ cd'[t] = cd[t]
    \/ sock[t] = "open" /\ sock'[t] = "up" /\ cd'[t] = cd[t]

\* What the service shows of a socket, and of one that a step leaves alone.
LEMMA LinkOf ==
    ASSUME NEW t \in Link
    PROVE  /\ link[t] = IF sock[t] = "none" THEN "none"
                        ELSE IF sock[t] \in {"null", "closed"} THEN "closed"
                        ELSE IF cd[t] # "none" THEN "serving" ELSE "open"
           /\ link'[t] = IF sock'[t] = "none" THEN "none"
                         ELSE IF sock'[t] \in {"null", "closed"} THEN "closed"
                         ELSE IF cd'[t] # "none" THEN "serving" ELSE "open"
           /\ Unmoved(t) => Manager!KeptOrClosed(t)
BY DEF link, Unmoved, Manager!KeptOrClosed

\* A socket that is closed while another comes to be served, or was not served.
LEMMA ServedIsClosed ==
    ASSUME NEW t \in Link, Unmoved(t),
           sock'[t] \in {"none", "null", "closed"} \/ cd[t] = "none"
    PROVE  Manager!KeptOrClosed(t) /\ (link[t] = "serving" => link'[t] = "closed")
<1>1. Manager!KeptOrClosed(t)
  BY LinkOf, ZenonT(60)
<1>2. ASSUME link[t] = "serving"
      PROVE  link'[t] = "closed"
  <2>1. cd[t] # "none" /\ sock[t] \notin {"none", "null", "closed"}
    BY <1>2, LinkOf
  <2>2. sock'[t] \in {"none", "null", "closed"}
    BY <2>1, Zenon
  <2>3. sock'[t] = "closed"
    BY <2>1, <2>2 DEF Unmoved
  <2>4. QED
    BY <2>3, LinkOf
<1>3. QED
  BY <1>1, <1>2, Zenon

\* A step that leaves every socket alone, or closes some, is a step of the
\* manager.
LEMMA ManagerCloses ==
    ASSUME \A t \in Link : Unmoved(t)
    PROVE  Manager!Next
<1>1. \A t \in Link : Manager!KeptOrClosed(t)
  BY LinkOf, Zenon
<1>2. QED
  BY <1>1, Zenon DEF Manager!Next, Manager!Close

\* So is one that also makes a socket.
LEMMA ManagerOpens ==
    ASSUME NEW s \in Link, \A t \in Link \ {s} : Unmoved(t),
           sock[s] = "none", cd'[s] = "none", sock'[s] # "none"
    PROVE  Manager!Next
<1>1. \A t \in Link \ {s} : Manager!KeptOrClosed(t)
  BY LinkOf, Zenon
<1>2. link[s] = "none" /\ link'[s] \in {"open", "closed"}
  BY LinkOf
<1>3. Manager!Open(s)
  BY <1>1, <1>2, Zenon DEF Manager!Open
<1>4. QED
  BY <1>3, Zenon DEF Manager!Next

\* And one that gives a socket to a ConnectedThread after the one that was
\* served has been closed; the socket may be closed already.
LEMMA ManagerServes ==
    ASSUME NEW s \in Link,
           \A t \in Link \ {s} :
              /\ Unmoved(t)
              /\ sock'[t] \in {"none", "null", "closed"} \/ cd[t] = "none",
           sock'[s] = sock[s], sock[s] # "none", cd[s] = "none"
    PROVE  Manager!Next
<1>1. \A t \in Link \ {s} :
         Manager!KeptOrClosed(t) /\ (link[t] = "serving" => link'[t] = "closed")
  BY ServedIsClosed, Zenon
<1>2. CASE cd'[s] = "none" \/ sock[s] \in {"null", "closed"}
  <2>1. link'[s] = link[s]
    BY <1>2, LinkOf
  <2>2. \A t \in Link : Manager!KeptOrClosed(t)
    BY <1>1, <2>1, Zenon DEF Manager!KeptOrClosed
  <2>3. QED
    BY <2>2, Zenon DEF Manager!Next, Manager!Close
<1>3. CASE cd'[s] # "none" /\ sock[s] \notin {"null", "closed"}
  <2>1. link[s] = "open" /\ link'[s] = "serving"
    BY <1>3, LinkOf
  <2>2. Manager!Serve(s)
    BY <1>1, <2>1, Zenon DEF Manager!Serve
  <2>3. QED
    BY <2>2, Zenon DEF Manager!Next
<1>4. QED
  BY <1>2, <1>3, Zenon

\* connected() closes the socket that was served before it serves another.
LEMMA ConnectedServes ==
    ASSUME IInv, NEW s \in Link, sock[s] # "none", connected(s)
    PROVE  Manager!Next
<1>1. /\ sock \in [Link -> SocketStates] /\ cd \in [Link -> ConnectedPCs]
      /\ cd' = [cd EXCEPT ![s] = "read"]
      /\ sock' = [t \in Link |-> IF t \in {mConnectThread, mConnectedThread}
                                 THEN "closed" ELSE sock[t]]
  BY Zenon DEF IInv, TypeOK, connected, CloseSockets
<1>2. \A t \in Link : t \in {mConnectThread, mConnectedThread} => sock[t] # "none"
  BY NullIsNoObject, Zenon DEF IInv, Aux
<1>3. \A t \in Link : cd[t] # "none" /\ t # mConnectedThread => sock[t] = "closed"
  BY Zenon DEF IInv, OneConnection
<1>4. ASSUME NEW t \in Link \ {s}
      PROVE  Unmoved(t) /\ (sock'[t] \in {"none", "null", "closed"} \/ cd[t] = "none")
  <2>1. cd'[t] = cd[t]
    BY <1>1
  <2>2. CASE t \in {mConnectThread, mConnectedThread}
    BY <1>1, <1>2, <2>2 DEF Unmoved
  <2>3. CASE t \notin {mConnectThread, mConnectedThread}
    <3>1. sock'[t] = sock[t]
      BY <1>1, <2>3
    <3>2. QED
      BY <1>3, <2>1, <2>3, <3>1 DEF Unmoved
  <2>4. QED
    BY <2>2, <2>3, Zenon
<1>5. CASE s \in {mConnectThread, mConnectedThread}
  <2>1. sock'[s] = "closed"
    BY <1>1, <1>5
  <2>2. \A t \in Link : Unmoved(t)
    BY <1>4, <2>1, Zenon DEF Unmoved
  <2>3. QED
    BY <2>2, ManagerCloses, Zenon
<1>6. CASE s \notin {mConnectThread, mConnectedThread}
  <2>1. sock'[s] = sock[s]
    BY <1>1, <1>6
  <2>2. CASE cd[s] = "none"
    BY <1>4, <2>1, <2>2, ManagerServes, Zenon
  <2>3. CASE cd[s] # "none"
    <3>1. cd'[s] # "none"
      BY <1>1
    <3>2. \A t \in Link : Unmoved(t)
      BY <1>4, <2>1, <2>3, <3>1, Zenon DEF Unmoved
    <3>3. QED
      BY <3>2, ManagerCloses, Zenon
  <2>4. QED
    BY <2>2, <2>3, Zenon
<1>7. QED
  BY <1>5, <1>6, Zenon

\* Every step of a live process is a step of the link manager.
LEMMA ServiceStep ==
    ASSUME IInv, TypeOK', Next
    PROVE  Manager!Next
<1>a. TypeOK
  BY DEF IInv
<1>b. sock \in [Link -> SocketStates] /\ cd \in [Link -> ConnectedPCs]
  BY <1>a DEF TypeOK
<1>c. \A t \in Link : t \in {mConnectThread, mConnectedThread} => sock[t] # "none"
  BY NullIsNoObject, Zenon DEF IInv, Aux
<1>d. \A t \in Link : ct[t] # "none" => sock[t] # "none"
  BY Zenon DEF IInv, Aux
<1>e. \A t \in Link : sock[t] = "none" => cd[t] = "none"
  BY <1>c, Zenon DEF IInv, OneConnection
<1> USE <1>b DEF Unmoved
<1>1. ASSUME ClientStart PROVE Manager!Next
  <2>1. \A t \in Link : Unmoved(t)
    BY <1>1, <1>c DEF ClientStart, start, CloseSockets
  <2>2. QED
    BY <2>1, ManagerCloses, Zenon
<1>2. ASSUME ClientStop PROVE Manager!Next
  <2>1. \A t \in Link : Unmoved(t)
    BY <1>2, <1>c DEF ClientStop, stop, CloseSockets, threads
  <2>2. QED
    BY <2>1, ManagerCloses, Zenon
<1>3. ASSUME NEW s \in Link, ClientConnect(s) PROVE Manager!Next
  <2>0. ASSUME NEW t \in Link \ {s}
        PROVE  \/ sock'[t] = sock[t]
               \/ sock'[t] = "closed" /\ t \in {mConnectThread, mConnectedThread}
    BY <1>3 DEF ClientConnect, connect
  <2>1. ASSUME NEW t \in Link \ {s} PROVE Unmoved(t)
    <3>1. cd' = cd
      BY <1>3 DEF ClientConnect
    <3>. QED  BY <1>c, <2>0, <3>1, Zenon
  <2>2. sock[s] = "none" /\ sock'[s] # "none" /\ cd'[s] = cd[s]
    BY <1>3 DEF ClientConnect, connect, NewLink
  <2>3. cd[s] = "none"
    BY <1>e, <2>2
  <2>4. QED
    BY <2>1, <2>2, <2>3, ManagerOpens, Zenon
<1>4. ASSUME WriteCopy PROVE Manager!Next
  <2>1. \A t \in Link : Unmoved(t)
    BY <1>4 DEF WriteCopy, threads
  <2>2. QED
    BY <2>1, ManagerCloses, Zenon
<1>5. ASSUME WriteOut PROVE Manager!Next
  <2>1. \A t \in Link : Unmoved(t)
    BY <1>5 DEF WriteOut, threads
  <2>2. QED
    BY <2>1, ManagerCloses, Zenon
<1>6. ASSUME NEW s \in Link, ConnectSucceeds(s) PROVE Manager!Next
  <2>1. \A t \in Link : Unmoved(t)
    BY <1>6 DEF ConnectSucceeds
  <2>2. QED
    BY <2>1, ManagerCloses, Zenon
<1>7. ASSUME NEW s \in Link, ConnectThrows(s) PROVE Manager!Next
  <2>1. \A t \in Link : Unmoved(t)
    BY <1>7 DEF ConnectThrows
  <2>2. QED
    BY <2>1, ManagerCloses, Zenon
<1>8. ASSUME NEW s \in Link, connectionFailed(s) PROVE Manager!Next
  <2>1. \A t \in Link : Unmoved(t)
    BY <1>8 DEF connectionFailed
  <2>2. QED
    BY <2>1, ManagerCloses, Zenon
<1>9. ASSUME NEW s \in Link, FailedClose(s) PROVE Manager!Next
  <2>1. \A t \in Link : Unmoved(t)
    BY <1>9, <1>d DEF FailedClose, CloseSockets
  <2>2. QED
    BY <2>1, ManagerCloses, Zenon
<1>10. ASSUME NEW s \in Link, FailedStart(s) PROVE Manager!Next
  <2>1. \A t \in Link : Unmoved(t)
    BY <1>10, <1>c DEF FailedStart, start, CloseSockets
  <2>2. QED
    BY <2>1, ManagerCloses, Zenon
<1>11. ASSUME NEW s \in Link, ResetConnectThread(s) PROVE Manager!Next
  <2>1. \A t \in Link : Unmoved(t)
    BY <1>11 DEF ResetConnectThread
  <2>2. QED
    BY <2>1, ManagerCloses, Zenon
<1>12. ASSUME NEW s \in Link, ConnectThreadConnected(s) PROVE Manager!Next
  <2>1. sock[s] # "none" /\ connected(s)
    BY <1>12, <1>d DEF ConnectThreadConnected
  <2>2. QED
    BY <2>1, ConnectedServes, Zenon
<1>13. ASSUME NEW s \in Link, PeerLost(s) PROVE Manager!Next
  <2>1. \A t \in Link : Unmoved(t)
    BY <1>13 DEF PeerLost, threads
  <2>2. QED
    BY <2>1, ManagerCloses, Zenon
<1>14. ASSUME NEW s \in Link, ReadThrows(s) PROVE Manager!Next
  <2>1. \A t \in Link : Unmoved(t)
    BY <1>14 DEF ReadThrows
  <2>2. QED
    BY <2>1, ManagerCloses, Zenon
<1>15. ASSUME NEW s \in Link, ReadReturns(s) PROVE Manager!Next
  <2>1. \A t \in Link : Unmoved(t)
    BY <1>15 DEF ReadReturns, threads
  <2>2. QED
    BY <2>1, ManagerCloses, Zenon
<1>16. ASSUME NEW s \in Link, connectionLost(s) PROVE Manager!Next
  <2>1. \A t \in Link : Unmoved(t)
    BY <1>16 DEF connectionLost
  <2>2. QED
    BY <2>1, ManagerCloses, Zenon
<1>17. ASSUME NEW s \in Link, LostStart(s) PROVE Manager!Next
  <2>1. \A t \in Link : Unmoved(t)
    BY <1>17, <1>c DEF LostStart, start, CloseSockets
  <2>2. QED
    BY <2>1, ManagerCloses, Zenon
<1>18. ASSUME NEW a \in Accept, AcceptWhile(a) PROVE Manager!Next
  <2>1. \A t \in Link : Unmoved(t)
    BY <1>18 DEF AcceptWhile
  <2>2. QED
    BY <2>1, ManagerCloses, Zenon
<1>19. ASSUME NEW a \in Accept, NEW s \in Link, AcceptReturns(a, s) PROVE Manager!Next
  <2>1. \A t \in Link \ {s} : Unmoved(t)
    BY <1>19 DEF AcceptReturns
  <2>2. sock[s] = "none" /\ sock'[s] # "none" /\ cd'[s] = cd[s]
    BY <1>19 DEF AcceptReturns, NewLink
  <2>3. cd[s] = "none"
    BY <1>e, <2>2
  <2>4. QED
    BY <2>1, <2>2, <2>3, ManagerOpens, Zenon
<1>20. ASSUME NEW a \in Accept, AcceptCancelled(a) PROVE Manager!Next
  <2>1. \A t \in Link : Unmoved(t)
    BY <1>20 DEF AcceptCancelled
  <2>2. QED
    BY <2>1, ManagerCloses, Zenon
<1>21. ASSUME NEW a \in Accept, AcceptThrows(a) PROVE Manager!Next
  <2>1. \A t \in Link : Unmoved(t)
    BY <1>21 DEF AcceptThrows
  <2>2. QED
    BY <2>1, ManagerCloses, Zenon
<1>22. ASSUME NEW a \in Accept, AcceptSwitch(a) PROVE Manager!Next
  <2>1. socket[a] \in Link /\ sock[socket[a]] # "none"
    BY <1>22, Zenon DEF AcceptSwitch, IInv, Aux
  <2>2. CASE connected(socket[a])
    BY <2>1, <2>2, ConnectedServes, Zenon
  <2>3. CASE CloseSockets({socket[a]}) /\ UNCHANGED cd
    <3>1. \A t \in Link : Unmoved(t)
      BY <2>1, <2>3 DEF CloseSockets
    <3>2. QED
      BY <3>1, ManagerCloses, Zenon
  <2>4. QED
    BY <1>22, <2>2, <2>3 DEF AcceptSwitch
<1>23. ASSUME NullPointer PROVE Manager!Next
  <2>1. \A t \in Link : Unmoved(t)
    BY <1>23 DEF NullPointer, threads
  <2>2. QED
    BY <2>1, ManagerCloses, Zenon
<1>24. QED
  BY <1>1, <1>2, <1>3, <1>4, <1>5, <1>6, <1>7, <1>8, <1>9, <1>10, <1>11, <1>12,
     <1>13, <1>14, <1>15, <1>16, <1>17, <1>18, <1>19, <1>20, <1>21, <1>22, <1>23
     DEF Next, ClientStep, ConnectThreadStep, ConnectedThreadStep,
     AcceptThreadStep

\* The service implements the link manager, for every number of sockets,
\* listeners and calls: BluetoothService's connect(), connected(), start() and
\* stop() together keep what LinkManager promises about each socket.
THEOREM ServiceImplementsManager == Spec => ManagerSpec
<1>1. Init => Manager!Init
  BY DEF Init, link, Manager!Init
<1>2. IInv /\ IInv' /\ [Next]_vars => [Manager!Next]_link
  <2> SUFFICES ASSUME IInv, IInv', [Next]_vars PROVE [Manager!Next]_link
    OBVIOUS
  <2>1. CASE Next
    BY <2>1, ServiceStep DEF IInv
  <2>2. CASE UNCHANGED vars
    BY <2>2 DEF vars, threads, link
  <2>3. QED
    BY <2>1, <2>2
<1>3. QED
  BY <1>1, <1>2, Invariance, PTL DEF Spec, ManagerSpec, Manager!Spec

-----------------------------------------------------------------------------
(* What follows from the link manager alone, for every socket. *)

\* At most one socket is being served: connected() has cancelled every other
\* ConnectedThread before it starts one.
OneServed ==
    \A s, t \in Link : link[s] = "serving" /\ link[t] = "serving" => s = t

\* A socket that close() has been called on is never used again, and one that
\* is served does nothing but close.
ClosedForGood ==
    [][\A s \in Link : /\ link[s] = "closed" => link'[s] = "closed"
                       /\ link[s] = "serving" => link'[s] \in {"serving", "closed"}]_link

\* A link manager serves at most one socket.
LEMMA ManagerServesOne ==
    ASSUME OneServed, [Manager!Next]_link
    PROVE  OneServed'
<1>1. CASE Manager!Close
  BY <1>1 DEF Manager!Close, Manager!KeptOrClosed, OneServed
<1>2. ASSUME NEW s \in Link, Manager!Open(s) PROVE OneServed'
  BY <1>2 DEF Manager!Open, Manager!KeptOrClosed, OneServed
<1>3. ASSUME NEW s \in Link, Manager!Serve(s) PROVE OneServed'
  <2>1. \A t \in Link \ {s} : link'[t] # "serving"
    BY <1>3 DEF Manager!Serve, Manager!KeptOrClosed
  <2>2. QED
    BY <2>1 DEF OneServed
<1>4. CASE UNCHANGED link
  BY <1>4 DEF OneServed
<1>5. QED
  BY <1>1, <1>2, <1>3, <1>4 DEF Manager!Next

\* The service never serves two sockets, however connect(), accept() and the
\* failures of older connections interleave.
THEOREM ServiceServesOne == Spec => []OneServed
<1>1. Manager!Init => OneServed
  BY DEF Manager!Init, OneServed
<1>2. QED
  BY <1>1, ManagerServesOne, ServiceImplementsManager, PTL DEF ManagerSpec, Manager!Spec

\* No thread of the service ever revives a socket that another has closed.
THEOREM ServiceClosesForGood == Spec => ClosedForGood
<1>1. [Manager!Next]_link =>
        [\A s \in Link : /\ link[s] = "closed" => link'[s] = "closed"
                         /\ link[s] = "serving" => link'[s] \in {"serving", "closed"}]_link
  <2>1. ASSUME NEW s \in Link, Manager!Next
        PROVE  /\ link[s] = "closed" => link'[s] = "closed"
               /\ link[s] = "serving" => link'[s] \in {"serving", "closed"}
    BY <2>1 DEF Manager!Next, Manager!Close, Manager!Open, Manager!Serve,
       Manager!KeptOrClosed
  <2>2. QED
    BY <2>1
<1>2. QED
  BY <1>1, ServiceImplementsManager, PTL DEF ManagerSpec, Manager!Spec, ClosedForGood

=============================================================================
