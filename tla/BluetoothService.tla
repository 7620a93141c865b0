-------------------------- MODULE BluetoothService --------------------------
(***************************************************************************)
(* The connection manager of the controller application                    *)
(* (BluetoothService.java): one monitor, three kinds of thread             *)
(* (AcceptThread, ConnectThread, ConnectedThread) and the sockets they     *)
(* own.  A `synchronized' body never blocks, so each one is a single step; *)
(* everything a thread does outside the monitor is a step of its own.      *)
(*                                                                         *)
(* A ConnectThread owns exactly one socket, and a socket is handed to at   *)
(* most one ConnectedThread, so a member of Link names the socket, the     *)
(* ConnectThread that made it (if it is outgoing) and the ConnectedThread  *)
(* that serves it (once it is handed over).                                *)
(***************************************************************************)
EXTENDS Naturals

CONSTANTS
    MaxLinks,   \* bound: sockets made, outgoing and incoming
    MaxAccepts, \* bound: AcceptThreads made
    MaxCalls    \* bound: start() and stop() calls made by the client

ASSUME ServiceAssumption ==
    /\ MaxLinks \in Nat
    /\ MaxAccepts \in Nat
    /\ MaxCalls \in Nat

\* Objects are numbered in the order in which they are made; 0 is null.
Link   == 1..MaxLinks
Accept == 1..MaxAccepts
Null   == 0

VARIABLES
    mState, mAcceptThread, mConnectThread, mConnectedThread,
    sock,       \* local state of each BluetoothSocket
    srv,        \* local state of each BluetoothServerSocket
    ct,         \* where each ConnectThread is in run()
    cd,         \* where each ConnectedThread is in run()
    at,         \* where each AcceptThread is in run()
    socket,     \* the local `socket' of each AcceptThread
    r,          \* the local `r' of the client's write(), Null when not in it
    pc,         \* the client is "idle", or in "write" after the monitor section
    last,       \* the client's latest call that changes the state
    calls,      \* start() and stop() calls made so far
    streams,    \* the streams each ConnectedThread got from its socket
    died        \* the uncaught exception that killed the process

fields  == <<mState, mAcceptThread, mConnectThread, mConnectedThread>>
threads == <<ct, cd, at, socket, streams>>
client  == <<r, pc, last, calls>>
vars    == <<fields, threads, client, sock, srv, died>>

-----------------------------------------------------------------------------
STATE_NONE       == 0
STATE_LISTEN     == 1
STATE_CONNECTING == 2
STATE_CONNECTED  == 3

SocketStates == {"none", "null", "open", "up", "lost", "closed"}
ServerStates == {"none", "null", "open", "closed"}
ConnectPCs   == {"none", "connect", "reset", "connected", "failed", "close", "start", "done"}
ConnectedPCs == {"none", "read", "lost", "start", "done"}
StreamStates == {"none", "both", "in", "null"}
AcceptPCs    == {"none", "while", "accept", "switch", "done"}
Exceptions   == {"none", "NullPointer", "NumberFormat"}

Init ==
    /\ mState = STATE_NONE
    /\ mAcceptThread = Null /\ mConnectThread = Null /\ mConnectedThread = Null
    /\ sock = [s \in Link |-> "none"]
    /\ srv = [a \in Accept |-> "none"]
    /\ ct = [s \in Link |-> "none"]
    /\ cd = [s \in Link |-> "none"]
    /\ at = [a \in Accept |-> "none"]
    /\ socket = [a \in Accept |-> Null]
    /\ r = Null /\ pc = "idle"
    /\ last = "new" /\ calls = 0
    /\ streams = [s \in Link |-> "none"]
    /\ died = "none"

-----------------------------------------------------------------------------
(***************************************************************************)
(* The bodies of the synchronized methods.  cancel() of a thread closes    *)
(* its socket; on a thread whose constructor could not make a socket it    *)
(* dereferences null, which is the action NullPointer below.               *)
(***************************************************************************)
\* Mutant: the state is one off.
setState_OffByOne(state) == mState' = state + 1

setState(state) == mState' = state

\* s and a are the next objects to be made.
NewLink(s)   == sock[s] = "none" /\ \A t \in 1..(s - 1) : sock[t] # "none"
NewAccept(a) == srv[a] = "none" /\ \A b \in 1..(a - 1) : srv[b] # "none"

Cancellable(s) == s \in Link => sock[s] # "null"

CloseSockets(S) ==
    sock' = [s \in Link |-> IF s \in S THEN "closed" ELSE sock[s]]

\* new AcceptThread().start(): listening may fail, leaving a null socket.
NewAcceptThread(a) ==
    /\ NewAccept(a)
    /\ \E result \in {"open", "null"} : srv' = [srv EXCEPT ![a] = result]
    /\ at' = [at EXCEPT ![a] = "while"]
    /\ mAcceptThread' = a

\* Mutant: the reference is dropped, the server socket stays open.
CancelAccept_OnlyDrops ==
    /\ mAcceptThread # Null => srv[mAcceptThread] # "null"
    /\ UNCHANGED srv
    /\ mAcceptThread' = Null

\* mAcceptThread.cancel(); mAcceptThread = null
CancelAccept ==
    /\ mAcceptThread # Null => srv[mAcceptThread] # "null"
    /\ srv' = [a \in Accept |-> IF a = mAcceptThread THEN "closed" ELSE srv[a]]
    /\ mAcceptThread' = Null

start ==
    /\ Cancellable(mConnectThread)
    /\ CloseSockets({mConnectThread, mConnectedThread})
    /\ mConnectThread' = Null
    /\ mConnectedThread' = Null
    /\ \/ /\ mAcceptThread = Null
          /\ \E a \in Accept : NewAcceptThread(a)
       \/ /\ mAcceptThread # Null
          /\ UNCHANGED <<mAcceptThread, srv, at>>
    /\ setState(STATE_LISTEN)

\* Only a thread that is still STATE_CONNECTING is cancelled; the reference
\* is overwritten in any case.
connect(s) ==
    LET attempt == IF mState = STATE_CONNECTING THEN {mConnectThread} ELSE {}
    IN  /\ NewLink(s)
        /\ \A t \in attempt : Cancellable(t)
        /\ \E result \in {"open", "null"} :
              sock' = [t \in Link |->
                          IF t = s THEN result
                          ELSE IF t \in attempt \union {mConnectedThread}
                               THEN "closed" ELSE sock[t]]
        /\ mConnectThread' = s
        /\ mConnectedThread' = Null
        /\ ct' = [ct EXCEPT ![s] = "connect"]
        /\ setState(STATE_CONNECTING)

\* Mutant: the thread currently running a connection is not cancelled.
connected_KeepsOld(s) ==
    /\ Cancellable(mConnectThread)
    /\ CloseSockets({mConnectThread})
    /\ CancelAccept
    /\ mConnectThread' = Null
    /\ mConnectedThread' = s
    /\ streams' = [streams EXCEPT ![s] = "both"]
    /\ cd' = [cd EXCEPT ![s] = "read"]
    /\ setState(STATE_CONNECTED)

\* Mutant: the state is not set.
connected_NoState(s) ==
    /\ Cancellable(mConnectThread)
    /\ CloseSockets({mConnectThread, mConnectedThread})
    /\ CancelAccept
    /\ mConnectThread' = Null
    /\ mConnectedThread' = s
    /\ streams' = [streams EXCEPT ![s] = "both"]
    /\ cd' = [cd EXCEPT ![s] = "read"]
    /\ UNCHANGED mState

\* new ConnectedThread(s).start(): either stream may be missing.
connected(s) ==
    /\ Cancellable(mConnectThread)
    /\ CloseSockets({mConnectThread, mConnectedThread})
    /\ CancelAccept
    /\ mConnectThread' = Null
    /\ mConnectedThread' = s
    /\ \E result \in StreamStates \ {"none"} :
          streams' = [streams EXCEPT ![s] = result]
    /\ cd' = [cd EXCEPT ![s] = "read"]
    /\ setState(STATE_CONNECTED)

stop ==
    /\ Cancellable(mConnectThread)
    /\ CloseSockets({mConnectThread, mConnectedThread})
    /\ CancelAccept
    /\ mConnectThread' = Null
    /\ mConnectedThread' = Null
    /\ setState(STATE_NONE)

-----------------------------------------------------------------------------
(* The client: one thread calling the public methods. *)

ClientStart ==
    /\ pc = "idle" /\ calls < MaxCalls
    /\ start
    /\ calls' = calls + 1 /\ last' = "start"
    /\ UNCHANGED <<ct, cd, socket, streams, r, pc, died>>

ClientConnect(s) ==
    /\ pc = "idle"
    /\ connect(s)
    /\ last' = "connect"
    /\ UNCHANGED <<mAcceptThread, srv, cd, at, socket, streams, r, pc, calls, died>>

ClientStop ==
    /\ pc = "idle" /\ calls < MaxCalls
    /\ stop
    /\ calls' = calls + 1 /\ last' = "stop"
    /\ UNCHANGED <<threads, r, pc, died>>

\* Mutant: write() does not look at the state.
WriteCopy_Unchecked ==
    /\ pc = "idle"
    /\ r' = mConnectedThread
    /\ pc' = "write"
    /\ UNCHANGED <<fields, threads, sock, srv, last, calls, died>>

\* write(): the copy of mConnectedThread is taken inside the monitor ...
WriteCopy ==
    /\ pc = "idle"
    /\ mState = STATE_CONNECTED
    /\ r' = mConnectedThread
    /\ pc' = "write"
    /\ UNCHANGED <<fields, threads, sock, srv, last, calls, died>>

\* ... and used outside it.  An IOException of the stream is only logged.
WriteOut ==
    /\ pc = "write"
    /\ died' = IF r = Null \/ streams[r] # "both" THEN "NullPointer" ELSE died
    /\ r' = Null
    /\ pc' = "idle"
    /\ UNCHANGED <<fields, threads, sock, srv, last, calls>>

-----------------------------------------------------------------------------
(* ConnectThread.run() *)

\* mmSocket.connect() returns ...
ConnectSucceeds(t) ==
    /\ ct[t] = "connect" /\ sock[t] = "open"
    /\ sock' = [sock EXCEPT ![t] = "up"]
    /\ ct' = [ct EXCEPT ![t] = "reset"]
    /\ UNCHANGED <<fields, cd, at, socket, streams, client, srv, died>>

\* Mutant: a connect() whose socket is closed by cancel() does not come back.
ConnectThrows_Refused(t) ==
    /\ ct[t] = "connect" /\ sock[t] = "open"
    /\ ct' = [ct EXCEPT ![t] = "failed"]
    /\ UNCHANGED <<fields, cd, at, socket, streams, client, sock, srv, died>>

\* ... or throws: the remote refused, or cancel() closed the socket.
ConnectThrows(t) ==
    /\ ct[t] = "connect" /\ sock[t] \in {"open", "closed"}
    /\ ct' = [ct EXCEPT ![t] = "failed"]
    /\ UNCHANGED <<fields, cd, at, socket, streams, client, sock, srv, died>>

connectionFailed(t) ==
    /\ ct[t] = "failed"
    /\ setState(STATE_LISTEN)
    /\ ct' = [ct EXCEPT ![t] = "close"]
    /\ UNCHANGED <<mAcceptThread, mConnectThread, mConnectedThread,
                   cd, at, socket, streams, client, sock, srv, died>>

\* mmSocket.close()
FailedClose(t) ==
    /\ ct[t] = "close"
    /\ CloseSockets({t})
    /\ ct' = [ct EXCEPT ![t] = "start"]
    /\ UNCHANGED <<fields, cd, at, socket, streams, client, srv, died>>

\* BluetoothService.this.start()
FailedStart(t) ==
    /\ ct[t] = "start"
    /\ start
    /\ ct' = [ct EXCEPT ![t] = "done"]
    /\ UNCHANGED <<cd, socket, streams, client, died>>

\* The reset of mConnectThread is one monitor section ...
ResetConnectThread(t) ==
    /\ ct[t] = "reset"
    /\ mConnectThread' = Null
    /\ ct' = [ct EXCEPT ![t] = "connected"]
    /\ UNCHANGED <<mState, mAcceptThread, mConnectedThread,
                   cd, at, socket, streams, client, sock, srv, died>>

\* ... and connected(mmSocket) is another.
ConnectThreadConnected(t) ==
    /\ ct[t] = "connected"
    /\ connected(t)
    /\ ct' = [ct EXCEPT ![t] = "done"]
    /\ UNCHANGED <<at, socket, client, died>>

-----------------------------------------------------------------------------
(* ConnectedThread.run() *)

\* The remote device goes away; the socket is not closed on this side.
PeerLost(s) ==
    /\ sock[s] = "up"
    /\ sock' = [sock EXCEPT ![s] = "lost"]
    /\ UNCHANGED <<fields, threads, client, srv, died>>

\* read() throws.
ReadThrows(s) ==
    /\ cd[s] = "read" /\ streams[s] # "null" /\ sock[s] \in {"lost", "closed"}
    /\ cd' = [cd EXCEPT ![s] = "lost"]
    /\ UNCHANGED <<fields, ct, at, socket, streams, client, sock, srv, died>>

\* read() returns and MainActivity.fromControllerRvec() parses what it read.
\* What it parses changes nothing here, but a field that is no number throws
\* an exception that run() does not catch.
ReadReturns(s) ==
    /\ cd[s] = "read" /\ streams[s] # "null" /\ sock[s] = "up"
    /\ died' = "NumberFormat"
    /\ UNCHANGED <<fields, threads, client, sock, srv>>

connectionLost(s) ==
    /\ cd[s] = "lost"
    /\ setState(STATE_LISTEN)
    /\ cd' = [cd EXCEPT ![s] = "start"]
    /\ UNCHANGED <<mAcceptThread, mConnectThread, mConnectedThread,
                   ct, at, socket, streams, client, sock, srv, died>>

\* Mutant: the call of start() is the one that is commented out.
LostStart_NoStart(s) ==
    /\ cd[s] = "start"
    /\ cd' = [cd EXCEPT ![s] = "done"]
    /\ UNCHANGED <<fields, ct, at, socket, streams, client, sock, srv, died>>

\* Mutant: the loop goes on after the exception.
LostStart_NoBreak(s) ==
    /\ cd[s] = "start"
    /\ start
    /\ cd' = [cd EXCEPT ![s] = "read"]
    /\ UNCHANGED <<ct, socket, streams, client, died>>

LostStart(s) ==
    /\ cd[s] = "start"
    /\ start
    /\ cd' = [cd EXCEPT ![s] = "done"]
    /\ UNCHANGED <<ct, socket, streams, client, died>>

-----------------------------------------------------------------------------
(* AcceptThread.run() *)

\* The loop condition reads mState outside the monitor.
AcceptWhile(a) ==
    /\ at[a] = "while" /\ srv[a] # "null"
    /\ at' = [at EXCEPT ![a] =
                 IF mState # STATE_CONNECTED THEN "accept" ELSE "done"]
    /\ UNCHANGED <<fields, ct, cd, socket, streams, client, sock, srv, died>>

AcceptReturns(a, s) ==
    /\ at[a] = "accept" /\ srv[a] = "open" /\ NewLink(s)
    /\ sock' = [sock EXCEPT ![s] = "up"]
    /\ socket' = [socket EXCEPT ![a] = s]
    /\ at' = [at EXCEPT ![a] = "switch"]
    /\ UNCHANGED <<fields, ct, cd, streams, client, srv, died>>

\* Mutant: the loop goes on after the exception.
AcceptCancelled_NoBreak(a) ==
    /\ at[a] = "accept" /\ srv[a] = "closed"
    /\ at' = [at EXCEPT ![a] = "while"]
    /\ UNCHANGED <<fields, ct, cd, socket, streams, client, sock, srv, died>>

\* accept() throws because cancel() closed the server socket ...
AcceptCancelled(a) ==
    /\ at[a] = "accept" /\ srv[a] = "closed"
    /\ at' = [at EXCEPT ![a] = "done"]
    /\ UNCHANGED <<fields, ct, cd, socket, streams, client, sock, srv, died>>

\* ... or for a reason of its own (the adapter is switched off).
AcceptThrows(a) ==
    /\ at[a] = "accept" /\ srv[a] = "open"
    /\ at' = [at EXCEPT ![a] = "done"]
    /\ UNCHANGED <<fields, ct, cd, socket, streams, client, sock, srv, died>>

\* Mutant: an unwanted socket is not closed.
AcceptSwitch_KeepsUnwanted(a) ==
    /\ at[a] = "switch"
    /\ \/ /\ mState \in {STATE_LISTEN, STATE_CONNECTING}
          /\ connected(socket[a])
       \/ /\ mState \in {STATE_NONE, STATE_CONNECTED}
          /\ UNCHANGED <<fields, cd, streams, sock, srv>>
    /\ at' = [at EXCEPT ![a] = "while"]
    /\ socket' = [socket EXCEPT ![a] = Null]
    /\ UNCHANGED <<ct, client, died>>

\* The switch on mState, inside the monitor.
AcceptSwitch(a) ==
    /\ at[a] = "switch"
    /\ \/ /\ mState \in {STATE_LISTEN, STATE_CONNECTING}
          /\ connected(socket[a])
       \/ /\ mState \in {STATE_NONE, STATE_CONNECTED}
          /\ CloseSockets({socket[a]})
          /\ UNCHANGED <<fields, cd, streams, srv>>
    /\ at' = [at EXCEPT ![a] = "while"]
    /\ socket' = [socket EXCEPT ![a] = Null]
    /\ UNCHANGED <<ct, client, died>>

-----------------------------------------------------------------------------
\* A thread whose constructor caught an IOException has a null socket or
\* stream.
NullInThread ==
    \/ \E s \in Link : sock[s] = "null" \/ streams[s] \in {"in", "null"}
    \/ \E a \in Accept : srv[a] = "null"

\* Its run(), or whoever cancels it first, dereferences the null.
NullPointer ==
    /\ \/ \E s \in Link : \/ sock[s] = "null"
                          \/ cd[s] = "read" /\ streams[s] = "null"
       \/ \E a \in Accept : srv[a] = "null"
    /\ died' = "NullPointer"
    /\ UNCHANGED <<fields, threads, client, sock, srv>>

Dead == died # "none"

ConnectThreadStep(t) ==
    \/ ConnectSucceeds(t) \/ ConnectThrows(t)
    \/ connectionFailed(t) \/ FailedClose(t) \/ FailedStart(t)
    \/ ResetConnectThread(t) \/ ConnectThreadConnected(t)

ConnectedThreadStep(s) == ReadThrows(s) \/ connectionLost(s) \/ LostStart(s)

\* What an AcceptThread does by itself, once accept() has an outcome.
AcceptThreadStep(a) == AcceptWhile(a) \/ AcceptCancelled(a) \/ AcceptSwitch(a)

ClientStep ==
    \/ ClientStart \/ ClientStop
    \/ \E s \in Link : ClientConnect(s)
    \/ WriteCopy \/ WriteOut

Next ==
    /\ ~Dead
    /\ \/ ClientStep
       \/ \E s \in Link : ConnectThreadStep(s) \/ ConnectedThreadStep(s)
                          \/ ReadReturns(s) \/ PeerLost(s)
       \/ \E a \in Accept : AcceptThreadStep(a) \/ AcceptThrows(a)
       \/ \E a \in Accept, s \in Link : AcceptReturns(a, s)
       \/ NullPointer

Spec == Init /\ [][Next]_vars

(***************************************************************************)
(* Every started thread is scheduled, and connect() returns or throws.     *)
(* Nothing obliges a remote device to connect or to go away, the adapter   *)
(* to fail, or the client to call anything but to finish its write().      *)
(***************************************************************************)
ConnectFairness(s)   == WF_vars(~Dead /\ ConnectThreadStep(s))
ConnectedFairness(s) == WF_vars(~Dead /\ ConnectedThreadStep(s))
AcceptFairness(a)    == WF_vars(~Dead /\ AcceptThreadStep(a))

Fairness ==
    /\ \A s \in Link : ConnectFairness(s) /\ ConnectedFairness(s)
    /\ \A a \in Accept : AcceptFairness(a)
    /\ WF_vars(~Dead /\ WriteOut)
    /\ WF_vars(~Dead /\ NullPointer)

FairSpec == Spec /\ Fairness

-----------------------------------------------------------------------------
(* Properties *)

\* Every variable keeps its type: the fields hold threads of their own kind
\* and every thread is at a known place of its run().
TypeOK ==
    /\ mState \in STATE_NONE..STATE_CONNECTED
    /\ mAcceptThread \in Accept \union {Null}
    /\ mConnectThread \in Link \union {Null}
    /\ mConnectedThread \in Link \union {Null}
    /\ sock \in [Link -> SocketStates]
    /\ srv \in [Accept -> ServerStates]
    /\ ct \in [Link -> ConnectPCs]
    /\ cd \in [Link -> ConnectedPCs]
    /\ at \in [Accept -> AcceptPCs]
    /\ socket \in [Accept -> Link \union {Null}]
    /\ r \in Link \union {Null}
    /\ pc \in {"idle", "write"}
    /\ last \in {"new", "start", "connect", "stop"}
    /\ streams \in [Link -> StreamStates]
    /\ died \in Exceptions
    /\ calls \in Nat

\* The only null the process ever dies of is the socket or stream a thread's
\* constructor failed to make: the unsynchronised r.write() of write() always
\* has a thread to write to, whatever happened since the copy was taken.
NullOnlyFromConstructor == died = "NullPointer" => NullInThread

\* A socket that is open on this side is on its way (a ConnectThread is
\* working on it, or an AcceptThread has just accepted it) or it belongs to
\* the current mConnectedThread.  So no interleaving of connect(), accept()
\* and connected() leaks a socket or keeps two devices connected.
OpenSocketIsOwned ==
    \A s \in Link :
        sock[s] \in {"open", "up", "lost"} =>
            \/ ct[s] \in ConnectPCs \ {"none", "done"}
            \/ \E a \in Accept : at[a] = "switch" /\ socket[a] = s
            \/ mConnectedThread = s

\* Only one device is connected: a ConnectedThread other than the current one
\* has had its socket closed.
OneConnection ==
    \A s \in Link :
        cd[s] # "none" /\ s # mConnectedThread => sock[s] = "closed"

\* A server socket that is still open is the one of mAcceptThread, so that
\* the next connected() or stop() closes it: listeners are never leaked.
OneListener ==
    \A a \in Accept : srv[a] = "open" => a = mAcceptThread

\* In STATE_LISTEN there is an AcceptThread, or a thread that has just set the
\* state in connectionFailed() or connectionLost() and is about to start() one.
ListenHasAcceptThread ==
    mState = STATE_LISTEN =>
        \/ mAcceptThread # Null
        \/ \E s \in Link : ct[s] \in {"close", "start"} \/ cd[s] = "start"

\* STATE_CONNECTING always has an attempt behind it that will end it.
ConnectingHasAttempt ==
    mState = STATE_CONNECTING =>
        \E s \in Link : ct[s] \in ConnectPCs \ {"none", "done"}

\* How the service looks from outside: a socket is served when it has been
\* given to a ConnectedThread and is not closed.
link ==
    [s \in Link |-> IF sock[s] = "none" THEN "none"
                    ELSE IF sock[s] \in {"null", "closed"} THEN "closed"
                    ELSE IF cd[s] # "none" THEN "serving" ELSE "open"]

Manager == INSTANCE LinkManager

\* The service implements the link manager: under every interleaving of the
\* client, the listeners and the connecting threads a socket is served at most
\* once, never after it was closed, and serving one closes the one before.
ManagerSpec == Manager!Spec

\* A socket whose constructor failed: run() or cancel() will trip over it.
NullSocket == \/ \E s \in Link : sock[s] = "null"
              \/ \E a \in Accept : srv[a] = "null"

\* start() has an AcceptThread, or the bound leaves it one to make.
CanStart == mAcceptThread # Null \/ \E a \in Accept : srv[a] = "none"

ConnectCanStep(t)   == ct[t] \notin {"none", "done"} /\ (ct[t] = "start" => CanStart)
ConnectedCanStep(s) ==
    \/ cd[s] = "read" /\ streams[s] # "null" /\ sock[s] \in {"lost", "closed"}
    \/ cd[s] = "lost"
    \/ cd[s] = "start" /\ CanStart
AcceptCanStep(a)    == at[a] \in {"while", "switch"} \/ (at[a] = "accept" /\ srv[a] = "closed")
NullCanStep         == NullSocket \/ \E s \in Link : cd[s] = "read" /\ streams[s] = "null"

\* No thread is stuck at a place of its run(): whatever the others have closed,
\* cancelled or replaced meanwhile, its next call returns or throws.  A socket
\* or a stream that is null is the end of the process instead.
ConnectEnabled(s)   == ~Dead /\ ~NullSocket /\ ConnectCanStep(s)
                         => ENABLED <<~Dead /\ ConnectThreadStep(s)>>_vars
ConnectedEnabled(s) == ~Dead /\ ~NullSocket /\ ConnectedCanStep(s)
                         => ENABLED <<~Dead /\ ConnectedThreadStep(s)>>_vars
AcceptEnabled(a)    == ~Dead /\ ~NullSocket /\ AcceptCanStep(a)
                         => ENABLED <<~Dead /\ AcceptThreadStep(a)>>_vars
NullEnabled         == ~Dead /\ NullCanStep => ENABLED <<~Dead /\ NullPointer>>_vars

StepsEnabled ==
    /\ \A s \in Link : ConnectEnabled(s) /\ ConnectedEnabled(s)
    /\ \A a \in Accept : AcceptEnabled(a)
    /\ NullEnabled

\* The service never stays in STATE_CONNECTING: whoever cancels or replaces
\* an attempt, some thread takes the state to CONNECTED or back to LISTEN.
ConnectingEnds ==
    mState = STATE_CONNECTING ~> (mState # STATE_CONNECTING \/ Dead)

\* A connection that is lost or cancelled is always noticed: its thread ends
\* after it has gone through connectionLost().
LostIsNoticed ==
    \A s \in Link :
        (cd[s] = "read" /\ sock[s] \in {"lost", "closed"}) ~> (cd[s] = "done" \/ Dead)

\* A cancelled listener ends, even when it was cancelled with a connection in
\* its hands.
CancelledAcceptEnds ==
    \A a \in Accept : (srv[a] = "closed") ~> (at[a] = "done" \/ Dead)

-----------------------------------------------------------------------------
(* What the comments of the code say, and the code does not keep. *)

\* stop() is commented "all threads stop" and STATE_NONE "we're doing
\* nothing": until the client calls again, the state stays STATE_NONE.
StopIsFinal == last = "stop" => mState = STATE_NONE

\* STATE_LISTEN is commented "now listening for incoming connections": once no
\* thread is on its way to start(), some AcceptThread is running.
ListenIsListening ==
    mState = STATE_LISTEN =>
        \/ \E a \in Accept : at[a] \in {"while", "accept", "switch"}
        \/ \E s \in Link : ct[s] \in {"close", "start"} \/ cd[s] = "start"

=============================================================================
