---------------------------- MODULE LinkManager -----------------------------
(***************************************************************************)
(* What the Bluetooth service promises about its sockets: each is made     *)
(* once, may be served once and, closed, stays closed; a socket that comes *)
(* to be served displaces the one that was.  Any step may close others.    *)
(***************************************************************************)
CONSTANT Link       \* the sockets, in the order they are made

VARIABLE link       \* "none", "open", "serving" or "closed"

Init == link = [s \in Link |-> "none"]

\* A socket that a step is not about is left alone or closed.
KeptOrClosed(t) ==
    link'[t] = link[t] \/ (link[t] # "none" /\ link'[t] = "closed")

\* A socket is made, by connect() or accept(); if that fails it is of no use.
Open(s) ==
    /\ link[s] = "none"
    /\ link'[s] \in {"open", "closed"}
    /\ \A t \in Link \ {s} : KeptOrClosed(t)

\* A ConnectedThread serves the socket, and no other.
Serve(s) ==
    /\ link[s] = "open"
    /\ link'[s] = "serving"
    /\ \A t \in Link \ {s} :
          KeptOrClosed(t) /\ (link[t] = "serving" => link'[t] = "closed")

Close == \A t \in Link : KeptOrClosed(t)

Next == Close \/ \E s \in Link : Open(s) \/ Serve(s)

Spec == Init /\ [][Next]_link

=============================================================================
