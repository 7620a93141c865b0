----------------------------- MODULE DeviceList -----------------------------
(***************************************************************************)
(* DeviceListActivity: the rows of the paired and of the discovered        *)
(* devices, the adapter's discovery with its broadcasts, and the address   *)
(* that a tap on a row gives to the activity that asked for it.            *)
(*                                                                         *)
(* The adapter belongs to all applications: a discovery may be running     *)
(* when the activity starts, and devices are paired at any time.           *)
(***************************************************************************)
EXTENDS Naturals, Sequences, SequencesExt

CONSTANTS
    Device,
    MaxFound    \* bound: broadcasts on the way to mReceiver

VARIABLES
    activity,       \* "none", "shown" or, after finish(), "finishing"
    died,           \* an exception has left a callback
    result,         \* the activity's result: an address, text or "CANCELED"
    scanButton,     \* "visible" or "gone"
    paired, found,  \* the rows of the two array adapters
    bonded,         \* devices paired with the phone
    discovering,    \* the adapter's isDiscovering()
    broadcasts      \* on their way to mReceiver

rows    == <<paired, found>>
adapter == <<bonded, discovering, broadcasts>>
vars    == <<activity, died, result, scanButton, rows, adapter>>

Init ==
    /\ activity = "none" /\ died = "no" /\ result = "CANCELED"
    /\ scanButton = "visible" /\ paired = <<>> /\ found = <<>>
    /\ bonded \in SUBSET Device
    /\ discovering \in {"no", "yes"} /\ broadcasts = <<>>

-----------------------------------------------------------------------------
(* A row is a device, whose text is its name, a line feed and its address, *)
(* or the text of a string resource.                                       *)

AddressLength == 17
ResourceLength == [none_paired |-> 27, none_found |-> 16]

\* info.substring(info.length() - 17)
substring(row) ==
    IF row \in Device THEN row
    ELSE IF ResourceLength[row] < AddressLength THEN "exception" ELSE "text"

-----------------------------------------------------------------------------
(* The adapter. *)

\* A broadcast goes to the receivers registered when it is sent.
send(b) == IF activity = "none" THEN broadcasts ELSE Append(broadcasts, b)

\* A discovery that runs ends, and says so in a broadcast.
EndsDiscovery ==
    broadcasts' = IF discovering = "yes" THEN send("FINISHED") ELSE broadcasts

cancelDiscovery == discovering' = "no" /\ EndsDiscovery

DiscoveryFinds(d) ==
    /\ discovering = "yes" /\ activity # "none" /\ Len(broadcasts) < MaxFound
    /\ broadcasts' = send(d)
    /\ UNCHANGED <<activity, died, result, scanButton, rows, bonded, discovering>>

DiscoveryEnds ==
    /\ discovering = "yes" /\ cancelDiscovery
    /\ UNCHANGED <<activity, died, result, scanButton, rows, bonded>>

Bonds(d) ==
    /\ bonded' = bonded \union {d}
    /\ UNCHANGED <<activity, died, result, scanButton, rows, discovering, broadcasts>>

-----------------------------------------------------------------------------
(* The activity's callbacks. *)

\* getBondedDevices() is a set: its rows may come in any order.
onCreate ==
    /\ activity = "none"
    /\ activity' = "shown" /\ result' = "CANCELED" /\ scanButton' = "visible"
    /\ found' = <<>>
    /\ IF bonded # {} THEN paired' \in SetToSeqs(bonded) ELSE paired' = <<"none_paired">>
    /\ UNCHANGED <<died, adapter>>

\* The scan button: doDiscovery(), and the button is gone.
onClick ==
    /\ activity = "shown" /\ scanButton = "visible"
    /\ scanButton' = "gone"
    /\ EndsDiscovery /\ discovering' = "yes"
    /\ UNCHANGED <<activity, died, result, rows, bonded>>

\* Only the bond state at this moment keeps a device out of the second list;
\* one that is found twice has two rows.
onReceive ==
    /\ broadcasts # <<>>
    /\ broadcasts' = Tail(broadcasts)
    /\ found' = IF Head(broadcasts) = "FINISHED"
                THEN IF found = <<>> THEN <<"none_found">> ELSE found
                ELSE IF Head(broadcasts) \in bonded THEN found
                ELSE Append(found, Head(broadcasts))
    /\ UNCHANGED <<activity, died, result, scanButton, paired, bonded, discovering>>

\* Any row of the two lists can be tapped.
onItemClick(row) ==
    /\ activity = "shown"
    /\ cancelDiscovery
    /\ IF substring(row) = "exception"
       THEN died' = "yes" /\ UNCHANGED <<activity, result>>
       ELSE result' = substring(row) /\ activity' = "finishing" /\ UNCHANGED died
    /\ UNCHANGED <<scanButton, rows, bonded>>

\* After finish(), or when the user backs out: no broadcast comes after it.
onDestroy ==
    /\ activity \in {"shown", "finishing"}
    /\ activity' = "none"
    /\ discovering' = "no" /\ broadcasts' = <<>>
    /\ UNCHANGED <<died, result, scanButton, rows, bonded>>

Next ==
    /\ died = "no"
    /\ \/ \E d \in Device : DiscoveryFinds(d) \/ Bonds(d)
       \/ DiscoveryEnds
       \/ onCreate \/ onClick \/ onReceive \/ onDestroy
       \/ \E i \in 1..Len(paired) : onItemClick(paired[i])
       \/ \E i \in 1..Len(found) : onItemClick(found[i])

Spec == Init /\ [][Next]_vars

-----------------------------------------------------------------------------
(* Property *)

\* The click listener's comment: "Get the device MAC address, which is the
\* last 17 chars in the View".  Every tap on a row gives the address of a
\* device; in particular none ends in an exception.
AddressOfDevice == died = "no" /\ result \in Device \union {"CANCELED"}

=============================================================================
