----------------------------- MODULE FrameFeed ------------------------------
(***************************************************************************)
(* What the camera view promises its CvCameraViewListener2: frames arrive  *)
(* only between onCameraViewStarted() and onCameraViewStopped(); each is a *)
(* frame that the camera produced, newer than every frame shown before.    *)
(* Frames may be skipped; none is repeated, reordered or made up.          *)
(***************************************************************************)
EXTENDS Naturals

VARIABLES
    feed,       \* the latest of the two callbacks: "started" or "stopped"
    newest,     \* number of the newest frame the camera produced
    shown       \* number of the newest frame handed to onCameraFrame()

Init == feed = "stopped" /\ newest = 0 /\ shown = 0

onCameraViewStarted ==
    /\ feed = "stopped"
    /\ feed' = "started"
    /\ UNCHANGED <<newest, shown>>

onCameraViewStopped ==
    /\ feed = "started"
    /\ feed' = "stopped"
    /\ UNCHANGED <<newest, shown>>

Produce ==
    /\ newest' = newest + 1
    /\ UNCHANGED <<feed, shown>>

\* Mutant: a frame may be handed over after a newer one.
onCameraFrame_AnyOrder ==
    /\ feed = "started"
    /\ shown' \in 1..newest
    /\ UNCHANGED <<feed, newest>>

onCameraFrame ==
    /\ feed = "started"
    /\ shown' \in (shown + 1)..newest
    /\ UNCHANGED <<feed, newest>>

Next == onCameraViewStarted \/ onCameraViewStopped \/ Produce \/ onCameraFrame

Spec == Init /\ [][Next]_<<feed, newest, shown>>

=============================================================================
