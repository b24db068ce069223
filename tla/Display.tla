------------------------------ MODULE Display ------------------------------
(***************************************************************************)
(* What the guest is promised of its screen: the visible part of the video *)
(* memory is shown, whole, again and again.                                *)
(***************************************************************************)
CONSTANTS Pixels, Indices     \* the pixels, and the colour indices they hold

VARIABLES memory, shown

Frames == [Pixels -> Indices]

Init == memory \in Frames /\ shown = memory

Draw == memory' \in Frames /\ UNCHANGED shown

Refresh == shown' = memory /\ UNCHANGED memory

Next == Draw \/ Refresh

Spec == Init /\ [][Next]_<<memory, shown>> /\ WF_<<memory, shown>>(Refresh)
=============================================================================
