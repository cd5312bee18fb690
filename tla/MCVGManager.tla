----------------------------- MODULE MCVGManager -----------------------------
(***************************************************************************)
(* Instances of VGManager for TLC.                                         *)
(***************************************************************************)
EXTENDS VGManager

CONSTANTS v1, v2, d1, d2, d3

\* One class with both devices.
OneClass == {v1}
TwoDevices == {d1, d2}
OwnedByOne == [d \in {d1, d2} |-> v1]

\* One class with three devices.
ThreeDevices == {d1, d2, d3}
OwnedThree == [d \in {d1, d2, d3} |-> v1]

\* One class with one device.
OneDevice == {d1}
OwnedAlone == [d \in {d1} |-> v1]

\* Two classes with a device each.
TwoClasses == {v1, v2}
OwnedByTwo == [d \in {d1, d2} |-> IF d = d1 THEN v1 ELSE v2]

=============================================================================
