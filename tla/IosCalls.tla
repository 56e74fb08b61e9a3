------------------------------ MODULE IosCalls ------------------------------
(***************************************************************************)
(* IOS as the drivers see it (external): a call is answered, or it fails   *)
(* for a reason the driver cannot see.                                     *)
(***************************************************************************)
EXTENDS Naturals

CONSTANT MaxFailures \* bound: calls that fail although what they are for is there

ASSUME IosAssumption == MaxFailures \in Nat

VARIABLE failures

Refused == failures < MaxFailures /\ failures' = failures + 1
Answered == UNCHANGED failures
=============================================================================
