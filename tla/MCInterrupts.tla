---------------------------- MODULE MCInterrupts ----------------------------
(* Interrupts for TLC: the timer, the serial line and a device line with   *)
(* two handlers, of which the second removes itself.                       *)
EXTENDS Interrupts

CONSTANTS timer, uart, d1, d2, bad, u1, u2

McLineOf == timer :> 32 @@ uart :> 1 @@ d1 :> 2 @@ d2 :> 2 @@ bad :> 2
McPrioOf == timer :> 8 @@ uart :> 1 @@ d1 :> 2 @@ d2 :> 2 @@ bad :> 9
McAttrOf == timer :> {"EXCLUSIVE"} @@ uart :> {"NESTABLE", "EDGE"}
            @@ d1 :> {"NESTABLE", "EDGE"} @@ d2 :> {"NESTABLE", "EDGE"} @@ bad :> {"EDGE"}
=============================================================================
