--------------------------- MODULE PaymentPromise ---------------------------
(***************************************************************************)
(* What a payment order promises, without workers, leases or faults: the   *)
(* provider takes the money; an order paid in full is granted once; then   *)
(* the inviter may get one rebate and the order is completed for good.     *)
(***************************************************************************)
EXTENDS Naturals

VARIABLES money, granted, rebated, completed

pvars == <<money, granted, rebated, completed>>

Init == money = "none" /\ granted = 0 /\ rebated = 0 /\ completed = FALSE

Take == /\ money = "none" /\ money' \in {"exact", "short"}
        /\ UNCHANGED <<granted, rebated, completed>>

Grant == /\ money = "exact" /\ granted = 0 /\ granted' = 1
         /\ UNCHANGED <<money, rebated, completed>>

Rebate == /\ granted = 1 /\ rebated = 0 /\ rebated' = 1
          /\ UNCHANGED <<money, granted, completed>>

Complete == /\ granted = 1 /\ ~completed /\ completed' = TRUE
            /\ UNCHANGED <<money, granted, rebated>>

Next == Take \/ Grant \/ Rebate \/ Complete

Spec == Init /\ [][Next]_pvars
=============================================================================
