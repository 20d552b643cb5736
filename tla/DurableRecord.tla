---------------------------- MODULE DurableRecord ----------------------------
(***************************************************************************)
(* What SpendProtocol assumes of its store (the SpendStore trait,          *)
(* escrow/src/spend_store.rs:115-134): a record that is replaced or        *)
(* removed as a whole, and that after a failed or interrupted write is the *)
(* old or the new one.                                                     *)
(***************************************************************************)
CONSTANTS Values, Absent

VARIABLES
    current,  \* what load returns
    possible  \* what load may return after the machine stops

vars == <<current, possible>>

Init == current \in Values \union {Absent} /\ possible = {current}

(* A write takes effect, on the way to success or to a failure.            *)
Write(v) == current' = v /\ possible' = possible \union {v}

(* A save that returns Ok, or the system in its own time, puts an end to   *)
(* what else there may be.                                                 *)
Settle ==
    /\ current' = current
    /\ possible' \in SUBSET possible /\ current \in possible'

Stop == current' \in possible /\ possible' = {current'}

Next == (\E v \in Values \union {Absent} : Write(v)) \/ Settle \/ Stop

Spec == Init /\ [][Next]_vars
=============================================================================
