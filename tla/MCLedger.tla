------------------------------ MODULE MCLedger ------------------------------
(* Small instances of RepairLedger for TLC.                                 *)
EXTENDS RepairLedger

CONSTANTS a1, a2

AnyRows == {[priority |-> "None", is_faulty |-> FALSE, is_reserve |-> TRUE],
            [priority |-> "Low",  is_faulty |-> TRUE,  is_reserve |-> FALSE]}

HealthyRows == {[priority |-> p, is_faulty |-> FALSE, is_reserve |-> FALSE] :
                    p \in Priority}
=============================================================================
