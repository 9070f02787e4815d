------------------------------ MODULE MCEngine ------------------------------
(* Small instances of Engine for TLC: which calls the clients make.         *)
EXTENDS Engine, TLC

CONSTANTS c1, c2, a1, a2

Healthy == [priority |-> "Low", is_faulty |-> FALSE, is_reserve |-> TRUE]

MigrateCall == [op |-> "migrate"]
Reports(A) == {[op |-> "breakdown", address |-> a] : a \in A}
Starts(J)  == {[op |-> "start_repair", job |-> j, worker |-> 1] : j \in J}
Finishes(J) == {[op |-> "finish_repair", job |-> j] : j \in J}
Hire == [op |-> "add_worker", max_jobs |-> 1]
Register(a) == [op |-> "upsert_device", address |-> a, row |-> Healthy]
ListJobsCall == [op |-> "list_jobs", status |-> NULL]
ListOpenCall == [op |-> "list_jobs", status |-> "Open"]
ListDevicesCall == [op |-> "list_devices"]
ListWorkersCall == [op |-> "list_workers"]

RepairCalls == Reports({a1}) \cup Starts({1}) \cup Finishes({1, 2}) \cup {Hire}
ReadCalls == Reports({a1, a2}) \cup {Register(a1), Register(a2)} \cup Finishes({1})
               \cup {ListOpenCall, ListDevicesCall}
DeviceCalls == {Register(a1), Register(a2), ListDevicesCall} \cup Reports({a1})
LiveCalls == Reports({a1}) \cup {ListJobsCall, ListDevicesCall, ListWorkersCall, MigrateCall}
StrandedCalls == Reports({a1}) \cup {MigrateCall}
HireCalls == Reports({a1}) \cup {Hire, ListJobsCall}

(* Processes and addresses are interchangeable in ReadCalls.                *)
Symmetry == Permutations({c1, c2}) \cup Permutations({a1, a2})
=============================================================================
