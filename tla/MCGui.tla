------------------------------- MODULE MCGui -------------------------------
(* A small instance of GuiWindow for TLC: the window and one more process.  *)
EXTENDS GuiWindow

CONSTANTS c1, c2, a1

WindowCalls ==
    {[op |-> "migrate"], [op |-> "list_workers"], [op |-> "list_devices"],
     [op |-> "list_jobs", status |-> NULL],
     [op |-> "add_worker", max_jobs |-> 1],
     [op |-> "breakdown", address |-> a1]}

OtherCalls ==
    {[op |-> "finish_repair", job |-> 1]}

AllCalls == WindowCalls \cup OtherCalls
=============================================================================
