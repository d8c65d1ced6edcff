------------------------------- MODULE TaskLedger -------------------------------
(***************************************************************************)
(* What the controller promises about the tasks it runs, whatever fails    *)
(* and however the calls interleave: a task is registered before its       *)
(* module runs, the module runs at most once, and what is recorded at the  *)
(* end, if anything, is what that module's execute returned.  A task may   *)
(* stay STARTING for ever; it never leaves SUCCESS or FAILURE.             *)
(***************************************************************************)
CONSTANT Task

VARIABLES
    status,     \* "processing_module"."status" of each task
    returned    \* what Module::execute returned for it

ledger == <<status, returned>>

Status == {"none", "STARTING", "SUCCESS", "FAILURE"}

Returns == {"none", "true", "false"}

TypeOK ==
    /\ status \in [Task -> Status]
    /\ returned \in [Task -> Returns]

Init ==
    /\ status = [t \in Task |-> "none"]
    /\ returned = [t \in Task |-> "none"]

\* register_module_processing has inserted the row.
Register(t) ==
    /\ status[t] = "none"
    /\ status' = [status EXCEPT ![t] = "STARTING"]
    /\ UNCHANGED returned

\* Module::execute has returned.
Return(t) ==
    /\ status[t] = "STARTING"
    /\ returned[t] = "none"
    /\ \E value \in {"true", "false"} : returned' = [returned EXCEPT ![t] = value]
    /\ UNCHANGED status

\* update_complete has changed the row.
Complete(t) ==
    /\ status[t] = "STARTING"
    /\ returned[t] # "none"
    /\ status' = [status EXCEPT ![t] = IF returned[t] = "true" THEN "SUCCESS" ELSE "FAILURE"]
    /\ UNCHANGED returned

Next == \E t \in Task : Register(t) \/ Return(t) \/ Complete(t)

Spec == Init /\ [][Next]_ledger
=================================================================================
