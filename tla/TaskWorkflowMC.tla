--------------------------- MODULE TaskWorkflowMC ---------------------------
(* A small instance of TaskWorkflow for TLC: an employee whose membership   *)
(* changes, and an owner who is also in the list of employees.              *)
EXTENDS TaskWorkflow

CONSTANT e1

Worker == [enabled |-> TRUE, active |-> TRUE, scope |-> Requests,
           permissions |-> {"requests.view", "requests.update"}]
Dispatcher == [Worker EXCEPT !.permissions = Permissions]
Retired == [Worker EXCEPT !.active = FALSE]
OutOfScope == [Dispatcher EXCEPT !.scope = {}]

\* e1 may assign and report, is deactivated or moved elsewhere, and comes back.
StaffMemberships ==
    [e \in Employees |-> IF e = e1 THEN {Dispatcher, Retired, OutOfScope} ELSE {Worker}]
=============================================================================
