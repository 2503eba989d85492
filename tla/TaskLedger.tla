----------------------------- MODULE TaskLedger -----------------------------
(***************************************************************************)
(* What the task workflow promises of a service request: whatever          *)
(* dispatchers and employees press at the same time, the request changes   *)
(* as if one decision were taken after another, each one atomic and taken  *)
(* in full knowledge of those before it.                                   *)
(***************************************************************************)
EXTENDS Naturals, Sequences

CONSTANTS Requests, Owners, Employees, Nobody, Codes, InitialCode

VARIABLES
    assignee,   \* the employee the request is with
    status,
    revision,   \* how many decisions were taken
    decisions,  \* the decisions, in order
    history     \* the status changes, in order

ledger == <<assignee, status, revision, decisions, history>>

Init ==
    /\ assignee = [r \in Requests |-> Nobody]
    /\ status = [r \in Requests |-> InitialCode]
    /\ revision = [r \in Requests |-> 0]
    /\ decisions = [r \in Requests |-> <<>>]
    /\ history = [r \in Requests |-> <<>>]

\* The request goes to employee e; its status stays.
Assign(r, a, e) ==
    /\ assignee' = [assignee EXCEPT ![r] = e]
    /\ revision' = [revision EXCEPT ![r] = @ + 1]
    /\ decisions' = [decisions EXCEPT ![r] =
                        Append(@, [kind |-> "assign", by |-> a, what |-> e, on |-> revision[r]])]
    /\ UNCHANGED <<status, history>>

\* An owner reports, or the employee the request is with at this very moment;
\* the history gains a row exactly when the status changes.
Report(r, a, c) ==
    /\ a \in Owners \/ a = assignee[r]
    /\ status' = [status EXCEPT ![r] = c]
    /\ revision' = [revision EXCEPT ![r] = @ + 1]
    /\ decisions' = [decisions EXCEPT ![r] =
                        Append(@, [kind |-> "report", by |-> a, what |-> c, on |-> revision[r]])]
    /\ history' = IF c = status[r] THEN history
                  ELSE [history EXCEPT ![r] = Append(@, <<status[r], c>>)]
    /\ UNCHANGED assignee

Next ==
    \E r \in Requests, a \in Owners \cup Employees :
        \/ \E e \in Employees : Assign(r, a, e)
        \/ \E c \in Codes : Report(r, a, c)

Spec == Init /\ [][Next]_ledger
=============================================================================
