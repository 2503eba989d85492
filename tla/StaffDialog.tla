---------------------------- MODULE StaffDialog ----------------------------
(***************************************************************************)
(* The private dialogs of the staff bot (src/app/bot/dialogs.py) as their  *)
(* users should see them: the events of a user are handled one at a time,  *)
(* each at most once and in one step.  BotWebhook shows that the webhook   *)
(* handlers do this with concurrent, repeated and failing requests.        *)
(*                                                                         *)
(* Events are numbered in the order they happen at the provider and may be *)
(* handled in any order.  A choice in a dialog is named by the event that  *)
(* made it, a flow (data["flow"], a fresh uuid4) by the event that began   *)
(* it.  What the catalog and the access rules answer is left open; the     *)
(* decisions on requests are the subject of TaskWorkflow.                  *)
(***************************************************************************)
EXTENDS Naturals, Sequences

CONSTANTS
    Users,       \* users with a private dialog
    Kinds,       \* the kinds of events that happen
    MaxEvents,   \* bound: events that happen
    MaxTime      \* bound: the provider's timestamps

\* What handle_staff tells apart: the menu or cancel, a new request, a button of
\* a flow, buttons that leave the dialog (lists, cards, chat messages, staff), a
\* result without a text, a result that asks for a text, a text, anything else
\* (also the buttons that page through a flow's names: they change nothing).
AllKinds ==
    {"menu", "new", "house", "category", "open", "progress", "ask", "text", "other"}

ASSUME BoundsAssumption == MaxEvents \in Nat /\ MaxTime \in Nat

ASSUME KindsAssumption == Kinds \subseteq AllKinds

VARIABLES
    input,    \* the events so far
    conv,     \* bot_conversations.state and .data of each user
    last,     \* bot_conversations.last_timestamp_ms of each user
    log       \* what was handled for each user, in order

dialog == <<input, conv, last, log>>

Events == 1..MaxEvents
None == 0

\* at is the timestamp, flow the flow a house or category button belongs to.
Input == [user : Users, kind : Kinds, flow : Events \cup {None}, at : 1..MaxTime]

Choice == Events \cup {None}
Conversation ==
    [state : {"menu", "house", "category", "description", "report"},
     flow : Choice, house : Choice, category : Choice, report : Choice]

\* state "menu" and empty data.
Menu == [state |-> "menu", flow |-> None, house |-> None, category |-> None, report |-> None]

\* Changes of requests and chat messages: "create", "report", "act" (assign,
\* convert or dismiss); "nothing" is handled without such a change.
Results == {"nothing", "create", "report", "act", "refused", "stale"}

\* on is the conversation the event was handled in.
Entry == [event : Events, result : Results, on : Conversation]

DialogTypeOK ==
    /\ input \in Seq(Input)
    /\ Len(input) <= MaxEvents
    /\ conv \in [Users -> Conversation]
    /\ last \in [Users -> 0..MaxTime]
    /\ log \in [Users -> Seq(Entry)]

DialogInit ==
    /\ input = <<>>
    /\ conv = [u \in Users |-> Menu]
    /\ last = [u \in Users |-> 0]
    /\ log = [u \in Users |-> <<>>]

Happened == 1..Len(input)

\* Flows whose buttons user u may have in the chat.
Shown(u) ==
    {log[u][i].event : i \in {j \in DOMAIN log[u] :
        input[log[u][j].event].kind = "new" /\ log[u][j].result = "nothing"}}

\* A user writes or presses a button; two events may bear the same millisecond.
Happen ==
    LET now == IF input = <<>> THEN 1 ELSE input[Len(input)].at IN
    /\ Len(input) < MaxEvents
    /\ \E u \in Users, k \in Kinds, t \in {now, now + 1} :
           /\ t <= MaxTime
           /\ \E f \in IF k \in {"house", "category"} THEN Shown(u) ELSE {None} :
                  input' = Append(input, [user |-> u, kind |-> k, flow |-> f, at |-> t])
    /\ UNCHANGED <<conv, last, log>>

-----------------------------------------------------------------------------
(* handle_staff: what event e makes of conversation c.                     *)

AfterCategory(c, e) ==
    {c, [c EXCEPT !.state = "category"],
     [c EXCEPT !.state = "description", !.category = e]}

\* select_house: none to choose from, several, or the only one taken.
AfterHouse(c, e) == {c} \cup AfterCategory([c EXCEPT !.house = e], e)

\* Mutant: a button is honoured in whatever flow the dialog is now.
AnyFlow(c, e, state) == c.state = state

\* The button belongs to the flow and to the step the dialog is in.
InFlow(c, e, state) == c.flow = input[e].flow /\ c.state = state

\* Mutant: the dialog stays open after the report.
ReportAgain(c, e) == {[conv |-> c, result |-> "report"], [conv |-> c, result |-> "nothing"]}

\* A text in state "report" is too long, or closes the dialog.
ReportText(c, e) == {[conv |-> Menu, result |-> "report"], [conv |-> c, result |-> "nothing"]}

Plain(S) == {[conv |-> c, result |-> "nothing"] : c \in S}

\* The ways in which an event is handled to the end.
Handled(c, e) ==
    LET k == input[e].kind IN
    CASE k = "menu" -> Plain({Menu})
      [] k = "new" -> Plain(AfterHouse([Menu EXCEPT !.state = "house", !.flow = e], e))
      [] k = "house" -> IF InFlow(c, e, "house")
                        THEN Plain(AfterCategory([c EXCEPT !.house = e], e)) ELSE {}
      [] k = "category" -> IF InFlow(c, e, "category")
                           THEN Plain({[c EXCEPT !.state = "description", !.category = e]})
                           ELSE {}
      [] k = "open" -> {[conv |-> Menu, result |-> r] : r \in {"nothing", "act"}}
      [] k = "progress" -> {[conv |-> Menu, result |-> "report"]}
      [] k = "ask" -> Plain({[Menu EXCEPT !.state = "report", !.report = e]})
      [] k = "text" /\ c.state = "report" -> ReportText(c, e)
      [] k = "text" /\ c.state = "description" -> {[conv |-> Menu, result |-> "create"]}
      [] OTHER -> Plain({c})

\* CRMConflict, another CRMError or a ValueError rolls the savepoint back.
Refused(c) == [conv |-> c, result |-> "refused"]

\* Mutant: the timestamp is not compared.
NeverStale(u, e) == FALSE

\* An event older than the last one handled is answered but not obeyed.
Stale(u, e) == input[e].at < last[u]

\* conversation(): 30 minutes of silence reset it before anything else.
Found(u) == {conv[u], Menu}

\* The whole of handling e: the conversation found, what it and its timestamp
\* become, the result.
Outcomes(u, e) ==
    IF Stale(u, e)
    THEN {[on |-> c, conv |-> c, last |-> last[u], result |-> "stale"] : c \in Found(u)}
    ELSE UNION {{[on |-> c, conv |-> o.conv, last |-> input[e].at, result |-> o.result] :
                    o \in Handled(c, e) \cup {Refused(c)}}
                : c \in Found(u)}

\* Outcome o of handling e becomes visible.
Take(e, o) ==
    LET u == input[e].user IN
    /\ conv' = [conv EXCEPT ![u] = o.conv]
    /\ last' = [last EXCEPT ![u] = o.last]
    /\ log' = [log EXCEPT ![u] =
                  Append(@, [event |-> e, result |-> o.result, on |-> o.on])]
    /\ UNCHANGED input

\* The events user u had handled.
Done(u) == {log[u][i].event : i \in DOMAIN log[u]}

Handle(e) ==
    /\ e \notin Done(input[e].user)
    /\ \E o \in Outcomes(input[e].user, e) : Take(e, o)

DialogNext == Happen \/ \E e \in Happened : Handle(e)

DialogSpec == DialogInit /\ [][DialogNext]_dialog

-----------------------------------------------------------------------------
(* Properties.                                                             *)

\* What user u's entry i did was not refused and not out of date.
Obeyed(u, i) == log[u][i].result \notin {"refused", "stale"}

KindOf(u, i) == input[log[u][i].event].kind

\* Entry i did not leave the dialog: only the menu, a new flow, a card, a question
\* or a report does, and a text that was one of those.
Stays(u, i) ==
    Obeyed(u, i) => /\ KindOf(u, i) \in {"house", "category", "text", "other"}
                    /\ log[u][i].result = "nothing"

\* Entry j obeyed event e of kind k, and before entry i nothing left the dialog.
Began(u, j, i, k, e) ==
    /\ log[u][j].event = e /\ KindOf(u, j) = k /\ Obeyed(u, j)
    /\ \A m \in (j + 1)..(i - 1) : Stays(u, m)

\* Event e was obeyed before entry i in the flow entry j began: by the beginning
\* itself or by a button of this flow.
Chosen(u, e, j, i) ==
    /\ \E m \in j..(i - 1) : log[u][m].event = e /\ Obeyed(u, m)
    /\ e = log[u][j].event \/ input[e].flow = log[u][j].event

\* A request is created from one flow: its house and its category were both
\* chosen in that flow after it began, and in between the dialog was never left
\* by the menu, another flow, a card or a report, whatever old buttons of earlier
\* flows the user pressed (dialogs.py:397-429, :559-579).
CreatedFromOneFlow ==
    \A u \in Users : \A i \in DOMAIN log[u] :
        log[u][i].result = "create" =>
            LET d == log[u][i].on IN
            \E j \in 1..(i - 1) :
                Began(u, j, i, "new", d.flow) /\ Chosen(u, d.house, j, i)
                  /\ Chosen(u, d.category, j, i)

\* A text becomes the explanation of the report the user was asked about last,
\* and of no other, and each question takes one answer (dialogs.py:517-558).
AnswersTheQuestion ==
    \A u \in Users : \A i \in DOMAIN log[u] :
        log[u][i].result = "report" /\ KindOf(u, i) = "text" =>
            \E j \in 1..(i - 1) : Began(u, j, i, "ask", log[u][i].on.report)

\* Conversation c, as it is before entry n, is of the flow, or of the question, that
\* it was entered with and not left since.
Within(u, c, n) ==
    /\ c.state \in {"house", "category", "description"} =>
           \E j \in 1..(n - 1) :
               /\ Began(u, j, n, "new", c.flow)
               /\ c.state # "house" => Chosen(u, c.house, j, n)
               /\ c.state = "description" => Chosen(u, c.category, j, n)
    /\ c.state = "report" => \E j \in 1..(n - 1) : Began(u, j, n, "ask", c.report)

\* Why they hold: this is so for every conversation that is stored.
DialogHeld == \A u \in Users : Within(u, conv[u], Len(log[u]) + 1)

\* Events that were obeyed happened in the order in which they were obeyed, up
\* to the millisecond: a late repetition cannot act after a newer event did.
ObeyedInOrder ==
    \A u \in Users : \A i, j \in DOMAIN log[u] :
        i < j /\ log[u][i].result # "stale" /\ log[u][j].result # "stale" =>
            input[log[u][i].event].at <= input[log[u][j].event].at

\* Why it holds: nothing that was heard in time is newer than the timestamp kept.
LastHeld ==
    \A u \in Users : \A i \in DOMAIN log[u] :
        /\ log[u][i].event \in Happened
        /\ log[u][i].result # "stale" => input[log[u][i].event].at <= last[u]
=============================================================================
