----------------------------- MODULE BotWebhook -----------------------------
(***************************************************************************)
(* The webhook of the staff bot (src/app/bot/routes.py) as concurrent      *)
(* requests, each one PostgreSQL transaction, against a provider that      *)
(* repeats an event until it hears 200 and may repeat it later still.      *)
(*                                                                         *)
(* What an event does to the dialog is StaffDialog's; here it is computed  *)
(* under the row lock of the conversation and becomes visible with the     *)
(* commit, together with the receipt and the queued replies.               *)
(***************************************************************************)
EXTENDS StaffDialog

CONSTANTS
    Handlers,     \* requests the API serves at the same time
    MaxFaults     \* bound: requests and responses that fail

ASSUME FaultsAssumption == MaxFaults \in Nat

\* The variables of StaffDialog are what is committed.
VARIABLES
    receipts,     \* bot_receipts: events whose key is committed
    strangers,    \* events whose sender was not authorized
    heard,        \* events the provider got a 200 for
    ticket,       \* BotDelivery.sequence of an event's first reply; 0: none
    tickets,      \* numbers the identity column has handed out
    handler,      \* local state of each request
    faults

vars == <<dialog, receipts, strangers, heard, ticket, tickets, handler, faults>>

Phases == {"idle", "received", "inserted", "answered", "committed"}

\* An outcome of handling an event, see StaffDialog.
Outcome ==
    [on : Conversation, conv : Conversation, last : 0..MaxTime, result : Results]

HandlerStates ==
    [pc : Phases, event : Events \cup {0}, outcome : Outcome, ticket : Nat]

NoOutcome == [on |-> Menu, conv |-> Menu, last |-> 0, result |-> "nothing"]
Request(p, e, o, n) == [pc |-> p, event |-> e, outcome |-> o, ticket |-> n]
Idle == Request("idle", 0, NoOutcome, 0)

TypeOK ==
    /\ DialogTypeOK
    /\ receipts \subseteq Events
    /\ strangers \subseteq Events
    /\ heard \subseteq Events
    /\ ticket \in [Events -> Nat]
    /\ tickets \in Nat
    /\ handler \in [Handlers -> HandlerStates]
    /\ faults \in 0..MaxFaults

Init ==
    /\ DialogInit
    /\ receipts = {} /\ strangers = {} /\ heard = {}
    /\ ticket = [e \in Events |-> 0]
    /\ tickets = 0
    /\ handler = [h \in Handlers |-> Idle]
    /\ faults = 0

-----------------------------------------------------------------------------
(* The provider.                                                           *)

EventHappens ==
    /\ Happen
    /\ UNCHANGED <<receipts, strangers, heard, ticket, tickets, handler, faults>>

\* An event is delivered: for the first time, again because no 200 was heard,
\* or once more although it was.
Deliver(h, e) ==
    /\ handler[h].pc = "idle"
    /\ handler' = [handler EXCEPT ![h] = Request("received", e, NoOutcome, 0)]
    /\ UNCHANGED <<dialog, receipts, strangers, heard, ticket, tickets, faults>>

-----------------------------------------------------------------------------
(* max_webhook.                                                            *)

\* Its transaction has inserted the receipt and is still open.
Open(h) == handler[h].pc \in {"inserted", "answered"}

\* Mutant: the receipts of open transactions count as duplicates.
SeenUncommitted(h) ==
    \/ handler[h].event \in receipts
    \/ \E g \in Handlers \ {h} : Open(g) /\ handler[g].event = handler[h].event

\* INSERT ... ON CONFLICT DO NOTHING finds a committed receipt.
Seen(h) == handler[h].event \in receipts

\* It waits for an open transaction that has inserted the same receipt.
ReceiptWaits(h) ==
    \E g \in Handlers \ {h} : Open(g) /\ handler[g].event = handler[h].event

InsertReceipt(h) ==
    /\ handler[h].pc = "received"
    /\ ~ReceiptWaits(h) /\ ~Seen(h)
    /\ handler' = [handler EXCEPT ![h].pc = "inserted"]
    /\ UNCHANGED <<dialog, receipts, strangers, heard, ticket, tickets, faults>>

\* Mutant: a duplicate is answered with an error.
DuplicateRefused(h) ==
    /\ handler[h].pc = "received"
    /\ Seen(h)
    /\ handler' = [handler EXCEPT ![h] = Idle]
    /\ UNCHANGED <<dialog, receipts, strangers, heard, ticket, tickets, faults>>

\* A duplicate: commit and say 200.
Duplicate(h) ==
    /\ handler[h].pc = "received"
    /\ Seen(h)
    /\ handler' = [handler EXCEPT ![h].pc = "committed"]
    /\ UNCHANGED <<dialog, receipts, strangers, heard, ticket, tickets, faults>>

\* native_actor raises InvalidCredentials: the receipt alone is committed.
Reject(h) ==
    /\ handler[h].pc = "inserted"
    /\ receipts' = receipts \cup {handler[h].event}
    /\ strangers' = strangers \cup {handler[h].event}
    /\ handler' = [handler EXCEPT ![h].pc = "committed"]
    /\ UNCHANGED <<dialog, heard, ticket, tickets, faults>>

UserOf(h) == input[handler[h].event].user

\* Mutant: the conversation is read without FOR UPDATE.
ConversationUnlocked(h) == FALSE

\* SELECT ... FOR UPDATE of the conversation (or the insertion of its row) waits
\* for the request that has it.
ConversationWaits(h) ==
    \E g \in Handlers \ {h} : handler[g].pc = "answered" /\ UserOf(g) = UserOf(h)

\* The conversation is locked and read, the event handled in a savepoint or
\* answered as stale, and the replies are inserted with the next numbers.
Answer(h) ==
    LET e == handler[h].event IN
    /\ handler[h].pc = "inserted"
    /\ ~ConversationWaits(h)
    /\ \E o \in Outcomes(UserOf(h), e) :
           handler' = [handler EXCEPT ![h] = Request("answered", e, o, tickets + 1)]
    /\ tickets' = tickets + 1
    /\ UNCHANGED <<dialog, receipts, strangers, heard, ticket, faults>>

\* One commit makes the receipt, the conversation, the changes and the replies
\* visible.
Commit(h) ==
    LET e == handler[h].event IN
    /\ handler[h].pc = "answered"
    /\ Take(e, handler[h].outcome)
    /\ receipts' = receipts \cup {e}
    /\ ticket' = [ticket EXCEPT ![e] = handler[h].ticket]
    /\ handler' = [handler EXCEPT ![h] = Request("committed", e, NoOutcome, 0)]
    /\ UNCHANGED <<strangers, heard, tickets, faults>>

\* The provider hears 200.
Respond(h) ==
    /\ handler[h].pc = "committed"
    /\ heard' = heard \cup {handler[h].event}
    /\ handler' = [handler EXCEPT ![h] = Idle]
    /\ UNCHANGED <<dialog, receipts, strangers, ticket, tickets, faults>>

\* A database error (503), a dead process or a lost connection: what is not
\* committed is rolled back, what is stays, and the provider hears no 200.
Fail(h) ==
    /\ handler[h].pc # "idle"
    /\ faults < MaxFaults
    /\ faults' = faults + 1
    /\ handler' = [handler EXCEPT ![h] = Idle]
    /\ UNCHANGED <<dialog, receipts, strangers, heard, ticket, tickets>>

-----------------------------------------------------------------------------
Serve(h) ==
    InsertReceipt(h) \/ Duplicate(h) \/ Reject(h) \/ Answer(h) \/ Commit(h) \/ Respond(h)

Next ==
    \/ EventHappens
    \/ \E h \in Handlers :
           \/ \E e \in Happened : Deliver(h, e)
           \/ Serve(h)
           \/ Fail(h)

Spec == Init /\ [][Next]_vars

\* A request the API has taken is served, and MAX repeats an event it heard no
\* 200 for (docs/simple-bot.md:102).
Fairness ==
    /\ \A h \in Handlers : WF_vars(Serve(h))
    /\ \A e \in Events :
           SF_vars(\E h \in Handlers : e \in Happened \ heard /\ Deliver(h, e))

FairSpec == Spec /\ Fairness

-----------------------------------------------------------------------------
(* Properties.                                                             *)

\* However often an event is delivered, and however many of its requests run
\* at once or die, its user sees it handled at most once.
HandledAtMostOnce ==
    \A u \in Users : \A i, j \in DOMAIN log[u] :
        i # j => log[u][i].event # log[u][j].event

\* "Acknowledge only after an atomic database commit" (routes.py:1): an event
\* the provider will not repeat was handled, or its sender was not authorized.
HeardIsHandled ==
    \A e \in heard : e \in strangers \/ e \in Done(input[e].user)

\* The reply queue follows the conversation: what answers a later step of the
\* dialog has a higher number, and the worker sends in that order.
RepliesFollowDialog ==
    \A u \in Users : \A i, j \in DOMAIN log[u] :
        i < j => ticket[log[u][i].event] < ticket[log[u][j].event]

\* Why all this holds.  Open requests work on different events, and on different
\* users from the moment they have the conversation; what such a request computed
\* is still what handling its event means.
RequestsExclude ==
    \A g, h \in Handlers : g # h =>
        /\ Open(g) /\ Open(h) => handler[g].event # handler[h].event
        /\ handler[g].pc = "answered" /\ handler[h].pc = "answered" => UserOf(g) # UserOf(h)

RequestFits(h) ==
    /\ handler[h].pc # "idle" => handler[h].event \in Happened
    /\ Open(h) => handler[h].event \notin receipts
    /\ handler[h].pc = "answered" =>
           /\ handler[h].outcome \in Outcomes(UserOf(h), handler[h].event)
           /\ handler[h].ticket <= tickets
           /\ \A e \in Done(UserOf(h)) : ticket[e] < handler[h].ticket
    /\ handler[h].pc = "committed" => handler[h].event \in receipts

\* Receipts are what was handled and what was refused to strangers.
ReceiptsFit ==
    /\ heard \subseteq receipts /\ receipts \subseteq Happened
    /\ \A u \in Users : \A e \in Done(u) :
           e \in receipts /\ input[e].user = u /\ ticket[e] <= tickets
    /\ \A e \in receipts : e \in strangers \/ e \in Done(input[e].user)

\* No two requests interfere, and receipts, conversations and replies agree
\* in every committed state.
RequestsIsolated ==
    RequestsExclude /\ ReceiptsFit /\ \A h \in Handlers : RequestFits(h)

\* Every event is acknowledged in the end.
EventuallyHeard == \A e \in Events : e \in Happened ~> e \in heard

\* Concurrent, repeated and failing requests implement the dialog in which
\* every event of a user is handled at most once, one at a time.
ServesDialog == DialogSpec
=============================================================================
