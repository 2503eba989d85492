----------------------------- MODULE ChatTriage -----------------------------
(***************************************************************************)
(* Messages of house chats: the observer namespace of the webhook          *)
(* (src/app/bot/routes.py), the binding of a chat to a house and a         *)
(* category (src/app/bot/setup.py) and the inbox in which dispatchers make *)
(* a message a request or lay it aside (src/app/bot/dialogs.py), as        *)
(* concurrent PostgreSQL transactions.                                     *)
(*                                                                         *)
(* A press is the handling of one button; that each button is handled at   *)
(* most once is BotWebhook's, how a request is inserted RequestIntake's.   *)
(***************************************************************************)
EXTENDS Naturals, Sequences, FiniteSets

CONSTANTS
    Messages,
    Chats,
    ChatOf,        \* the chat a message was written in
    Places,        \* pairs of a house and a category
    Unbound,
    Dispatchers,
    Scopes,        \* the sets of places a membership may cover, one after another
    Hooks,         \* observer requests the API serves at the same time
    Sessions,      \* transactions handling one button each
    MaxPresses,    \* bound: buttons pressed
    MaxFaults      \* bound: observer requests that fail

ASSUME NamesAssumption ==
    /\ Unbound \notin Places /\ Scopes \subseteq SUBSET Places
    /\ ChatOf \in [Messages -> Chats]
    /\ Messages # {} /\ Dispatchers # {}

ASSUME BoundsAssumption == MaxPresses \in Nat /\ MaxFaults \in Nat

VARIABLES
    binding,     \* house_chats: the place of a bound chat
    items,       \* chat_observations rows, and bot_receipts of the observer
    requests,    \* the message of each request made from one, in order
    requestOf,   \* chat_observations.request_id; 0: none
    dismissed,   \* chat_observations.dismissed
    place,       \* the place of each request
    storedAt,    \* the place a message's chat was bound to when it was stored
    may,         \* the places each dispatcher's membership covers
    heard,       \* messages the provider got a 200 for
    ignored,     \* those whose chat was not bound when they were received
    hook, press,
    told,        \* what dispatchers were told, in order
    pressed, faults

rows == <<items, requests, requestOf, dismissed, place, storedAt>>
vars == <<binding, rows, may, heard, ignored, hook, press, told, pressed, faults>>

Actions == {"observation", "convert", "dismiss"}
Told == {"created", "dismissed", "card", "already", "text"}

HookStates == [pc : {"idle", "received", "inserted", "committed"}, message : Messages]

\* request and gone are what the SELECT ... FOR UPDATE returned.
PressStates ==
    [pc : {"idle", "begun", "locked", "authorized"}, dispatcher : Dispatchers,
     message : Messages, action : Actions, request : Nat, gone : BOOLEAN]

TypeOK ==
    /\ binding \in [Chats -> Places \cup {Unbound}]
    /\ items \in SUBSET Messages
    /\ requests \in Seq(Messages)
    /\ requestOf \in [Messages -> Nat]
    /\ dismissed \in SUBSET Messages
    /\ place \in Seq(Places)
    /\ storedAt \in [Messages -> Places \cup {Unbound}]
    /\ may \in [Dispatchers -> Scopes]
    /\ heard \in SUBSET Messages
    /\ ignored \in SUBSET Messages
    /\ hook \in [Hooks -> HookStates]
    /\ press \in [Sessions -> PressStates]
    /\ told \in Seq([dispatcher : Dispatchers, message : Messages, result : Told])
    /\ pressed \in 0..MaxPresses
    /\ faults \in 0..MaxFaults

Quiet == [pc |-> "idle", message |-> CHOOSE m \in Messages : TRUE]

Fresh ==
    [pc |-> "idle", dispatcher |-> CHOOSE d \in Dispatchers : TRUE,
     message |-> CHOOSE m \in Messages : TRUE, action |-> "observation", request |-> 0,
     gone |-> FALSE]

Init ==
    /\ binding = [c \in Chats |-> Unbound]
    /\ items = {} /\ dismissed = {} /\ heard = {} /\ ignored = {}
    /\ requests = <<>> /\ place = <<>> /\ told = <<>>
    /\ requestOf = [m \in Messages |-> 0]
    /\ storedAt = [m \in Messages |-> Unbound]
    /\ may \in [Dispatchers -> Scopes]
    /\ hook = [h \in Hooks |-> Quiet]
    /\ press = [s \in Sessions |-> Fresh]
    /\ pressed = 0 /\ faults = 0

-----------------------------------------------------------------------------
(* The observer bot.                                                       *)

\* Mutant: a chat may be bound to another place.
BindAgain(c, p) ==
    /\ binding' = [binding EXCEPT ![c] = p]
    /\ UNCHANGED <<rows, may, heard, ignored, hook, press, told, pressed, faults>>

\* bind_chat, run by the operator: a bound chat keeps its place.
Bind(c, p) ==
    /\ binding[c] = Unbound
    /\ binding' = [binding EXCEPT ![c] = p]
    /\ UNCHANGED <<rows, may, heard, ignored, hook, press, told, pressed, faults>>

\* A message is delivered: for the first time, or again.
Deliver(h, m) ==
    /\ hook[h].pc = "idle"
    /\ hook' = [hook EXCEPT ![h] = [pc |-> "received", message |-> m]]
    /\ UNCHANGED <<binding, rows, may, heard, ignored, press, told, pressed, faults>>

Place(h) == binding[ChatOf[hook[h].message]]

\* The chat is not bound: 200, and nothing is stored.
Ignore(h) ==
    /\ hook[h].pc = "received"
    /\ Place(h) = Unbound
    /\ ignored' = ignored \cup {hook[h].message}
    /\ hook' = [hook EXCEPT ![h].pc = "committed"]
    /\ UNCHANGED <<binding, rows, may, heard, press, told, pressed, faults>>

\* Mutant: the receipt of an open transaction makes the message a duplicate.
DuplicateOfOpen(h) ==
    \/ hook[h].message \in items
    \/ \E g \in Hooks \ {h} : hook[g].pc = "inserted" /\ hook[g].message = hook[h].message

\* The receipt is committed.
Duplicate(h) == hook[h].message \in items

\* INSERT of the receipt, then of the observation: a committed receipt means a
\* duplicate, one of an open transaction is waited for.
Receive(h) ==
    /\ hook[h].pc = "received"
    /\ Place(h) # Unbound
    /\ \/ Duplicate(h) /\ hook' = [hook EXCEPT ![h].pc = "committed"]
       \/ /\ ~Duplicate(h)
          /\ \A g \in Hooks \ {h} :
                 hook[g].pc = "inserted" => hook[g].message # hook[h].message
          /\ hook' = [hook EXCEPT ![h].pc = "inserted"]
    /\ UNCHANGED <<binding, rows, may, heard, ignored, press, told, pressed, faults>>

Store(h) ==
    LET m == hook[h].message IN
    /\ hook[h].pc = "inserted"
    /\ items' = items \cup {m}
    /\ storedAt' = [storedAt EXCEPT ![m] = Place(h)]
    /\ hook' = [hook EXCEPT ![h].pc = "committed"]
    /\ UNCHANGED <<binding, requests, requestOf, dismissed, place, may, heard, ignored, press,
                   told, pressed, faults>>

\* The provider hears 200.
Respond(h) ==
    /\ hook[h].pc = "committed"
    /\ heard' = heard \cup {hook[h].message}
    /\ hook' = [hook EXCEPT ![h] = Quiet]
    /\ UNCHANGED <<binding, rows, may, ignored, press, told, pressed, faults>>

\* A database error, a dead process or a lost answer.
Fail(h) ==
    /\ hook[h].pc # "idle"
    /\ faults < MaxFaults
    /\ faults' = faults + 1
    /\ hook' = [hook EXCEPT ![h] = Quiet]
    /\ UNCHANGED <<binding, rows, may, heard, ignored, press, told, pressed>>

-----------------------------------------------------------------------------
(* The inbox.                                                              *)

\* The owner changes a membership, a role or the env lists.
ChangeAccess(d) ==
    /\ \E S \in Scopes \ {may[d]} : may' = [may EXCEPT ![d] = S]
    /\ UNCHANGED <<binding, rows, heard, ignored, hook, press, told, pressed, faults>>

\* A button of an inbox page or of a shown message, however old.
Press(s) ==
    /\ press[s].pc = "idle"
    /\ pressed < MaxPresses
    /\ \E d \in Dispatchers, m \in items, x \in Actions :
           press' = [press EXCEPT ![s] =
                        [Fresh EXCEPT !.pc = "begun", !.dispatcher = d, !.message = m,
                                      !.action = x]]
    /\ pressed' = pressed + 1
    /\ UNCHANGED <<binding, rows, may, heard, ignored, hook, told, faults>>

HasLock(s) == press[s].pc \in {"locked", "authorized"}

\* Mutant: the observation is read without FOR UPDATE.
NeverLocked(s) == FALSE

LockedByOther(s) ==
    \E u \in Sessions \ {s} : HasLock(u) /\ press[u].message = press[s].message

\* SELECT ... FOR UPDATE of the observation: waits, then reads the newest version.
Lock(s) ==
    LET m == press[s].message IN
    /\ press[s].pc = "begun"
    /\ ~LockedByOther(s)
    /\ press' = [press EXCEPT ![s] = [@ EXCEPT !.pc = "locked", !.request = requestOf[m],
                                               !.gone = m \in dismissed]]
    /\ UNCHANGED <<binding, rows, may, heard, ignored, hook, told, pressed, faults>>

\* Mutant: access is not looked at.
Anybody(s) == TRUE

\* load_access, can_house and can_category of the place the chat is bound to.
Authorized(s) == binding[ChatOf[press[s].message]] \in may[press[s].dispatcher]

Authorize(s) ==
    /\ press[s].pc = "locked"
    /\ Authorized(s)
    /\ press' = [press EXCEPT ![s].pc = "authorized"]
    /\ UNCHANGED <<binding, rows, may, heard, ignored, hook, told, pressed, faults>>

Refuse(s) ==
    /\ press[s].pc = "locked"
    /\ ~Authorized(s)
    /\ press' = [press EXCEPT ![s] = Fresh]
    /\ UNCHANGED <<binding, rows, may, heard, ignored, hook, told, pressed, faults>>

Tell(s, x) ==
    told' = Append(told, [dispatcher |-> press[s].dispatcher, message |-> press[s].message,
                          result |-> x])

\* The locked row says that nobody has decided yet.
Undecided(s) == press[s].request = 0 /\ ~press[s].gone

\* The commit of a decision on a message nobody has decided yet: request and
\* request_id, or dismissed, with the reply that says so.
Decide(s) ==
    LET m == press[s].message IN
    /\ press[s].pc = "authorized"
    /\ Undecided(s)
    /\ \/ /\ press[s].action = "convert"
          /\ requests' = Append(requests, m)
          /\ place' = Append(place, binding[ChatOf[m]])
          /\ requestOf' = [requestOf EXCEPT ![m] = Len(requests) + 1]
          /\ Tell(s, "created")
          /\ UNCHANGED dismissed
       \/ /\ press[s].action = "dismiss"
          /\ dismissed' = dismissed \cup {m}
          /\ Tell(s, "dismissed")
          /\ UNCHANGED <<requests, place, requestOf>>
    /\ press' = [press EXCEPT ![s] = Fresh]
    /\ UNCHANGED <<binding, items, storedAt, may, heard, ignored, hook, pressed, faults>>

\* A message already decided, or only looked at: the task's card (if the
\* dispatcher may see the task), "already done", or the text with its buttons.
Show(s) ==
    /\ press[s].pc = "authorized"
    /\ press[s].action = "observation" \/ ~Undecided(s)
    /\ Tell(s, IF press[s].request # 0 THEN "card"
               ELSE IF press[s].gone THEN "already" ELSE "text")
    /\ press' = [press EXCEPT ![s] = Fresh]
    /\ UNCHANGED <<binding, rows, may, heard, ignored, hook, pressed, faults>>

\* A database error, a failing webhook or a dead process; or the task cannot
\* be shown to this dispatcher, and the savepoint is undone.
Abort(s) ==
    /\ press[s].pc # "idle"
    /\ press' = [press EXCEPT ![s] = Fresh]
    /\ UNCHANGED <<binding, rows, may, heard, ignored, hook, told, pressed, faults>>

-----------------------------------------------------------------------------
Serve(h) == Ignore(h) \/ Receive(h) \/ Store(h) \/ Respond(h)
Step(s) == Lock(s) \/ Authorize(s) \/ Refuse(s) \/ Decide(s) \/ Show(s)

Next ==
    \/ \E c \in Chats, p \in Places : Bind(c, p)
    \/ \E d \in Dispatchers : ChangeAccess(d)
    \/ \E h \in Hooks : (\E m \in Messages : Deliver(h, m)) \/ Serve(h) \/ Fail(h)
    \/ \E s \in Sessions : Press(s) \/ Step(s) \/ Abort(s)

Spec == Init /\ [][Next]_vars

\* What the API has begun goes on, and MAX repeats a message it heard no 200
\* for; nobody has to press anything.
Fairness ==
    /\ \A h \in Hooks : WF_vars(Serve(h))
    /\ \A s \in Sessions : WF_vars(Step(s))
    /\ \A m \in Messages : SF_vars(\E h \in Hooks : m \notin heard /\ Deliver(h, m))

FairSpec == Spec /\ Fairness

-----------------------------------------------------------------------------
(* Properties.                                                             *)

\* A message becomes at most one request, never one and laid aside as well, and
\* its row names that very request, whatever two dispatchers press at the same
\* time (dialogs.py:289-327).
TriagedOnce ==
    /\ \A i, j \in DOMAIN requests : requests[i] = requests[j] => i = j
    /\ \A m \in Messages :
           requestOf[m] # 0 <=> \E i \in DOMAIN requests : requests[i] = m
    /\ \A i \in DOMAIN requests :
           requestOf[requests[i]] = i /\ requests[i] \in items \ dismissed

\* A request made from a message is in the house and the category its chat
\* stood for when the message was written, since "rebinding would change the
\* meaning of saved observations" (setup.py:129-130).
MeaningKept ==
    \A i \in DOMAIN requests : place[i] = storedAt[requests[i]]

\* A message the provider will not repeat is in the inbox, or its chat was not
\* bound when it came (routes.py:61-82).
HeardIsStored == heard \subseteq items \cup ignored

\* A stored message has the place of its chat, and a decided one is stored.
RowsConsistent ==
    /\ \A m \in items : storedAt[m] = binding[ChatOf[m]] /\ storedAt[m] # Unbound
    /\ Len(place) = Len(requests)
    /\ \A m \in dismissed : m \in items /\ requestOf[m] = 0

\* A receipt of an open transaction is of a new message and has no equal.
HookConsistent(h) ==
    /\ hook[h].pc = "committed" => hook[h].message \in items \cup ignored
    /\ hook[h].pc = "inserted" =>
           /\ Place(h) # Unbound /\ ~Duplicate(h)
           /\ \A g \in Hooks \ {h} :
                  hook[g].pc = "inserted" => hook[g].message # hook[h].message

\* An open decision knows the row it has locked, alone.
PressConsistent(s) ==
    /\ press[s].pc # "idle" => press[s].message \in items
    /\ HasLock(s) =>
           /\ ~LockedByOther(s)
           /\ press[s].request = requestOf[press[s].message]
           /\ press[s].gone <=> press[s].message \in dismissed

\* Why it holds: the three parts above (routes.py:64-82, dialogs.py:289-294).
TriageConsistent ==
    /\ RowsConsistent
    /\ \A h \in Hooks : HookConsistent(h)
    /\ \A s \in Sessions : PressConsistent(s)

\* What a dispatcher got out of the inbox.
Gained(d) == Cardinality({i \in DOMAIN told : told[i].dispatcher = d})

\* A dispatcher whose access to a chat's place ended decides and reads nothing
\* more, even with buttons already pressed and waiting for the row: access is
\* read after the lock (dialogs.py:289-302).
RevokedDispatchersStop ==
    \A d \in Dispatchers : \A n \in 0..MaxPresses :
        []( (/\ Gained(d) = n
             /\ \A s \in Sessions :
                    press[s].dispatcher = d => press[s].pc \in {"idle", "begun", "locked"}
             /\ [](may[d] = {}))
            => [](Gained(d) = n))

\* Every message of a bound chat reaches the inbox in the end, or it came before
\* the binding and the provider was told so.
MessagesArrive ==
    \A m \in Messages : binding[ChatOf[m]] # Unbound ~> m \in items \cup ignored

\* Seen through the committed rows and what dispatchers were told, the triage is
\* TriagedInbox: one final decision per message, told to the one who took it.
Inbox == INSTANCE TriagedInbox
TriagesAtomically == Inbox!Spec
=============================================================================
