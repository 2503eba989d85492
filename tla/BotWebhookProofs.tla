-------------------------- MODULE BotWebhookProofs --------------------------
(***************************************************************************)
(* What a staff user's dialog promises, for any users, any kinds and any   *)
(* number of events in any order, and that the webhook keeps it for any    *)
(* number of concurrent, repeated and failing requests.                    *)
(***************************************************************************)
EXTENDS BotWebhook, SequenceTheorems, TLAPS

-----------------------------------------------------------------------------
(* Types.                                                                  *)

\* Every event that happened has a user, a kind, a flow and a timestamp.
LEMMA InputType ==
    ASSUME DialogTypeOK, NEW e \in Happened
    PROVE  /\ e \in Events
           /\ input[e] \in Input
           /\ input[e].user \in Users /\ input[e].kind \in AllKinds
           /\ input[e].at \in 1..MaxTime
<1>1. e \in 1..Len(input) /\ Len(input) \in Nat /\ Len(input) <= MaxEvents
    BY LenProperties DEF DialogTypeOK, Happened
<1>2. input[e] \in Input
    BY <1>1, ElementOfSeq DEF DialogTypeOK
<1> QED
    BY <1>1, <1>2, BoundsAssumption, KindsAssumption DEF Events, Input

\* The entries of a log.
LEMMA LogType ==
    ASSUME DialogTypeOK, NEW u \in Users
    PROVE  /\ Len(log[u]) \in Nat
           /\ DOMAIN log[u] = 1..Len(log[u])
           /\ \A i \in 1..Len(log[u]) :
                  /\ log[u][i] \in Entry
                  /\ log[u][i].event \in Events
                  /\ log[u][i].result \in Results
<1>1. log[u] \in Seq(Entry)
    BY DEF DialogTypeOK
<1>2. \A i \in 1..Len(log[u]) : log[u][i] \in Entry
    BY <1>1, ElementOfSeq
<1> QED
    BY <1>1, <1>2, LenProperties DEF Entry

\* The conversations handle_staff builds.
LEMMA ConversationType ==
    ASSUME NEW c \in Conversation, NEW e \in Events
    PROVE  /\ Menu \in Conversation
           /\ [c EXCEPT !.state = "category"] \in Conversation
           /\ [c EXCEPT !.house = e] \in Conversation
           /\ [c EXCEPT !.state = "description", !.category = e] \in Conversation
           /\ [c EXCEPT !.state = "house", !.flow = e] \in Conversation
           /\ [c EXCEPT !.state = "report", !.report = e] \in Conversation
    BY DEF Conversation, Menu, Choice, None, Events

-----------------------------------------------------------------------------
(* What handling an event can make of a conversation.                      *)

\* A flow begins, and may have a house and a category taken for it at once.
BeginsFlow(d, e) ==
    /\ d.flow = e
    /\ d.state \in {"house", "category", "description"}
    /\ d.state # "house" => d.house = e
    /\ d.state = "description" => d.category = e

\* A house, or a house and the only category, is chosen in the flow of c.
ChoosesHouse(c, d, e) ==
    /\ c.state = "house" /\ c.flow = input[e].flow
    /\ d.flow = c.flow
    /\ d.state \in {"house", "category", "description"}
    /\ d.state # "house" => d.house = e
    /\ d.state = "description" => d.category = e

\* A category is chosen in the flow of c.
ChoosesCategory(c, d, e) ==
    /\ c.state = "category" /\ c.flow = input[e].flow
    /\ d.flow = c.flow /\ d.state = "description"
    /\ d.house = c.house /\ d.category = e

\* Event e, obeyed in conversation c, results in r and conversation d.
Effect(c, e, d, r) ==
    LET k == input[e].kind IN
    \/ r = "nothing" /\ d = Menu
    \/ r = "nothing" /\ k \in {"text", "other"} /\ d = c
    \/ r = "nothing" /\ k = "new" /\ BeginsFlow(d, e)
    \/ r = "nothing" /\ k = "house" /\ ChoosesHouse(c, d, e)
    \/ r = "nothing" /\ k = "category" /\ ChoosesCategory(c, d, e)
    \/ r = "nothing" /\ k = "ask" /\ d.state = "report" /\ d.report = e
    \/ r = "act" /\ d = Menu
    \/ r = "report" /\ d = Menu /\ (k = "text" => c.state = "report")
    \/ r = "create" /\ d = Menu /\ c.state = "description"

\* The ways through the choosers.
LEMMA ChooserEffect ==
    ASSUME NEW c \in Conversation, NEW e \in Events, NEW d \in AfterCategory(c, e)
    PROVE  /\ d \in Conversation
           /\ d.flow = c.flow /\ d.house = c.house
           /\ d.state \in {c.state, "category", "description"}
           /\ d.state = "description" /\ c.state # "description" => d.category = e
<1> DEFINE a == [c EXCEPT !.state = "category"]
           b == [c EXCEPT !.state = "description", !.category = e]
<1>1. d \in {c, a, b}
    BY DEF AfterCategory
<1>2. a \in Conversation /\ b \in Conversation
    BY ConversationType
<1>3. a.flow = c.flow /\ a.house = c.house /\ a.state = "category"
    BY DEF Conversation
<1>4. /\ b.flow = c.flow /\ b.house = c.house /\ b.state = "description"
      /\ b.category = e
    BY DEF Conversation
<1> HIDE DEF a, b
<1> QED
    BY <1>1, <1>2, <1>3, <1>4

\* handle_staff has one of these effects.
LEMMA HandledEffect ==
    ASSUME DialogTypeOK, NEW e \in Happened, NEW c \in Conversation, NEW o \in Handled(c, e)
    PROVE  o.conv \in Conversation /\ o.result \in Results /\ Effect(c, e, o.conv, o.result)
<1> DEFINE k == input[e].kind
<1>0. e \in Events /\ k \in AllKinds
    BY InputType
<1>1. ASSUME NEW S, o \in Plain(S)
      PROVE  o.conv \in S /\ o.result = "nothing" /\ o.result \in Results
    BY <1>1 DEF Plain, Results
<1>2. Menu \in Conversation
    BY <1>0, ConversationType
<1>3. CASE k = "menu"
    <2>1. o \in Plain({Menu})
        BY <1>3 DEF Handled
    <2> QED
        BY <1>1, <1>2, <2>1 DEF Effect
<1>4. CASE k = "new"
    <2> DEFINE m == [Menu EXCEPT !.state = "house", !.flow = e]
               h == [m EXCEPT !.house = e]
    <2>1. m \in Conversation /\ m.state = "house" /\ m.flow = e
        BY <1>0, <1>2, ConversationType DEF Menu
    <2>2. o \in Plain(AfterHouse(m, e))
        BY <1>4 DEF Handled
    <2> HIDE DEF m
    <2>3. h \in Conversation /\ h.state = "house" /\ h.flow = e /\ h.house = e
        BY <1>0, <2>1, ConversationType DEF Conversation
    <2>4. o.conv = m \/ o.conv \in AfterCategory(h, e)
        BY <1>1, <2>2 DEF AfterHouse
    <2> HIDE DEF h
    <2>5. o.conv \in Conversation /\ BeginsFlow(o.conv, e)
        BY <1>0, <2>1, <2>3, <2>4, ChooserEffect DEF BeginsFlow
    <2> QED
        BY <1>1, <1>4, <2>2, <2>5 DEF Effect
<1>5. CASE k = "house"
    <2> DEFINE h == [c EXCEPT !.house = e]
    <2>1. InFlow(c, e, "house") /\ o \in Plain(AfterCategory(h, e))
        BY <1>5 DEF Handled
    <2>2. h \in Conversation /\ h.state = c.state /\ h.flow = c.flow /\ h.house = e
        BY <1>0, ConversationType DEF Conversation
    <2> HIDE DEF h
    <2>3. o.conv \in Conversation /\ ChoosesHouse(c, o.conv, e)
        BY <1>0, <1>1, <2>1, <2>2, ChooserEffect DEF ChoosesHouse, InFlow
    <2> QED
        BY <1>1, <1>5, <2>1, <2>3 DEF Effect
<1>6. CASE k = "category"
    <2> DEFINE d == [c EXCEPT !.state = "description", !.category = e]
    <2>1. InFlow(c, e, "category") /\ o \in Plain({d})
        BY <1>6 DEF Handled
    <2>2. /\ d \in Conversation
          /\ d.state = "description" /\ d.flow = c.flow /\ d.house = c.house /\ d.category = e
        BY <1>0, ConversationType DEF Conversation
    <2> HIDE DEF d
    <2>3. o.conv \in Conversation /\ ChoosesCategory(c, o.conv, e)
        BY <1>1, <2>1, <2>2 DEF ChoosesCategory, InFlow
    <2> QED
        BY <1>1, <1>6, <2>1, <2>3 DEF Effect
<1>7. CASE k = "open"
    BY <1>2, <1>7 DEF Handled, Effect, Results
<1>8. CASE k = "progress"
    BY <1>2, <1>8 DEF Handled, Effect, Results
<1>9. CASE k = "ask"
    <2> DEFINE d == [Menu EXCEPT !.state = "report", !.report = e]
    <2>1. o \in Plain({d})
        BY <1>9 DEF Handled
    <2>2. d \in Conversation /\ d.state = "report" /\ d.report = e
        BY <1>0, <1>2, ConversationType DEF Menu
    <2> HIDE DEF d
    <2> QED
        BY <1>1, <1>9, <2>1, <2>2 DEF Effect
<1>10. CASE k = "text"
    <2>1. CASE c.state = "report"
        BY <1>2, <1>10, <2>1 DEF Handled, ReportText, Effect, Results
    <2>2. CASE c.state = "description"
        BY <1>2, <1>10, <2>2 DEF Handled, Effect, Results
    <2>3. CASE c.state \notin {"report", "description"}
        <3>1. o \in Plain({c})
            BY <1>10, <2>3 DEF Handled
        <3> QED
            BY <1>1, <1>10, <3>1 DEF Effect
    <2> QED
        BY <2>1, <2>2, <2>3
<1>11. CASE k = "other"
    <2>1. o \in Plain({c})
        BY <1>11 DEF Handled
    <2> QED
        BY <1>1, <1>11, <2>1 DEF Effect
<1> QED
    BY <1>0, <1>3, <1>4, <1>5, <1>6, <1>7, <1>8, <1>9, <1>10, <1>11 DEF AllKinds

\* An event is not obeyed and the dialog stays, or it has one of the effects in the
\* conversation found; the timestamp only grows.
LEMMA OutcomeEffect ==
    ASSUME DialogTypeOK, NEW e \in Happened, NEW u \in Users, u = input[e].user,
           NEW o \in Outcomes(u, e)
    PROVE  /\ o.on \in {conv[u], Menu} /\ o.on \in Conversation
           /\ o.conv \in Conversation /\ o.last \in 0..MaxTime /\ o.result \in Results
           /\ \/ o.result \in {"refused", "stale"} /\ o.conv = o.on
              \/ Effect(o.on, e, o.conv, o.result)
           /\ last[u] <= o.last
           /\ o.result # "stale" => o.last = input[e].at
<1>1. e \in Events /\ input[e].at \in 0..MaxTime /\ last[u] \in 0..MaxTime
    BY InputType DEF DialogTypeOK
<1>2. Found(u) \subseteq Conversation
    BY <1>1, ConversationType DEF Found, DialogTypeOK
<1>3. CASE Stale(u, e)
    BY <1>1, <1>2, <1>3 DEF Outcomes, Found, Results
<1>4. CASE ~Stale(u, e)
    <2>0. PICK c \in Found(u) :
              o \in {[on |-> c, conv |-> p.conv, last |-> input[e].at, result |-> p.result] :
                        p \in Handled(c, e) \cup {Refused(c)}}
        BY <1>4 DEF Outcomes
    <2>1. PICK p \in Handled(c, e) \cup {Refused(c)} :
              o = [on |-> c, conv |-> p.conv, last |-> input[e].at, result |-> p.result]
        BY <2>0
    <2>2. c \in Conversation /\ c \in {conv[u], Menu}
        BY <1>2, <2>0 DEF Found
    <2>3. /\ p.conv \in Conversation /\ p.result \in Results
          /\ \/ p.result \in {"refused", "stale"} /\ p.conv = c
             \/ Effect(c, e, p.conv, p.result)
        BY <2>1, <2>2, HandledEffect DEF Refused, Results
    <2>4. last[u] <= input[e].at
        BY <1>1, <1>4 DEF Stale
    <2> QED
        BY <2>1, <2>2, <2>3, <2>4, <1>1
<1> QED
    BY <1>3, <1>4

-----------------------------------------------------------------------------
(* What a step leaves of the past.                                         *)

\* Nothing that happened or was handled changes.
PastStays ==
    /\ \A e \in Happened : e \in Happened' /\ input'[e] = input[e]
    /\ \A u \in Users :
           /\ Len(log[u]) <= Len(log'[u])
           /\ \A i \in 1..Len(log[u]) : log'[u][i] = log[u][i]

\* Another event happens.
LEMMA HappenShape ==
    ASSUME DialogTypeOK, Happen
    PROVE  DialogTypeOK' /\ PastStays
<1> DEFINE now == IF input = <<>> THEN 1 ELSE input[Len(input)].at
<1>1. PICK u \in Users, k \in Kinds, t \in {now, now + 1} :
          /\ t <= MaxTime
          /\ \E f \in IF k \in {"house", "category"} THEN Shown(u) ELSE {None} :
                 input' = Append(input, [user |-> u, kind |-> k, flow |-> f, at |-> t])
    BY DEF Happen
<1>2. PICK f \in IF k \in {"house", "category"} THEN Shown(u) ELSE {None} :
          input' = Append(input, [user |-> u, kind |-> k, flow |-> f, at |-> t])
    BY <1>1
<1>3. input \in Seq(Input) /\ Len(input) \in Nat
    BY LenProperties DEF DialogTypeOK
<1>4. now \in 1..MaxTime \cup {1}
    <2>1. CASE input = <<>>
        BY <2>1
    <2>2. CASE input # <<>>
        <3>1. Len(input) \in 1..Len(input)
            BY <1>3, <2>2, EmptySeq
        <3>2. input[Len(input)].at \in 1..MaxTime
            BY <3>1, InputType DEF Happened
        <3> QED
            BY <2>2, <3>2
    <2> QED
        BY <2>1, <2>2
<1>5. t \in 1..MaxTime
    BY <1>1, <1>4, BoundsAssumption
<1>6. f \in Events \cup {None}
    <2>1. Shown(u) \subseteq Events
        BY LogType DEF Shown
    <2> QED
        BY <2>1
<1> DEFINE x == [user |-> u, kind |-> k, flow |-> f, at |-> t]
<1>7. x \in Input
    BY <1>5, <1>6 DEF Input
<1> HIDE DEF x
<1>8. /\ input' \in Seq(Input) /\ Len(input') = Len(input) + 1
      /\ \A i \in 1..Len(input) : input'[i] = input[i]
    BY <1>2, <1>3, <1>7, AppendProperties DEF x
<1>9. conv' = conv /\ last' = last /\ log' = log /\ Len(input) < MaxEvents
    BY DEF Happen
<1>10. DialogTypeOK'
    BY <1>3, <1>8, <1>9, BoundsAssumption DEF DialogTypeOK
<1>11. PastStays
    BY <1>3, <1>8, <1>9, LogType DEF PastStays, Happened
<1> QED
    BY <1>10, <1>11

\* Event e is handled with outcome o.
LEMMA TakeShape ==
    ASSUME DialogTypeOK, NEW e \in Happened, NEW u \in Users, u = input[e].user,
           NEW o \in Outcomes(u, e), Take(e, o)
    PROVE  /\ DialogTypeOK' /\ PastStays
           /\ \A v \in Users \ {u} : log'[v] = log[v] /\ conv'[v] = conv[v] /\ last'[v] = last[v]
           /\ conv'[u] = o.conv /\ last'[u] = o.last
           /\ Len(log'[u]) = Len(log[u]) + 1
           /\ log'[u][Len(log[u]) + 1] = [event |-> e, result |-> o.result, on |-> o.on]
<1> DEFINE x == [event |-> e, result |-> o.result, on |-> o.on]
<1>1. e \in Events /\ o.on \in Conversation /\ o.conv \in Conversation
      /\ o.last \in 0..MaxTime /\ o.result \in Results
    BY InputType, OutcomeEffect
<1>2. x \in Entry
    BY <1>1 DEF Entry
<1>3. log[u] \in Seq(Entry)
    BY DEF DialogTypeOK
<1>4. log' = [log EXCEPT ![u] = Append(log[u], x)]
    BY DEF Take
<1> HIDE DEF x
<1>5. /\ Append(log[u], x) \in Seq(Entry)
      /\ Len(Append(log[u], x)) = Len(log[u]) + 1
      /\ \A i \in 1..Len(log[u]) : Append(log[u], x)[i] = log[u][i]
      /\ Append(log[u], x)[Len(log[u]) + 1] = x
    BY <1>2, <1>3, AppendProperties
<1>6. input' = input /\ conv' = [conv EXCEPT ![u] = o.conv]
      /\ last' = [last EXCEPT ![u] = o.last]
    BY DEF Take
<1>7. DialogTypeOK'
    BY <1>1, <1>4, <1>5, <1>6 DEF DialogTypeOK
<1>8. /\ log'[u] = Append(log[u], x) /\ conv'[u] = o.conv /\ last'[u] = o.last
      /\ \A v \in Users \ {u} : log'[v] = log[v] /\ conv'[v] = conv[v] /\ last'[v] = last[v]
    BY <1>4, <1>6 DEF DialogTypeOK
<1>9. PastStays
    <2>1. \A v \in Users : Len(log[v]) \in Nat
        BY LogType
    <2>2. ASSUME NEW v \in Users
          PROVE  /\ Len(log[v]) <= Len(log'[v])
                 /\ \A i \in 1..Len(log[v]) : log'[v][i] = log[v][i]
        <3>1. CASE v = u
            BY <1>5, <1>8, <2>1, <3>1
        <3>2. CASE v # u
            BY <1>8, <2>1, <3>2
        <3> QED
            BY <3>1, <3>2
    <2> QED
        BY <1>6, <2>2 DEF PastStays, Happened
<1> QED
    BY <1>5, <1>7, <1>8, <1>9 DEF x

\* An entry says the same for ever.
LEMMA EntryStays ==
    ASSUME DialogTypeOK, LastHeld, PastStays, NEW u \in Users, NEW i \in 1..Len(log[u])
    PROVE  /\ log'[u][i] = log[u][i]
           /\ KindOf(u, i)' = KindOf(u, i) /\ Obeyed(u, i)' = Obeyed(u, i)
           /\ Stays(u, i)' = Stays(u, i)
           /\ input'[log[u][i].event] = input[log[u][i].event]
<1>1. log[u][i].event \in Happened
    BY LogType DEF LastHeld
<1>2. /\ log'[u][i] = log[u][i]
      /\ input'[log[u][i].event] = input[log[u][i].event]
    BY <1>1 DEF PastStays
<1>3. KindOf(u, i)' = KindOf(u, i) /\ Obeyed(u, i)' = Obeyed(u, i)
    BY <1>2 DEF KindOf, Obeyed
<1> QED
    BY <1>2, <1>3 DEF Stays

\* So what was begun and chosen before an entry remains so.
LEMMA PastOfEntry ==
    ASSUME DialogTypeOK, LastHeld, PastStays, NEW u \in Users, NEW i \in 1..(Len(log[u]) + 1),
           NEW j \in 1..(i - 1), NEW k, NEW e
    PROVE  /\ Began(u, j, i, k, e) => Began(u, j, i, k, e)'
           /\ Chosen(u, e, j, i) => Chosen(u, e, j, i)'
<1>0. Len(log[u]) \in Nat /\ j \in 1..Len(log[u])
    BY LogType
<1>1. \A m \in j..(i - 1) : m \in 1..Len(log[u])
    BY <1>0
<1>2. ASSUME Began(u, j, i, k, e) PROVE Began(u, j, i, k, e)'
    <2>1. \A m \in (j + 1)..(i - 1) : Stays(u, m)'
        <3> TAKE m \in (j + 1)..(i - 1)
        <3>1. m \in 1..Len(log[u]) /\ Stays(u, m)
            BY <1>0, <1>1, <1>2 DEF Began
        <3> QED
            BY <3>1, EntryStays
    <2> QED
        BY <1>0, <1>2, <2>1, EntryStays DEF Began
<1>3. ASSUME Chosen(u, e, j, i) PROVE Chosen(u, e, j, i)'
    <2>1. PICK m \in j..(i - 1) : log[u][m].event = e /\ Obeyed(u, m)
        BY <1>3 DEF Chosen
    <2>2. m \in 1..Len(log[u])
        BY <1>1, <2>1
    <2>3. log'[u][m].event = e /\ Obeyed(u, m)' /\ input'[e] = input[e]
        BY <2>1, <2>2, EntryStays
    <2>4. log'[u][j] = log[u][j]
        BY <1>0, EntryStays
    <2> QED
        BY <1>3, <2>1, <2>3, <2>4 DEF Chosen
<1> QED
    BY <1>2, <1>3

\* A dialog that was begun goes on over one entry that does not leave it, and the
\* choices made in it stand.
LEMMA GoesOn ==
    ASSUME DialogTypeOK, LastHeld, PastStays, NEW u \in Users, NEW n \in Nat,
           n = Len(log[u]) + 1, NEW j \in 1..(n - 1), NEW k, NEW e
    PROVE  /\ Began(u, j, n, k, e) /\ Stays(u, n)' => Began(u, j, n + 1, k, e)'
           /\ Chosen(u, e, j, n) => Chosen(u, e, j, n + 1)'
<1>0. n \in 1..(Len(log[u]) + 1)
    BY LogType
<1>1. ASSUME Began(u, j, n, k, e), Stays(u, n)' PROVE Began(u, j, n + 1, k, e)'
    <2>1. Began(u, j, n, k, e)'
        BY <1>0, <1>1, PastOfEntry
    <2>2. \A m \in (j + 1)..(n + 1 - 1) : m = n \/ m \in (j + 1)..(n - 1)
        OBVIOUS
    <2> QED
        BY <1>1, <2>1, <2>2 DEF Began
<1>2. ASSUME Chosen(u, e, j, n) PROVE Chosen(u, e, j, n + 1)'
    <2>1. Chosen(u, e, j, n)'
        BY <1>0, <1>2, PastOfEntry
    <2>2. \A m \in j..(n - 1) : m \in j..(n + 1 - 1)
        OBVIOUS
    <2> QED
        BY <2>1, <2>2 DEF Chosen
<1> QED
    BY <1>1, <1>2

-----------------------------------------------------------------------------
(* The steps.                                                              *)

\* Nothing is handled.
Quiet == conv' = conv /\ last' = last /\ log' = log

\* Event e of user u is handled with outcome o as entry n.
Entered(u, e, o, n) ==
    /\ e \in Happened /\ u = input[e].user /\ o \in Outcomes(u, e)
    /\ n = Len(log[u]) + 1 /\ Len(log'[u]) = n
    /\ log'[u][n] = [event |-> e, result |-> o.result, on |-> o.on]
    /\ conv'[u] = o.conv /\ last'[u] = o.last
    /\ \A v \in Users \ {u} : log'[v] = log[v] /\ conv'[v] = conv[v] /\ last'[v] = last[v]

\* Every step keeps the past, and handles one event or none.
LEMMA StepShape ==
    ASSUME DialogTypeOK, [DialogNext]_dialog
    PROVE  /\ DialogTypeOK' /\ PastStays
           /\ Quiet \/ \E u \in Users, e \in Happened, n \in Nat \ {0} :
                           \E o \in Outcomes(u, e) : Entered(u, e, o, n)
<1>1. CASE UNCHANGED dialog
    <2>1. \A u \in Users : Len(log[u]) \in Nat
        BY LogType
    <2> QED
        BY <1>1, <2>1 DEF dialog, DialogTypeOK, PastStays, Happened, Quiet
<1>2. CASE Happen
    BY <1>2, HappenShape DEF Happen, Quiet
<1>3. ASSUME NEW e \in Happened, Handle(e)
      PROVE  /\ DialogTypeOK' /\ PastStays
             /\ \E u \in Users, n \in Nat \ {0} : \E o \in Outcomes(u, e) : Entered(u, e, o, n)
    <2>1. PICK u \in Users : u = input[e].user
        BY InputType
    <2>2. PICK o \in Outcomes(u, e) : Take(e, o)
        BY <1>3, <2>1 DEF Handle
    <2>3. PICK n \in Nat \ {0} : n = Len(log[u]) + 1
        BY LogType
    <2>4. DialogTypeOK' /\ PastStays /\ Entered(u, e, o, n)
        BY <2>1, <2>2, <2>3, TakeShape DEF Entered
    <2> QED
        BY <2>4
<1> QED
    BY <1>1, <1>2, <1>3 DEF DialogNext

\* The timestamp of the dialog keeps up with what is obeyed.
LEMMA LastStep == DialogTypeOK /\ LastHeld /\ [DialogNext]_dialog => LastHeld'
<1> SUFFICES ASSUME DialogTypeOK, LastHeld, [DialogNext]_dialog,
                    NEW v \in Users, NEW i \in DOMAIN log'[v]
             PROVE  /\ log'[v][i].event \in Happened'
                    /\ log'[v][i].result # "stale" => input'[log'[v][i].event].at <= last'[v]
    BY DEF LastHeld
<1>0. DialogTypeOK' /\ PastStays /\ DOMAIN log'[v] = 1..Len(log'[v]) /\ DOMAIN log[v] = 1..Len(log[v])
      /\ Len(log[v]) \in Nat
    BY StepShape, LogType, LenProperties DEF DialogTypeOK
<1>1. ASSUME i \in 1..Len(log[v]), last[v] <= last'[v]
      PROVE  /\ log'[v][i].event \in Happened'
             /\ log'[v][i].result # "stale" => input'[log'[v][i].event].at <= last'[v]
    <2>1. log'[v][i] = log[v][i] /\ log[v][i].event \in Happened
          /\ input'[log[v][i].event] = input[log[v][i].event]
        BY <1>0, <1>1 DEF LastHeld, PastStays
    <2>2. log[v][i].event \in Happened'
        BY <1>0, <2>1 DEF PastStays
    <2>3. last[v] \in Nat /\ last'[v] \in Nat /\ input[log[v][i].event].at \in Nat
        BY <1>0, <2>1, InputType, BoundsAssumption DEF DialogTypeOK
    <2> QED
        BY <1>0, <1>1, <2>1, <2>2, <2>3 DEF LastHeld
<1>2. CASE Quiet
    <2>1. last[v] <= last'[v]
        BY <1>2, BoundsAssumption DEF Quiet, DialogTypeOK
    <2> QED
        BY <1>0, <1>1, <1>2, <2>1 DEF Quiet
<1>3. ASSUME NEW u \in Users, NEW e \in Happened, NEW n \in Nat \ {0},
             NEW o \in Outcomes(u, e), Entered(u, e, o, n)
      PROVE  /\ log'[v][i].event \in Happened'
             /\ log'[v][i].result # "stale" => input'[log'[v][i].event].at <= last'[v]
    <2>1. /\ last[u] <= last'[u]
          /\ o.result # "stale" => last'[u] = input[e].at
        BY <1>3, OutcomeEffect DEF Entered
    <2>2. CASE v # u
        <3>1. last[v] <= last'[v] /\ log'[v] = log[v]
            BY <1>3, <2>2, BoundsAssumption DEF Entered, DialogTypeOK
        <3> QED
            BY <1>0, <1>1, <3>1
    <2>3. CASE v = u /\ i # n
        <3>1. i \in 1..Len(log[v])
            BY <1>0, <1>3, <2>3 DEF Entered
        <3> QED
            BY <1>1, <2>1, <2>3, <3>1
    <2>4. CASE v = u /\ i = n
        <3>1. log'[v][i].event = e /\ log'[v][i].result = o.result
            BY <1>3, <2>4 DEF Entered
        <3>2. e \in Happened' /\ input'[e] = input[e] /\ input[e].at \in Nat
            BY <1>0, InputType DEF PastStays
        <3> QED
            BY <2>1, <2>4, <3>1, <3>2
    <2> QED
        BY <2>2, <2>3, <2>4
<1> QED
    BY <1>2, <1>3, StepShape

\* What is obeyed next is not older than what was obeyed before.
LEMMA OrderStep ==
    DialogTypeOK /\ LastHeld /\ ObeyedInOrder /\ [DialogNext]_dialog => ObeyedInOrder'
<1> SUFFICES ASSUME DialogTypeOK, LastHeld, ObeyedInOrder, [DialogNext]_dialog,
                    NEW v \in Users, NEW i \in DOMAIN log'[v], NEW j \in DOMAIN log'[v],
                    i < j, log'[v][i].result # "stale", log'[v][j].result # "stale"
             PROVE  input'[log'[v][i].event].at <= input'[log'[v][j].event].at
    BY DEF ObeyedInOrder
<1>0. /\ DialogTypeOK' /\ PastStays
      /\ DOMAIN log'[v] = 1..Len(log'[v]) /\ DOMAIN log[v] = 1..Len(log[v])
      /\ Len(log[v]) \in Nat /\ Len(log'[v]) \in Nat
    BY StepShape, LogType, LenProperties DEF DialogTypeOK
<1>1. \A m \in 1..Len(log[v]) :
          /\ log'[v][m] = log[v][m] /\ log[v][m].event \in Happened
          /\ input'[log[v][m].event] = input[log[v][m].event]
    BY <1>0 DEF LastHeld, PastStays
<1>2. CASE i \in 1..Len(log[v]) /\ j \in 1..Len(log[v])
    BY <1>0, <1>1, <1>2 DEF ObeyedInOrder
<1>3. CASE ~(i \in 1..Len(log[v]) /\ j \in 1..Len(log[v]))
    <2>1. ~Quiet
        BY <1>0, <1>3 DEF Quiet
    <2>2. PICK u \in Users, e \in Happened, n \in Nat \ {0} :
              \E o \in Outcomes(u, e) : Entered(u, e, o, n)
        BY <2>1, StepShape
    <2>3. PICK o \in Outcomes(u, e) : Entered(u, e, o, n)
        BY <2>2
    <2>4. v = u
        BY <1>0, <1>3, <2>3 DEF Entered
    <2>5. j = n /\ i \in 1..Len(log[v])
        BY <1>0, <1>3, <2>3, <2>4 DEF Entered
    <2>6. log'[v][j].event = e /\ log'[v][j].result = o.result
        BY <2>3, <2>4, <2>5 DEF Entered
    <2>7. last[v] <= input[e].at /\ input'[e] = input[e]
        BY <1>0, <2>3, <2>4, <2>6, OutcomeEffect DEF Entered, PastStays
    <2>8. input[log[v][i].event].at <= last[v]
        BY <1>0, <1>1, <2>5 DEF LastHeld
    <2>9. /\ last[v] \in Nat /\ input[e].at \in Nat
          /\ input[log[v][i].event].at \in Nat
        BY <1>1, <2>5, InputType, BoundsAssumption DEF DialogTypeOK
    <2> QED
        BY <1>1, <2>5, <2>6, <2>7, <2>8, <2>9
<1> QED
    BY <1>2, <1>3

\* A conversation nobody touches remains of its flow or question.
LEMMA WithinStays ==
    ASSUME DialogTypeOK, LastHeld, PastStays, NEW u \in Users, NEW c, NEW n \in Nat,
           n = Len(log[u]) + 1, Within(u, c, n)
    PROVE  Within(u, c, n)'
<1>0. n \in 1..(Len(log[u]) + 1)
    BY LogType
<1>1. ASSUME c.state \in {"house", "category", "description"}
      PROVE  \E j \in 1..(n - 1) :
                 /\ Began(u, j, n, "new", c.flow)'
                 /\ c.state # "house" => Chosen(u, c.house, j, n)'
                 /\ c.state = "description" => Chosen(u, c.category, j, n)'
    <2>1. PICK j \in 1..(n - 1) :
              /\ Began(u, j, n, "new", c.flow)
              /\ c.state # "house" => Chosen(u, c.house, j, n)
              /\ c.state = "description" => Chosen(u, c.category, j, n)
        BY <1>1 DEF Within
    <2> QED
        BY <1>0, <2>1, PastOfEntry
<1>2. ASSUME c.state = "report"
      PROVE  \E j \in 1..(n - 1) : Began(u, j, n, "ask", c.report)'
    <2>1. PICK j \in 1..(n - 1) : Began(u, j, n, "ask", c.report)
        BY <1>2 DEF Within
    <2> QED
        BY <1>0, <2>1, PastOfEntry
<1> QED
    BY <1>1, <1>2 DEF Within

\* A conversation that is found and not left remains so over the entry.
LEMMA WithinOver ==
    ASSUME DialogTypeOK, LastHeld, PastStays, NEW u \in Users, NEW c, NEW n \in Nat,
           n = Len(log[u]) + 1, Within(u, c, n), Stays(u, n)'
    PROVE  Within(u, c, n + 1)'
<1>1. ASSUME c.state \in {"house", "category", "description"}
      PROVE  \E j \in 1..(n + 1 - 1) :
                 /\ Began(u, j, n + 1, "new", c.flow)'
                 /\ c.state # "house" => Chosen(u, c.house, j, n + 1)'
                 /\ c.state = "description" => Chosen(u, c.category, j, n + 1)'
    <2>1. PICK j \in 1..(n - 1) :
              /\ Began(u, j, n, "new", c.flow)
              /\ c.state # "house" => Chosen(u, c.house, j, n)
              /\ c.state = "description" => Chosen(u, c.category, j, n)
        BY <1>1 DEF Within
    <2>2. j \in 1..(n + 1 - 1)
        OBVIOUS
    <2> QED
        BY <2>1, <2>2, GoesOn
<1>2. ASSUME c.state = "report"
      PROVE  \E j \in 1..(n + 1 - 1) : Began(u, j, n + 1, "ask", c.report)'
    <2>1. PICK j \in 1..(n - 1) : Began(u, j, n, "ask", c.report)
        BY <1>2 DEF Within
    <2>2. j \in 1..(n + 1 - 1)
        OBVIOUS
    <2> QED
        BY <2>1, <2>2, GoesOn
<1> QED
    BY <1>1, <1>2 DEF Within

\* The menu is of no flow.
LEMMA MenuWithin == \A u, n : Within(u, Menu, n)
    BY DEF Within, Menu

\* What an entry makes of a dialog within its flow is within its flow.
LEMMA EnteredWithin ==
    ASSUME DialogTypeOK, LastHeld, PastStays, DialogHeld,
           NEW u \in Users, NEW e \in Happened, NEW n \in Nat \ {0},
           NEW o \in Outcomes(u, e), Entered(u, e, o, n)
    PROVE  Within(u, o.conv, n + 1)'
<1> DEFINE k == input[e].kind
           c == o.on
           d == o.conv
           r == o.result
<1>1. /\ c \in {conv[u], Menu}
      /\ \/ r \in {"refused", "stale"} /\ d = c
         \/ Effect(c, e, d, r)
    BY OutcomeEffect DEF Entered
<1>2. Within(u, c, n)
    BY <1>1, MenuWithin DEF DialogHeld, Entered
<1>3. /\ log'[u][n].event = e /\ log'[u][n].result = r
      /\ input'[e] = input[e] /\ n = Len(log[u]) + 1
    BY DEF Entered, PastStays
<1>4. KindOf(u, n)' = k /\ (Obeyed(u, n)' <=> r \notin {"refused", "stale"})
    BY <1>3 DEF KindOf, Obeyed
<1>5. Stays(u, n)' <=> (r \notin {"refused", "stale"}
                          => k \in {"house", "category", "text", "other"} /\ r = "nothing")
    BY <1>3, <1>4 DEF Stays
<1>6. \A m \in (n + 1)..(n + 1 - 1) : FALSE
    OBVIOUS
<1>7. ASSUME Stays(u, n)', d = c PROVE Within(u, d, n + 1)'
    BY <1>2, <1>3, <1>7, WithinOver
<1>8. CASE r \in {"refused", "stale"} /\ d = c
    BY <1>5, <1>7, <1>8
<1>9. CASE d = Menu
    BY <1>9 DEF Within, Menu
<1>10. CASE r = "nothing" /\ k \in {"text", "other"} /\ d = c
    BY <1>5, <1>7, <1>10
<1>11. CASE r = "nothing" /\ k = "new" /\ BeginsFlow(d, e)
    <2>1. Began(u, n, n + 1, "new", e)'
        BY <1>3, <1>4, <1>6, <1>11 DEF Began
    <2>2. Chosen(u, e, n, n + 1)'
        BY <1>3, <1>4, <1>11 DEF Chosen
    <2>3. n \in 1..(n + 1 - 1)
        OBVIOUS
    <2> QED
        BY <1>11, <2>1, <2>2, <2>3 DEF BeginsFlow, Within
<1>12. CASE r = "nothing" /\ k = "house" /\ ChoosesHouse(c, d, e)
    <2>1. PICK j \in 1..(n - 1) : Began(u, j, n, "new", c.flow)
        BY <1>2, <1>12 DEF Within, ChoosesHouse
    <2>2. Began(u, j, n + 1, "new", c.flow)'
        BY <1>3, <1>5, <1>12, <2>1, GoesOn
    <2>3. Chosen(u, e, j, n + 1)'
        <3>1. log'[u][j].event = input'[e].flow
            BY <1>3, <1>12, <2>2 DEF ChoosesHouse, Began
        <3>2. n \in j..(n + 1 - 1)
            OBVIOUS
        <3> QED
            BY <1>3, <1>4, <1>12, <3>1, <3>2 DEF Chosen
    <2>4. j \in 1..(n + 1 - 1)
        OBVIOUS
    <2> QED
        BY <1>12, <2>2, <2>3, <2>4 DEF ChoosesHouse, Within
<1>13. CASE r = "nothing" /\ k = "category" /\ ChoosesCategory(c, d, e)
    <2>1. PICK j \in 1..(n - 1) : Began(u, j, n, "new", c.flow) /\ Chosen(u, c.house, j, n)
        BY <1>2, <1>13 DEF Within, ChoosesCategory
    <2>2. Began(u, j, n + 1, "new", c.flow)' /\ Chosen(u, c.house, j, n + 1)'
        BY <1>3, <1>5, <1>13, <2>1, GoesOn
    <2>3. Chosen(u, e, j, n + 1)'
        <3>1. log'[u][j].event = input'[e].flow
            BY <1>3, <1>13, <2>2 DEF ChoosesCategory, Began
        <3>2. n \in j..(n + 1 - 1)
            OBVIOUS
        <3> QED
            BY <1>3, <1>4, <1>13, <3>1, <3>2 DEF Chosen
    <2>4. j \in 1..(n + 1 - 1)
        OBVIOUS
    <2> QED
        BY <1>13, <2>2, <2>3, <2>4 DEF ChoosesCategory, Within
<1>14. CASE r = "nothing" /\ k = "ask" /\ d.state = "report" /\ d.report = e
    <2>1. Began(u, n, n + 1, "ask", e)'
        BY <1>3, <1>4, <1>6, <1>14 DEF Began
    <2>2. n \in 1..(n + 1 - 1)
        OBVIOUS
    <2> QED
        BY <1>14, <2>1, <2>2 DEF Within
<1> QED
    BY <1>1, <1>8, <1>9, <1>10, <1>11, <1>12, <1>13, <1>14 DEF Effect

\* Every conversation remains of its flow or question.
LEMMA DialogStep == DialogTypeOK /\ LastHeld /\ DialogHeld /\ [DialogNext]_dialog => DialogHeld'
<1> SUFFICES ASSUME DialogTypeOK, LastHeld, DialogHeld, [DialogNext]_dialog, NEW v \in Users
             PROVE  Within(v, conv[v], Len(log[v]) + 1)'
    BY DEF DialogHeld
<1>0. DialogTypeOK' /\ PastStays
    BY StepShape
<1>1. ASSUME log'[v] = log[v], conv'[v] = conv[v]
      PROVE  Within(v, conv[v], Len(log[v]) + 1)'
    <2>1. PICK n \in Nat : n = Len(log[v]) + 1
        BY LogType
    <2>2. PICK c : c = conv[v]
        OBVIOUS
    <2>3. Within(v, c, n)'
        BY <1>0, <2>1, <2>2, WithinStays DEF DialogHeld
    <2>4. conv'[v] = c /\ Len(log'[v]) + 1 = n
        BY <1>1, <2>1, <2>2
    <2> QED
        BY <2>3, <2>4
<1>2. CASE Quiet
    BY <1>1, <1>2 DEF Quiet
<1>3. ASSUME NEW u \in Users, NEW e \in Happened, NEW n \in Nat \ {0},
             NEW o \in Outcomes(u, e), Entered(u, e, o, n)
      PROVE  Within(v, conv[v], Len(log[v]) + 1)'
    <2>1. CASE v # u
        BY <1>1, <1>3, <2>1 DEF Entered
    <2>2. CASE v = u
        <3>1. PICK c : c = o.conv
            OBVIOUS
        <3>2. Within(u, c, n + 1)'
            BY <1>0, <1>3, <3>1, EnteredWithin
        <3>3. conv'[u] = c /\ Len(log'[u]) + 1 = n + 1
            BY <1>3, <3>1 DEF Entered
        <3> QED
            BY <2>2, <3>2, <3>3
    <2> QED
        BY <2>1, <2>2
<1> QED
    BY <1>2, <1>3, StepShape

\* An entry that creates or explains does so in a conversation of one flow, or of
\* the question asked; entries made before say what they said.
LEMMA EntriesStep ==
    ASSUME DialogTypeOK, LastHeld, DialogHeld, CreatedFromOneFlow, AnswersTheQuestion, [DialogNext]_dialog
    PROVE  CreatedFromOneFlow' /\ AnswersTheQuestion'
<1> DEFINE Right(v, i) ==
        \E c : /\ c = log'[v][i].on
               /\ log'[v][i].result = "create" =>
                      \E j \in 1..(i - 1) :
                          /\ Began(v, j, i, "new", c.flow)'
                          /\ Chosen(v, c.house, j, i)' /\ Chosen(v, c.category, j, i)'
               /\ log'[v][i].result = "report" /\ KindOf(v, i)' = "text" =>
                      \E j \in 1..(i - 1) : Began(v, j, i, "ask", c.report)'
<1>0. DialogTypeOK' /\ PastStays
    BY StepShape
<1>1. ASSUME NEW v \in Users, NEW i \in 1..Len(log[v])
      PROVE  Right(v, i)
    <2>0. i \in DOMAIN log[v] /\ i \in 1..(Len(log[v]) + 1)
        BY LogType
    <2>1. PICK d : d = log[v][i].on
        OBVIOUS
    <2>2. log'[v][i] = log[v][i] /\ KindOf(v, i)' = KindOf(v, i)
        BY <1>0, EntryStays
    <2>3. ASSUME log[v][i].result = "create"
          PROVE  \E j \in 1..(i - 1) :
                     /\ Began(v, j, i, "new", d.flow)'
                     /\ Chosen(v, d.house, j, i)' /\ Chosen(v, d.category, j, i)'
        <3>1. PICK j \in 1..(i - 1) :
                  /\ Began(v, j, i, "new", d.flow)
                  /\ Chosen(v, d.house, j, i) /\ Chosen(v, d.category, j, i)
            BY <2>0, <2>1, <2>3 DEF CreatedFromOneFlow
        <3> QED
            BY <1>0, <2>0, <3>1, PastOfEntry
    <2>4. ASSUME log[v][i].result = "report", KindOf(v, i) = "text"
          PROVE  \E j \in 1..(i - 1) : Began(v, j, i, "ask", d.report)'
        <3>1. PICK j \in 1..(i - 1) : Began(v, j, i, "ask", d.report)
            BY <2>0, <2>1, <2>4 DEF AnswersTheQuestion
        <3> QED
            BY <1>0, <2>0, <3>1, PastOfEntry
    <2> QED
        BY <2>1, <2>2, <2>3, <2>4
<1>2. ASSUME NEW u \in Users, NEW e \in Happened, NEW n \in Nat \ {0},
             NEW o \in Outcomes(u, e), Entered(u, e, o, n)
      PROVE  Right(u, n)
    <2>0. n \in 1..(Len(log[u]) + 1) /\ n = Len(log[u]) + 1
        BY LogType, <1>2 DEF Entered
    <2>1. PICK c : c = o.on
        OBVIOUS
    <2>2. /\ c \in {conv[u], Menu}
          /\ \/ o.result \in {"refused", "stale"} /\ o.conv = c
             \/ Effect(c, e, o.conv, o.result)
        BY <1>2, <2>1, OutcomeEffect DEF Entered
    <2>3. Within(u, c, n)'
        <3>1. Within(u, c, n)
            BY <1>2, <2>2, MenuWithin DEF DialogHeld, Entered
        <3> QED
            BY <1>0, <2>0, <3>1, WithinStays
    <2>4. /\ log'[u][n].result = o.result /\ log'[u][n].on = c
          /\ log'[u][n].event = e /\ input'[e] = input[e]
        BY <1>0, <1>2, <2>1 DEF Entered, PastStays
    <2>5. KindOf(u, n)' = input[e].kind
        BY <2>4 DEF KindOf
    <2>6. o.result = "create" => c.state = "description"
        BY <2>2 DEF Effect
    <2>7. o.result = "report" /\ input[e].kind = "text" => c.state = "report"
        BY <2>2 DEF Effect
    <2>8. ASSUME c.state = "description"
          PROVE  \E j \in 1..(n - 1) :
                     /\ Began(u, j, n, "new", c.flow)'
                     /\ Chosen(u, c.house, j, n)' /\ Chosen(u, c.category, j, n)'
        BY <2>3, <2>8 DEF Within
    <2>9. ASSUME c.state = "report"
          PROVE  \E j \in 1..(n - 1) : Began(u, j, n, "ask", c.report)'
        BY <2>3, <2>9 DEF Within
    <2> QED
        BY <2>4, <2>5, <2>6, <2>7, <2>8, <2>9
<1>3. ASSUME NEW v \in Users, NEW i \in DOMAIN log'[v] PROVE Right(v, i)
    <2>0. DOMAIN log'[v] = 1..Len(log'[v]) /\ Len(log[v]) \in Nat /\ Len(log'[v]) \in Nat
        BY <1>0, LogType, LenProperties DEF DialogTypeOK
    <2>1. CASE Quiet
        BY <1>1, <2>0, <2>1 DEF Quiet
    <2>2. ASSUME NEW u \in Users, NEW e \in Happened, NEW n \in Nat \ {0},
                 NEW o \in Outcomes(u, e), Entered(u, e, o, n)
          PROVE  Right(v, i)
        <3>1. i \in 1..Len(log[v]) \/ (v = u /\ i = n)
            BY <2>0, <2>2 DEF Entered
        <3> HIDE DEF Right
        <3> QED
            BY <1>1, <1>2, <2>2, <3>1
    <2> QED
        BY <2>1, <2>2, StepShape
<1>4. CreatedFromOneFlow'
    <2> SUFFICES ASSUME NEW v \in Users, NEW i \in DOMAIN log'[v], log'[v][i].result = "create"
                 PROVE  \E j \in 1..(i - 1) :
                            /\ Began(v, j, i, "new", log[v][i].on.flow)'
                            /\ Chosen(v, log[v][i].on.house, j, i)'
                            /\ Chosen(v, log[v][i].on.category, j, i)'
        BY DEF CreatedFromOneFlow
    <2> QED
        BY <1>3
<1>5. AnswersTheQuestion'
    <2> SUFFICES ASSUME NEW v \in Users, NEW i \in DOMAIN log'[v],
                        log'[v][i].result = "report", KindOf(v, i)' = "text"
                 PROVE  \E j \in 1..(i - 1) : Began(v, j, i, "ask", log[v][i].on.report)'
        BY DEF AnswersTheQuestion
    <2> QED
        BY <1>3
<1> QED
    BY <1>4, <1>5

-----------------------------------------------------------------------------
(* The inductive invariant and what follows from it.                       *)

\* Everything together is inductive.
DialogInv ==
    DialogTypeOK /\ LastHeld /\ DialogHeld /\ CreatedFromOneFlow /\ AnswersTheQuestion
      /\ ObeyedInOrder

\* It holds before the first event.
LEMMA DialogStart == DialogInit => DialogInv
<1> SUFFICES ASSUME DialogInit PROVE DialogInv
    OBVIOUS
<1>0. DOMAIN <<>> = {}
    OBVIOUS
<1>1. \A u \in Users : log[u] = <<>> /\ conv[u] = Menu /\ DOMAIN log[u] = {}
    <2> TAKE u \in Users
    <2>1. log[u] = <<>> /\ conv[u] = Menu
        BY DEF DialogInit
    <2> QED
        BY <1>0, <2>1
<1>2. Menu \in Conversation
    BY DEF Menu, Conversation, Choice
<1>3. DialogTypeOK
    BY <1>2, EmptySeq, BoundsAssumption DEF DialogInit, DialogTypeOK
<1>4. DialogHeld
    BY <1>1, MenuWithin DEF DialogHeld
<1>5. LastHeld /\ CreatedFromOneFlow /\ AnswersTheQuestion /\ ObeyedInOrder
    BY <1>1 DEF LastHeld, CreatedFromOneFlow, AnswersTheQuestion, ObeyedInOrder
<1> QED
    BY <1>3, <1>4, <1>5 DEF DialogInv

\* Every step keeps it.
LEMMA DialogInvStep == DialogInv /\ [DialogNext]_dialog => DialogInv'
<1> SUFFICES ASSUME DialogInv, [DialogNext]_dialog PROVE DialogInv'
    OBVIOUS
<1>1. DialogTypeOK /\ LastHeld /\ DialogHeld /\ CreatedFromOneFlow /\ AnswersTheQuestion
      /\ ObeyedInOrder
    BY DEF DialogInv
<1> QED
    BY <1>1, StepShape, LastStep, DialogStep, EntriesStep, OrderStep DEF DialogInv

\* It always holds.
THEOREM DialogInvariant == DialogSpec => []DialogInv
    BY DialogStart, DialogInvStep, PTL DEF DialogSpec

\* Conversations, timestamps and logs keep their types.
THEOREM DialogTypeCorrect == DialogSpec => []DialogTypeOK
<1>1. DialogInv => DialogTypeOK
    BY DEF DialogInv
<1> QED
    BY DialogInvariant, <1>1, PTL

\* A request is created from one flow, whatever buttons of other flows are
\* pressed in between (dialogs.py:397-429, :559-579).
THEOREM RequestsOfOneFlow == DialogSpec => []CreatedFromOneFlow
<1>1. DialogInv => CreatedFromOneFlow
    BY DEF DialogInv
<1> QED
    BY DialogInvariant, <1>1, PTL

\* A text explains the report that was asked about last (dialogs.py:517-558).
THEOREM AnswersLastQuestion == DialogSpec => []AnswersTheQuestion
<1>1. DialogInv => AnswersTheQuestion
    BY DEF DialogInv
<1> QED
    BY DialogInvariant, <1>1, PTL

\* Events are obeyed in the order in which they happened (routes.py:88-93).
THEOREM InOrder == DialogSpec => []ObeyedInOrder
<1>1. DialogInv => ObeyedInOrder
    BY DEF DialogInv
<1> QED
    BY DialogInvariant, <1>1, PTL

-----------------------------------------------------------------------------

\* The outcomes of an event that happened.
LEMMA OutcomeType ==
    ASSUME DialogTypeOK, NEW e \in Happened,
           NEW o \in Outcomes(input[e].user, e)
    PROVE  o \in Outcome
<1> DEFINE u == input[e].user
<1>1. e \in Events /\ u \in Users /\ input[e].at \in 0..MaxTime /\ last[u] \in 0..MaxTime
    BY InputType DEF DialogTypeOK
<1>2. Found(u) \subseteq Conversation
    BY <1>1, ConversationType DEF Found, DialogTypeOK
<1>3. CASE Stale(u, e)
    BY <1>1, <1>2, <1>3 DEF Outcomes, Outcome, Results
<1>4. CASE ~Stale(u, e)
    <2>0. PICK c \in Found(u) :
              o \in {[on |-> c, conv |-> p.conv, last |-> input[e].at, result |-> p.result] :
                        p \in Handled(c, e) \cup {Refused(c)}}
        BY <1>4 DEF Outcomes
    <2>1. PICK p \in Handled(c, e) \cup {Refused(c)} :
              o = [on |-> c, conv |-> p.conv, last |-> input[e].at, result |-> p.result]
        BY <2>0
    <2>2. p.conv \in Conversation /\ p.result \in Results
        BY <2>1, <1>1, <1>2, HandledEffect DEF Refused, Results
    <2> QED
        BY <2>1, <2>2, <1>1, <1>2 DEF Outcome
<1> QED
    BY <1>3, <1>4

\* The local states the handlers' steps build.
LEMMA RequestType ==
    /\ NoOutcome \in Outcome
    /\ \A p \in Phases, e \in Events \cup {0}, o \in Outcome, n \in Nat :
           /\ Request(p, e, o, n) \in HandlerStates
           /\ Request(p, e, o, n).pc = p /\ Request(p, e, o, n).event = e
           /\ Request(p, e, o, n).outcome = o /\ Request(p, e, o, n).ticket = n
    /\ \A r \in HandlerStates, p \in Phases :
           /\ [r EXCEPT !.pc = p] \in HandlerStates
           /\ [r EXCEPT !.pc = p].pc = p /\ [r EXCEPT !.pc = p].event = r.event
           /\ [r EXCEPT !.pc = p].outcome = r.outcome /\ [r EXCEPT !.pc = p].ticket = r.ticket
<1>1. NoOutcome \in Outcome
    <2>1. Menu \in Conversation
        BY DEF Conversation, Menu, Choice, None
    <2>2. 0 \in 0..MaxTime
        BY BoundsAssumption
    <2> QED
        BY <2>1, <2>2 DEF NoOutcome, Outcome, Results
<1>2. ASSUME NEW p \in Phases, NEW e \in Events \cup {0}, NEW o \in Outcome, NEW n \in Nat
      PROVE  /\ Request(p, e, o, n) \in HandlerStates
             /\ Request(p, e, o, n).pc = p /\ Request(p, e, o, n).event = e
             /\ Request(p, e, o, n).outcome = o /\ Request(p, e, o, n).ticket = n
    BY DEF Request, HandlerStates
<1>3. ASSUME NEW r \in HandlerStates, NEW p \in Phases
      PROVE  /\ [r EXCEPT !.pc = p] \in HandlerStates
             /\ [r EXCEPT !.pc = p].pc = p /\ [r EXCEPT !.pc = p].event = r.event
             /\ [r EXCEPT !.pc = p].outcome = r.outcome
             /\ [r EXCEPT !.pc = p].ticket = r.ticket
    BY DEF HandlerStates
<1> QED
    BY <1>1, <1>2, <1>3

\* No request is served.
LEMMA IdleType == Idle \in HandlerStates /\ Idle.pc = "idle"
    BY RequestType DEF Idle, Phases

\* What making an outcome visible does to the dialog's variables.
LEMMA OutcomeShape ==
    ASSUME DialogTypeOK, NEW e \in Happened, NEW o \in Outcome, Take(e, o),
           NEW u \in Users, u = input[e].user
    PROVE  /\ DialogTypeOK'
           /\ input' = input
           /\ \A v \in Users \ {u} : log'[v] = log[v]
           /\ Len(log[u]) \in Nat
           /\ DOMAIN log[u] = 1..Len(log[u]) /\ DOMAIN log'[u] = 1..(Len(log[u]) + 1)
           /\ \A i \in 1..Len(log[u]) : log'[u][i] = log[u][i]
           /\ log'[u][Len(log[u]) + 1] = [event |-> e, result |-> o.result, on |-> o.on]
<1> DEFINE x == [event |-> e, result |-> o.result, on |-> o.on]
<1>1. e \in Events
    BY InputType
<1>2. x \in Entry
    BY <1>1 DEF Outcome, Entry, Events
<1>3. log[u] \in Seq(Entry)
    BY DEF DialogTypeOK
<1>4. log' = [log EXCEPT ![u] = Append(log[u], x)]
    BY DEF Take
<1> HIDE DEF x
<1>5. Append(log[u], x) \in Seq(Entry)
    BY <1>2, <1>3
<1>6. /\ log' \in [Users -> Seq(Entry)]
      /\ log'[u] = Append(log[u], x)
      /\ \A v \in Users \ {u} : log'[v] = log[v]
    BY <1>4, <1>5 DEF DialogTypeOK
<1>7. input' = input
    BY DEF Take
<1>8. DialogTypeOK'
    <2>1. conv' = [conv EXCEPT ![u] = o.conv] /\ last' = [last EXCEPT ![u] = o.last]
        BY DEF Take
    <2>2. o.conv \in Conversation /\ o.last \in 0..MaxTime
        BY DEF Outcome
    <2> QED
        BY <1>6, <1>7, <2>1, <2>2 DEF DialogTypeOK
<1>9. /\ Len(log[u]) \in Nat
      /\ DOMAIN log[u] = 1..Len(log[u]) /\ DOMAIN log'[u] = 1..(Len(log[u]) + 1)
      /\ \A i \in 1..Len(log[u]) : log'[u][i] = log[u][i]
      /\ log'[u][Len(log[u]) + 1] = x
    BY <1>2, <1>3, <1>6, AppendProperties
<1> QED
    BY <1>6, <1>7, <1>8, <1>9 DEF x

\* The events a user had handled gain the one whose outcome becomes visible.
LEMMA TakeDone ==
    ASSUME DialogTypeOK, NEW e \in Happened, NEW o \in Outcome, Take(e, o),
           NEW u \in Users, u = input[e].user
    PROVE  /\ Done(u)' = Done(u) \cup {e}
           /\ \A v \in Users \ {u} : Done(v)' = Done(v)
           /\ Happened' = Happened
<1> DEFINE n == Len(log[u])
<1>1. /\ n \in Nat /\ DOMAIN log[u] = 1..n /\ DOMAIN log'[u] = 1..(n + 1)
      /\ \A i \in 1..n : log'[u][i] = log[u][i]
      /\ log'[u][n + 1] = [event |-> e, result |-> o.result, on |-> o.on]
      /\ \A v \in Users \ {u} : log'[v] = log[v]
      /\ input' = input
    BY OutcomeShape
<1>2. log'[u][n + 1].event = e
    BY <1>1
<1>3. Done(u)' = {log'[u][i].event : i \in 1..(n + 1)}
    BY <1>1 DEF Done
<1>4. 1..(n + 1) = 1..n \cup {n + 1}
    BY <1>1
<1>5. Done(u) = {log[u][i].event : i \in 1..n}
    BY <1>1 DEF Done
<1> HIDE DEF n
<1>6. Done(u)' = Done(u) \cup {e}
    <2>1. {log'[u][i].event : i \in 1..n \cup {n + 1}}
            = {log'[u][i].event : i \in 1..n} \cup {log'[u][n + 1].event}
        OBVIOUS
    <2>2. {log'[u][i].event : i \in 1..n} = {log[u][i].event : i \in 1..n}
        BY <1>1
    <2> QED
        BY <1>2, <1>3, <1>4, <1>5, <2>1, <2>2
<1>7. ASSUME NEW v \in Users \ {u} PROVE Done(v)' = Done(v)
    BY <1>1 DEF Done
<1>8. Happened' = Happened
    BY <1>1 DEF Happened
<1> QED
    BY <1>6, <1>7, <1>8

\* Handling an event means the same as long as the event, the conversation and
\* its timestamp are the same.
LEMMA OutcomesSame ==
    ASSUME NEW e, NEW u, input'[e] = input[e], conv'[u] = conv[u], last'[u] = last[u]
    PROVE  Outcomes(u, e)' = Outcomes(u, e)
<1>1. Stale(u, e)' <=> Stale(u, e)
    BY DEF Stale
<1>2. Found(u)' = Found(u)
    BY DEF Found
<1>3. ASSUME NEW c PROVE Handled(c, e)' = Handled(c, e)
    <2>1. ASSUME NEW state PROVE InFlow(c, e, state)' <=> InFlow(c, e, state)
        BY DEF InFlow
    <2> QED
        BY <2>1 DEF Handled
<1>4. CASE Stale(u, e)
    BY <1>1, <1>2, <1>4 DEF Outcomes
<1>5. CASE ~Stale(u, e)
    <2>1. ASSUME NEW x
          PROVE  x \in Outcomes(u, e)' <=> x \in Outcomes(u, e)
        BY <1>1, <1>2, <1>3, <1>5 DEF Outcomes
    <2> QED
        BY <2>1
<1> QED
    BY <1>4, <1>5

-----------------------------------------------------------------------------
(* The invariant.                                                          *)

WebhookInv ==
    TypeOK /\ RequestsIsolated /\ HandledAtMostOnce /\ RepliesFollowDialog

\* At the start nothing has happened and no request is served.
LEMMA WebhookInvInit == Init => WebhookInv
<1> SUFFICES ASSUME Init PROVE WebhookInv
    OBVIOUS
<1> USE DEF Init, DialogInit
<1>1. DialogTypeOK
    <2>1. Menu \in Conversation
        BY DEF Conversation, Menu, Choice, None
    <2> QED
        BY <2>1, EmptySeq, BoundsAssumption DEF DialogTypeOK
<1>2. TypeOK
    BY <1>1, IdleType, FaultsAssumption DEF TypeOK
<1>3. \A h \in Handlers : handler[h].pc = "idle"
    BY IdleType
<1>4. \A u \in Users : DOMAIN log[u] = {} /\ Done(u) = {}
    <2>1. ASSUME NEW u \in Users PROVE log[u] = <<>>
        OBVIOUS
    <2>2. ASSUME NEW u \in Users PROVE DOMAIN log[u] = {}
        BY <2>1
    <2> QED
        BY <2>2 DEF Done
<1>5. RequestsExclude /\ \A h \in Handlers : RequestFits(h)
    BY <1>3 DEF RequestsExclude, RequestFits, Open
<1>6. ReceiptsFit
    BY <1>4 DEF ReceiptsFit
<1> QED
    BY <1>2, <1>4, <1>5, <1>6
       DEF WebhookInv, RequestsIsolated, HandledAtMostOnce, RepliesFollowDialog

\* A request that a step leaves alone still fits when nobody else's step
\* touched its receipt, its conversation or an earlier reply of its user.
LEMMA FitsStill ==
    ASSUME DialogTypeOK, NEW h \in Handlers, RequestFits(h), handler'[h] = handler[h],
           Happened \subseteq Happened',
           \A e \in Happened : input'[e] = input[e],
           Open(h) => (handler[h].event \in receipts' => handler[h].event \in receipts),
           receipts \subseteq receipts', tickets' \in Nat, tickets \in Nat, tickets <= tickets',
           handler[h].ticket \in Nat,
           handler[h].pc = "answered" =>
               /\ conv'[UserOf(h)] = conv[UserOf(h)] /\ last'[UserOf(h)] = last[UserOf(h)]
               /\ Done(UserOf(h))' = Done(UserOf(h))
               /\ \A e \in Done(UserOf(h)) : ticket'[e] = ticket[e]
    PROVE  RequestFits(h)'
<1> DEFINE d == handler[h].event
           u == input[d].user
<1>1. handler[h].pc # "idle" => d \in Happened /\ input'[d] = input[d]
    BY DEF RequestFits
<1>2. CASE handler[h].pc = "answered"
    <2>1. Outcomes(u, d)' = Outcomes(u, d)
        <3>1. /\ input'[d] = input[d] /\ conv'[u] = conv[u] /\ last'[u] = last[u]
              /\ handler'[h] = handler[h]
            BY <1>1, <1>2 DEF UserOf
        <3> HIDE DEF d, u
        <3>2. d' = d /\ u' = u
            BY <3>1, <1>1, <1>2 DEF d, u
        <3> QED
            BY <3>1, <3>2, OutcomesSame
    <2> QED
        BY <1>1, <1>2, <2>1 DEF RequestFits, UserOf, Open
<1>3. CASE handler[h].pc # "answered"
    BY <1>1, <1>3 DEF RequestFits, UserOf, Open
<1> QED
    BY <1>2, <1>3

\* The dialog's variables and what is defined from them stay the same.
LEMMA DialogSame ==
    ASSUME UNCHANGED dialog
    PROVE  /\ DialogTypeOK => DialogTypeOK'
           /\ Happened' = Happened
           /\ \A u : Done(u)' = Done(u)
           /\ HandledAtMostOnce => HandledAtMostOnce'
<1> USE DEF dialog
<1>1. DialogTypeOK => DialogTypeOK'
    BY DEF DialogTypeOK
<1>2. Happened' = Happened
    BY DEF Happened
<1>3. ASSUME NEW u PROVE Done(u)' = Done(u)
    BY DEF Done
<1>4. HandledAtMostOnce => HandledAtMostOnce'
    BY DEF HandledAtMostOnce
<1> QED
    BY <1>1, <1>2, <1>3, <1>4

\* A step that moves one request to a phase in which it holds no conversation,
\* and commits nothing, keeps the invariant.
LEMMA RequestMoves ==
    ASSUME WebhookInv, UNCHANGED <<dialog, receipts, strangers, ticket, tickets>>,
           NEW h \in Handlers, NEW r \in HandlerStates, handler' = [handler EXCEPT ![h] = r],
           heard' \subseteq receipts, faults' \in 0..MaxFaults, r.pc # "answered",
           r.pc # "idle" => r.event \in Happened,
           r.pc = "inserted" =>
               /\ r.event \notin receipts
               /\ \A g \in Handlers \ {h} : Open(g) => handler[g].event # r.event,
           r.pc = "committed" => r.event \in receipts
    PROVE  WebhookInv'
<1> USE DEF WebhookInv
<1>1. /\ \A g \in Handlers \ {h} : handler'[g] = handler[g]
      /\ handler'[h] = r
      /\ handler' \in [Handlers -> HandlerStates]
    BY DEF TypeOK
<1>2. /\ DialogTypeOK' /\ Happened' = Happened
      /\ \A u : Done(u)' = Done(u)
      /\ HandledAtMostOnce'
    BY DialogSame DEF TypeOK
<1>3. TypeOK'
    <2>1. heard' \subseteq Events
        BY DEF TypeOK
    <2> QED
        BY <1>1, <1>2, <2>1 DEF TypeOK
<1>4. RequestsExclude'
    BY <1>1 DEF RequestsExclude, RequestsIsolated, Open, UserOf, dialog
<1>5. ASSUME NEW g \in Handlers PROVE RequestFits(g)'
    <2>1. CASE g = h
        BY <1>1, <1>2, <2>1 DEF RequestFits, Open
    <2>2. CASE g # h
        <3>1. /\ RequestFits(g) /\ handler'[g] = handler[g] /\ DialogTypeOK
              /\ tickets \in Nat /\ tickets' \in Nat /\ tickets <= tickets'
              /\ handler[g].ticket \in Nat
            BY <1>1, <2>2 DEF RequestsIsolated, TypeOK, HandlerStates
        <3>2. /\ input' = input /\ conv' = conv /\ last' = last /\ receipts' = receipts
              /\ ticket' = ticket
            BY DEF dialog
        <3>3. Done(UserOf(g))' = Done(UserOf(g))
            BY <3>1, <3>2 DEF UserOf, Done, dialog
        <3> QED
            BY <1>2, <3>1, <3>2, <3>3, FitsStill
    <2> QED
        BY <2>1, <2>2
<1>6. ReceiptsFit'
    BY <1>2 DEF ReceiptsFit, RequestsIsolated, dialog
<1>7. RepliesFollowDialog'
    BY DEF RepliesFollowDialog, dialog
<1> QED
    BY <1>2, <1>3, <1>4, <1>5, <1>6, <1>7 DEF RequestsIsolated

\* A new event concerns no request yet.
LEMMA HappenKeepsInv == WebhookInv /\ EventHappens => WebhookInv'
<1> SUFFICES ASSUME WebhookInv, EventHappens PROVE WebhookInv'
    OBVIOUS
<1> USE DEF WebhookInv
<1>1. /\ DialogTypeOK /\ DialogTypeOK' /\ Happened \subseteq Happened'
      /\ \A e \in Happened : input'[e] = input[e]
      /\ UNCHANGED <<conv, last, log>>
    BY HappenShape DEF EventHappens, Happen, PastStays, TypeOK
<1>2. UNCHANGED <<receipts, strangers, heard, ticket, tickets, handler, faults>>
    BY DEF EventHappens
<1>3. \A u : Done(u)' = Done(u)
    BY <1>1 DEF Done
<1>4. TypeOK'
    BY <1>1, <1>2 DEF TypeOK
<1>5. ASSUME NEW h \in Handlers, handler[h].pc # "idle"
      PROVE  UserOf(h)' = UserOf(h)
    BY <1>1, <1>2, <1>5 DEF UserOf, RequestsIsolated, RequestFits
<1>6. RequestsExclude'
    BY <1>2, <1>5 DEF RequestsExclude, RequestsIsolated, Open
<1>7. ASSUME NEW h \in Handlers PROVE RequestFits(h)'
    <2>1. /\ RequestFits(h) /\ tickets \in Nat /\ handler[h].ticket \in Nat
        BY DEF RequestsIsolated, TypeOK, HandlerStates
    <2>2. handler[h].pc = "answered" => Done(UserOf(h))' = Done(UserOf(h))
        BY <1>1, <1>5 DEF Done
    <2> QED
        BY <1>1, <1>2, <2>1, <2>2, FitsStill
<1>8. ReceiptsFit'
    <2>1. ASSUME NEW u \in Users, NEW e \in Done(u)'
          PROVE  e \in receipts' /\ input'[e].user = u /\ ticket'[e] <= tickets'
        BY <1>1, <1>2, <1>3 DEF ReceiptsFit, RequestsIsolated
    <2>2. ASSUME NEW e \in receipts'
          PROVE  e \in strangers' \/ e \in Done(input[e].user)'
        <3>1. input'[e] = input[e]
            BY <1>1, <1>2 DEF ReceiptsFit, RequestsIsolated
        <3>2. e \in strangers \/ e \in Done(input[e].user)
            BY <1>2 DEF ReceiptsFit, RequestsIsolated
        <3> QED
            BY <1>1, <1>2, <3>1, <3>2 DEF Done
    <2> QED
        BY <1>1, <1>2, <2>1, <2>2 DEF ReceiptsFit, RequestsIsolated
<1>9. HandledAtMostOnce' /\ RepliesFollowDialog'
    BY <1>1, <1>2 DEF HandledAtMostOnce, RepliesFollowDialog
<1> QED
    BY <1>4, <1>6, <1>7, <1>8, <1>9 DEF RequestsIsolated

\* A refused stranger's receipt is nobody else's.
LEMMA RejectKeepsInv ==
    ASSUME WebhookInv, NEW h \in Handlers, Reject(h)
    PROVE  WebhookInv'
<1> USE DEF WebhookInv
<1> DEFINE d == handler[h].event
<1>1. /\ handler[h].pc = "inserted" /\ UNCHANGED <<dialog, heard, ticket, tickets, faults>>
      /\ receipts' = receipts \cup {d} /\ strangers' = strangers \cup {d}
      /\ d \in Happened /\ d \notin receipts
    BY DEF Reject, RequestsIsolated, RequestFits, Open
<1>2. /\ \A g \in Handlers \ {h} : handler'[g] = handler[g]
      /\ handler' \in [Handlers -> HandlerStates]
      /\ handler'[h].pc = "committed" /\ handler'[h].event = d
    <2>1. /\ handler' = [handler EXCEPT ![h] = [handler[h] EXCEPT !.pc = "committed"]]
          /\ handler[h] \in HandlerStates
        BY DEF Reject, TypeOK
    <2>2. [handler[h] EXCEPT !.pc = "committed"] \in HandlerStates
        BY <2>1, RequestType DEF Phases
    <2> QED
        BY <2>1, <2>2 DEF TypeOK, HandlerStates
<1>3. /\ DialogTypeOK' /\ Happened' = Happened
      /\ \A u : Done(u)' = Done(u)
      /\ HandledAtMostOnce'
    BY <1>1, DialogSame DEF TypeOK
<1>4. d \in Events
    BY <1>1, InputType DEF TypeOK
<1>5. TypeOK'
    BY <1>1, <1>2, <1>3, <1>4 DEF TypeOK
<1>6. RequestsExclude'
    BY <1>1, <1>2 DEF RequestsExclude, RequestsIsolated, Open, UserOf, dialog
<1>7. ASSUME NEW g \in Handlers PROVE RequestFits(g)'
    <2>1. CASE g = h
        BY <1>1, <1>2, <1>3, <2>1 DEF RequestFits, Open
    <2>2. CASE g # h
        <3>1. /\ RequestFits(g) /\ handler'[g] = handler[g] /\ DialogTypeOK
              /\ tickets \in Nat /\ tickets' \in Nat /\ tickets <= tickets'
              /\ handler[g].ticket \in Nat
            BY <1>1, <1>2, <2>2 DEF RequestsIsolated, TypeOK, HandlerStates
        <3>2. /\ input' = input /\ conv' = conv /\ last' = last /\ ticket' = ticket
              /\ receipts \subseteq receipts'
            BY <1>1 DEF dialog
        <3>3. Done(UserOf(g))' = Done(UserOf(g))
            BY <1>1, <3>1, <3>2 DEF UserOf, Done, dialog
        <3>4. Open(g) => handler[g].event # d
            BY <1>1, <2>2 DEF RequestsIsolated, RequestsExclude, Open
        <3> QED
            BY <1>1, <1>3, <3>1, <3>2, <3>3, <3>4, FitsStill
    <2> QED
        BY <2>1, <2>2
<1>8. ReceiptsFit'
    <2>1. input' = input
        BY <1>1 DEF dialog
    <2> QED
        BY <1>1, <1>3, <2>1 DEF ReceiptsFit, RequestsIsolated
<1>9. RepliesFollowDialog'
    BY <1>1 DEF RepliesFollowDialog, dialog
<1> QED
    BY <1>3, <1>5, <1>6, <1>7, <1>8, <1>9 DEF RequestsIsolated

\* The request gets the conversation only when no other has it, and numbers its
\* replies after all that were committed.
LEMMA AnswerKeepsInv ==
    ASSUME WebhookInv, NEW h \in Handlers, Answer(h)
    PROVE  WebhookInv'
<1> USE DEF WebhookInv
<1> DEFINE d == handler[h].event
<1>1. /\ handler[h].pc = "inserted" /\ ~ConversationWaits(h) /\ tickets' = tickets + 1
      /\ UNCHANGED <<dialog, receipts, strangers, heard, ticket, faults>>
      /\ d \in Happened /\ d \notin receipts
    BY DEF Answer, RequestsIsolated, RequestFits, Open
<1>2. PICK o \in Outcomes(UserOf(h), d) :
          handler' = [handler EXCEPT ![h] = Request("answered", d, o, tickets + 1)]
    BY DEF Answer
<1>3. d \in Events /\ input[d].user \in Users /\ o \in Outcome /\ tickets \in Nat
    BY <1>1, <1>2, InputType, OutcomeType DEF TypeOK, UserOf
<1>4. /\ \A g \in Handlers \ {h} : handler'[g] = handler[g]
      /\ handler' \in [Handlers -> HandlerStates]
      /\ handler'[h].pc = "answered" /\ handler'[h].event = d
      /\ handler'[h].outcome = o /\ handler'[h].ticket = tickets + 1
    <2> DEFINE r == Request("answered", d, o, tickets + 1)
    <2>1. r \in HandlerStates /\ r.pc = "answered" /\ r.event = d /\ r.outcome = o
          /\ r.ticket = tickets + 1
        <3>1. "answered" \in Phases /\ tickets + 1 \in Nat /\ d \in Events \cup {0}
            BY <1>3 DEF Phases
        <3> HIDE DEF d
        <3> QED
            BY <1>3, <3>1, RequestType
    <2> HIDE DEF r
    <2> QED
        BY <1>2, <2>1 DEF TypeOK, r
<1>5. /\ DialogTypeOK' /\ Happened' = Happened
      /\ \A u : Done(u)' = Done(u)
      /\ HandledAtMostOnce'
    BY <1>1, DialogSame DEF TypeOK
<1>6. TypeOK'
    BY <1>1, <1>3, <1>4, <1>5 DEF TypeOK
<1>7. input' = input /\ conv' = conv /\ last' = last /\ log' = log
    BY <1>1 DEF dialog
<1>8. RequestsExclude'
    <2>1. ASSUME NEW g \in Handlers PROVE UserOf(g)' = UserOf(g)
        BY <1>4, <1>7 DEF UserOf
    <2>2. ASSUME NEW g \in Handlers \ {h}, handler[g].pc = "answered"
          PROVE  UserOf(g) # UserOf(h)
        BY <1>1, <2>2 DEF ConversationWaits
    <2> QED
        BY <1>1, <1>4, <2>1, <2>2 DEF RequestsExclude, RequestsIsolated, Open
<1>9. ASSUME NEW g \in Handlers PROVE RequestFits(g)'
    <2>1. CASE g = h
        <3> DEFINE u == input[d].user
        <3>1. Done(u)' = Done(u) /\ Outcomes(u, d)' = Outcomes(u, d)
            <4>1. u' = u /\ d' = d
                BY <1>4, <1>7
            <4> HIDE DEF u, d
            <4> QED
                BY <1>5, <1>7, <4>1, OutcomesSame DEF Done
        <3>2. \A e \in Done(u) : ticket[e] <= tickets /\ ticket[e] \in Nat
            BY <1>3 DEF RequestsIsolated, ReceiptsFit, TypeOK
        <3> QED
            BY <1>1, <1>2, <1>3, <1>4, <1>5, <1>7, <2>1, <3>1, <3>2
               DEF RequestFits, Open, UserOf
    <2>2. CASE g # h
        <3>1. /\ RequestFits(g) /\ handler'[g] = handler[g] /\ DialogTypeOK
              /\ tickets \in Nat /\ tickets' \in Nat /\ tickets <= tickets'
              /\ handler[g].ticket \in Nat
            BY <1>1, <1>3, <1>4, <2>2 DEF RequestsIsolated, TypeOK, HandlerStates
        <3>2. Done(UserOf(g))' = Done(UserOf(g))
            BY <1>7, <3>1 DEF UserOf, Done
        <3> QED
            BY <1>1, <1>5, <1>7, <3>1, <3>2, FitsStill
    <2> QED
        BY <2>1, <2>2
<1>10. ReceiptsFit'
    <2>1. ASSUME NEW u \in Users, NEW e \in Done(u)
          PROVE  ticket[e] <= tickets' /\ e \in receipts /\ input[e].user = u
        <3>1. ticket[e] <= tickets /\ e \in receipts /\ input[e].user = u /\ ticket[e] \in Nat
            BY DEF RequestsIsolated, ReceiptsFit, TypeOK
        <3> QED
            BY <1>1, <1>3, <3>1
    <2> QED
        BY <1>1, <1>5, <1>7, <2>1 DEF ReceiptsFit, RequestsIsolated
<1>11. RepliesFollowDialog'
    BY <1>1, <1>7 DEF RepliesFollowDialog
<1> QED
    BY <1>5, <1>6, <1>8, <1>9, <1>10, <1>11 DEF RequestsIsolated

\* The commit appends one event that nobody had handled, with the numbers its
\* replies were given under the lock of the conversation.
LEMMA CommitKeepsInv ==
    ASSUME WebhookInv, NEW h \in Handlers, Commit(h)
    PROVE  WebhookInv'
<1> USE DEF WebhookInv
<1>0. PICK d, o, u, n : /\ d = handler[h].event /\ o = handler[h].outcome
                        /\ u = input[d].user /\ n = Len(log[u])
    OBVIOUS
<1>1. /\ handler[h].pc = "answered" /\ Take(d, o)
      /\ receipts' = receipts \cup {d}
      /\ ticket' = [ticket EXCEPT ![d] = handler[h].ticket]
      /\ UNCHANGED <<strangers, heard, tickets, faults>>
    BY <1>0 DEF Commit
<1>2. /\ d \in Happened /\ d \notin receipts /\ o \in Outcomes(u, d)
      /\ handler[h].ticket <= tickets
      /\ \A e \in Done(u) : ticket[e] < handler[h].ticket
    BY <1>0, <1>1 DEF RequestsIsolated, RequestFits, Open, UserOf
<1>3. /\ d \in Events /\ u \in Users /\ o \in Outcome /\ DialogTypeOK
      /\ handler[h].ticket \in Nat
    BY <1>0, <1>1, <1>2, InputType, OutcomeType DEF TypeOK, HandlerStates
<1>4. /\ \A g \in Handlers \ {h} : handler'[g] = handler[g]
      /\ handler' \in [Handlers -> HandlerStates]
      /\ handler'[h].pc = "committed" /\ handler'[h].event = d
    <2> DEFINE r == Request("committed", d, NoOutcome, 0)
    <2>1. r \in HandlerStates /\ r.pc = "committed" /\ r.event = d
        BY <1>3, RequestType DEF Phases
    <2>2. handler' = [handler EXCEPT ![h] = r]
        BY <1>0 DEF Commit
    <2> HIDE DEF r
    <2> QED
        BY <2>1, <2>2 DEF TypeOK
<1>5. /\ DialogTypeOK' /\ input' = input
      /\ \A v \in Users \ {u} : log'[v] = log[v]
      /\ n \in Nat /\ DOMAIN log[u] = 1..n /\ DOMAIN log'[u] = 1..(n + 1)
      /\ \A i \in 1..n : log'[u][i] = log[u][i]
      /\ log'[u][n + 1].event = d
    <2>1. u = input[d].user
        BY <1>0
    <2>2. /\ DialogTypeOK' /\ input' = input
          /\ \A v \in Users \ {u} : log'[v] = log[v]
          /\ Len(log[u]) \in Nat
          /\ DOMAIN log[u] = 1..Len(log[u]) /\ DOMAIN log'[u] = 1..(Len(log[u]) + 1)
          /\ \A i \in 1..Len(log[u]) : log'[u][i] = log[u][i]
          /\ log'[u][Len(log[u]) + 1] = [event |-> d, result |-> o.result, on |-> o.on]
        BY <1>1, <1>2, <1>3, <2>1, OutcomeShape
    <2>3. n = Len(log[u])
        BY <1>0
    <2> QED
        BY <2>2, <2>3
<1>6. /\ Happened' = Happened
      /\ \A i \in 1..n : log[u][i].event \in Done(u)
    <2>1. Happened' = Happened
        BY <1>5 DEF Happened
    <2> QED
        BY <1>5, <2>1 DEF Done
<1>7. /\ Done(u)' = Done(u) \cup {d}
      /\ \A v \in Users \ {u} : Done(v)' = Done(v)
    <2>1. u = input[d].user
        BY <1>0
    <2> QED
        BY <1>1, <1>2, <1>3, <2>1, TakeDone
<1>8. \A v \in Users : \A e \in Done(v) :
          /\ e \in receipts /\ e # d /\ input[e].user = v
          /\ ticket[e] <= tickets /\ ticket'[e] = ticket[e]
    <2>1. \A v \in Users : \A e \in Done(v) :
              e \in receipts /\ input[e].user = v /\ ticket[e] <= tickets
        BY DEF RequestsIsolated, ReceiptsFit
    <2>2. receipts \subseteq Events
        BY DEF TypeOK
    <2> QED
        BY <1>1, <1>2, <2>1, <2>2 DEF TypeOK
<1>9. ticket'[d] = handler[h].ticket /\ ticket' \in [Events -> Nat]
    BY <1>1, <1>3 DEF TypeOK
<1>10. TypeOK'
    BY <1>1, <1>3, <1>4, <1>5, <1>9 DEF TypeOK
<1>11. RequestsExclude'
    <2>1. ASSUME NEW g \in Handlers PROVE UserOf(g)' = UserOf(g)
        <3>1. handler'[g].event = handler[g].event
            BY <1>0, <1>4
        <3> QED
            BY <1>5, <3>1 DEF UserOf
    <2> QED
        BY <1>4, <2>1 DEF RequestsExclude, RequestsIsolated, Open
<1>12. ASSUME NEW g \in Handlers PROVE RequestFits(g)'
    <2>1. CASE g = h
        BY <1>0, <1>1, <1>2, <1>4, <1>6, <2>1 DEF RequestFits, Open
    <2>2. CASE g # h
        <3>1. /\ RequestFits(g) /\ handler'[g] = handler[g]
              /\ tickets \in Nat /\ handler[g].ticket \in Nat
            BY <1>4, <2>2 DEF RequestsIsolated, TypeOK, HandlerStates
        <3>2. Open(g) => handler[g].event # d
            BY <1>0, <1>1, <2>2 DEF RequestsIsolated, RequestsExclude, Open
        <3>3. ASSUME handler[g].pc = "answered"
              PROVE  /\ conv'[UserOf(g)] = conv[UserOf(g)] /\ last'[UserOf(g)] = last[UserOf(g)]
                     /\ Done(UserOf(g))' = Done(UserOf(g))
                     /\ \A e \in Done(UserOf(g)) : ticket'[e] = ticket[e]
            <4>1. UserOf(g) # u /\ UserOf(g) \in Users
                BY <1>0, <1>1, <1>3, <2>2, <3>1, <3>3, InputType
                   DEF RequestsIsolated, RequestsExclude, RequestFits, UserOf
            <4>2. UserOf(g)' = UserOf(g)
                BY <1>5, <3>1 DEF UserOf
            <4>3. /\ conv' = [conv EXCEPT ![u] = o.conv] /\ last' = [last EXCEPT ![u] = o.last]
                  /\ log'[UserOf(g)] = log[UserOf(g)]
                <5>1. input[d].user = u
                    BY <1>0
                <5> QED
                    BY <1>1, <1>5, <4>1, <5>1 DEF Take
            <4>4. Done(UserOf(g))' = Done(UserOf(g))
                BY <4>2, <4>3 DEF Done
            <4> QED
                BY <1>3, <1>8, <4>1, <4>3, <4>4 DEF DialogTypeOK
        <3> QED
            <4>1. \A e \in Happened : input'[e] = input[e]
                BY <1>5
            <4>2. tickets' = tickets /\ tickets <= tickets /\ receipts \subseteq receipts'
                BY <1>1, <3>1
            <4>3. Open(g) =>
                      (handler[g].event \in receipts' => handler[g].event \in receipts)
                BY <1>1, <3>2
            <4> QED
                BY <1>3, <1>6, <3>1, <3>3, <4>1, <4>2, <4>3, FitsStill
    <2> QED
        BY <2>1, <2>2
<1>13. ReceiptsFit'
    <2>1. heard' \subseteq receipts' /\ receipts' \subseteq Happened'
        BY <1>1, <1>2, <1>6 DEF RequestsIsolated, ReceiptsFit
    <2>2. ASSUME NEW v \in Users, NEW e \in Done(v)'
          PROVE  e \in receipts' /\ input'[e].user = v /\ ticket'[e] <= tickets'
        <3>1. CASE e \in Done(v)
            <4>1. /\ e \in receipts /\ input[e].user = v
                  /\ ticket[e] <= tickets /\ ticket'[e] = ticket[e]
                BY <1>8, <3>1
            <4> QED
                BY <1>1, <1>5, <4>1
        <3>2. CASE v = u /\ e = d
            BY <1>0, <1>1, <1>2, <1>5, <1>9, <3>2
        <3> QED
            BY <1>7, <2>2, <3>1, <3>2
    <2>3. ASSUME NEW e \in receipts'
          PROVE  e \in strangers' \/ e \in Done(input[e].user)'
        <3>1. PICK v : v = input[e].user
            OBVIOUS
        <3>2. Done(input[e].user)' = Done(v)'
            BY <1>5, <3>1 DEF Done
        <3>3. CASE e = d
            BY <1>0, <1>7, <3>1, <3>2, <3>3
        <3>4. CASE e # d
            <4>1. e \in strangers \/ e \in Done(v)
                BY <1>1, <3>1, <3>4 DEF RequestsIsolated, ReceiptsFit
            <4>2. v \in Users
                BY <1>1, <1>3, <3>1, <3>4, InputType DEF RequestsIsolated, ReceiptsFit
            <4> QED
                BY <1>1, <1>7, <3>2, <4>1, <4>2
        <3> QED
            BY <3>3, <3>4
    <2> QED
        BY <1>5, <2>1, <2>2, <2>3 DEF ReceiptsFit
<1>14. ASSUME NEW v \in Users, NEW i \in DOMAIN log'[v], NEW j \in DOMAIN log'[v], i # j
       PROVE  /\ log'[v][i].event # log'[v][j].event
              /\ i < j => ticket'[log'[v][i].event] < ticket'[log'[v][j].event]
    <2>1. CASE v # u
        <3>1. log'[v] = log[v] /\ i \in DOMAIN log[v] /\ j \in DOMAIN log[v]
            BY <1>5, <2>1
        <3>2. log[v][i].event \in Done(v) /\ log[v][j].event \in Done(v)
            BY <3>1 DEF Done
        <3> QED
            BY <1>8, <1>14, <3>1, <3>2 DEF HandledAtMostOnce, RepliesFollowDialog
    <2>2. CASE v = u /\ i \in 1..n /\ j \in 1..n
        <3>1. log'[v][i] = log[u][i] /\ log'[v][j] = log[u][j] /\ u \in Users
              /\ i \in DOMAIN log[u] /\ j \in DOMAIN log[u]
            BY <1>3, <1>5, <2>2
        <3>2. log[u][i].event \in Done(u) /\ log[u][j].event \in Done(u)
            BY <1>6, <2>2
        <3> QED
            BY <1>8, <1>14, <3>1, <3>2 DEF HandledAtMostOnce, RepliesFollowDialog
    <2>3. CASE v = u /\ i \in 1..n /\ j = n + 1
        <3>1. /\ log'[v][i].event = log[u][i].event /\ log'[v][j].event = d
              /\ log[u][i].event \in Done(u)
            BY <1>5, <1>6, <2>3
        <3> QED
            BY <1>2, <1>3, <1>8, <1>9, <3>1
    <2>4. CASE v = u /\ i = n + 1 /\ j \in 1..n
        <3>1. /\ log'[v][j].event = log[u][j].event /\ log'[v][i].event = d
              /\ log[u][j].event \in Done(u) /\ ~(i < j)
            BY <1>5, <1>6, <2>4
        <3> QED
            BY <1>2, <1>3, <1>8, <1>9, <3>1
    <2>5. v = u => i \in 1..n \cup {n + 1} /\ j \in 1..n \cup {n + 1}
        BY <1>5
    <2> QED
        BY <1>14, <2>1, <2>2, <2>3, <2>4, <2>5
<1>15. HandledAtMostOnce' /\ RepliesFollowDialog'
    <2>1. ASSUME NEW v \in Users PROVE DOMAIN log'[v] \subseteq Int
        <3>1. log'[v] \in Seq(Entry)
            BY <1>5 DEF DialogTypeOK
        <3> QED
            BY <3>1
    <2>2. \A x, y \in Int : x < y => x # y
        OBVIOUS
    <2> QED
        BY <1>14, <2>1, <2>2 DEF HandledAtMostOnce, RepliesFollowDialog
<1> QED
    BY <1>10, <1>11, <1>12, <1>13, <1>15 DEF RequestsIsolated

\* Every step keeps the invariant.
LEMMA WebhookInvStep == WebhookInv /\ [Next]_vars => WebhookInv'
<1> SUFFICES ASSUME WebhookInv, [Next]_vars PROVE WebhookInv'
    OBVIOUS
<1>0. /\ faults \in 0..MaxFaults /\ faults \in Nat /\ heard \subseteq receipts
      /\ receipts \subseteq Happened /\ Happened \subseteq Events
      /\ \A h \in Handlers : handler[h] \in HandlerStates /\ RequestFits(h)
    BY InputType, FaultsAssumption
       DEF WebhookInv, TypeOK, RequestsIsolated, ReceiptsFit, Events
<1>1. CASE EventHappens
    BY <1>1, HappenKeepsInv
<1>2. ASSUME NEW h \in Handlers, NEW e \in Happened, Deliver(h, e)
      PROVE  WebhookInv'
    <2> DEFINE r == Request("received", e, NoOutcome, 0)
    <2>1. r \in HandlerStates /\ r.pc = "received" /\ r.event = e
        <3>1. "received" \in Phases /\ e \in Events \cup {0}
            BY <1>0 DEF Phases
        <3> QED
            BY <3>1, RequestType
    <2>2. handler' = [handler EXCEPT ![h] = r]
        BY <1>2 DEF Deliver
    <2> HIDE DEF r
    <2>3. UNCHANGED <<dialog, receipts, strangers, ticket, tickets, heard, faults>>
        BY <1>2 DEF Deliver
    <2> QED
        BY <1>0, <2>1, <2>2, <2>3, RequestMoves
<1>3. ASSUME NEW h \in Handlers, InsertReceipt(h)
      PROVE  WebhookInv'
    <2> DEFINE r == [handler[h] EXCEPT !.pc = "inserted"]
    <2>1. r \in HandlerStates /\ r.pc = "inserted" /\ r.event = handler[h].event
        BY <1>0, RequestType DEF Phases
    <2>2. handler' = [handler EXCEPT ![h] = r]
        BY <1>3 DEF InsertReceipt
    <2> HIDE DEF r
    <2>3. /\ UNCHANGED <<dialog, receipts, strangers, ticket, tickets, heard, faults>>
          /\ handler[h].pc = "received" /\ handler[h].event \notin receipts
          /\ \A g \in Handlers \ {h} : Open(g) => handler[g].event # handler[h].event
        BY <1>3 DEF InsertReceipt, Seen, ReceiptWaits
    <2>4. handler[h].event \in Happened
        BY <1>0, <2>3 DEF RequestFits
    <2> QED
        BY <1>0, <2>1, <2>2, <2>3, <2>4, RequestMoves
<1>4. ASSUME NEW h \in Handlers, Duplicate(h)
      PROVE  WebhookInv'
    <2> DEFINE r == [handler[h] EXCEPT !.pc = "committed"]
    <2>1. r \in HandlerStates /\ r.pc = "committed" /\ r.event = handler[h].event
        BY <1>0, RequestType DEF Phases
    <2>2. handler' = [handler EXCEPT ![h] = r]
        BY <1>4 DEF Duplicate
    <2> HIDE DEF r
    <2>3. /\ UNCHANGED <<dialog, receipts, strangers, ticket, tickets, heard, faults>>
          /\ handler[h].event \in receipts
        BY <1>4 DEF Duplicate, Seen
    <2> QED
        BY <1>0, <2>1, <2>2, <2>3, RequestMoves
<1>5. ASSUME NEW h \in Handlers, Respond(h)
      PROVE  WebhookInv'
    <2>1. /\ handler' = [handler EXCEPT ![h] = Idle]
          /\ UNCHANGED <<dialog, receipts, strangers, ticket, tickets, faults>>
          /\ heard' = heard \cup {handler[h].event} /\ handler[h].pc = "committed"
        BY <1>5 DEF Respond
    <2>2. heard' \subseteq receipts
        BY <1>0, <2>1 DEF RequestFits
    <2> QED
        BY <1>0, <2>1, <2>2, IdleType, RequestMoves
<1>6. ASSUME NEW h \in Handlers, Fail(h)
      PROVE  WebhookInv'
    <2>1. /\ handler' = [handler EXCEPT ![h] = Idle]
          /\ UNCHANGED <<dialog, receipts, strangers, heard, ticket, tickets>>
          /\ faults < MaxFaults /\ faults' = faults + 1
        BY <1>6 DEF Fail
    <2>2. faults' \in 0..MaxFaults
        BY <1>0, <2>1, FaultsAssumption
    <2> QED
        BY <1>0, <2>1, <2>2, IdleType, RequestMoves
<1>7. CASE UNCHANGED vars
    <2>1. /\ UNCHANGED <<dialog, receipts, strangers, heard, ticket, tickets, handler, faults>>
        BY <1>7 DEF vars
    <2>2. /\ DialogTypeOK' /\ Happened' = Happened
          /\ \A u : Done(u)' = Done(u) /\ HandledAtMostOnce'
        BY <2>1, DialogSame DEF WebhookInv, TypeOK
    <2>3. TypeOK'
        BY <2>1, <2>2 DEF WebhookInv, TypeOK
    <2>4. UNCHANGED input
        BY <2>1 DEF dialog
    <2>5. RequestsExclude'
        BY <2>1, <2>4 DEF WebhookInv, RequestsIsolated, RequestsExclude, Open, UserOf
    <2>6. ASSUME NEW h \in Handlers PROVE RequestFits(h)'
        <3>1. /\ UNCHANGED <<input, conv, last, log>> /\ DialogTypeOK /\ tickets \in Nat
              /\ handler[h].ticket \in Nat
            BY <1>0, <2>1 DEF dialog, WebhookInv, TypeOK, HandlerStates
        <3>2. Done(UserOf(h))' = Done(UserOf(h))
            BY <2>1, <3>1 DEF UserOf, Done
        <3> QED
            BY <1>0, <2>1, <2>2, <3>1, <3>2, FitsStill
    <2>7. ReceiptsFit'
        BY <2>1, <2>2, <2>4 DEF WebhookInv, RequestsIsolated, ReceiptsFit
    <2>8. RepliesFollowDialog'
        BY <2>1 DEF WebhookInv, RepliesFollowDialog, dialog
    <2> QED
        BY <2>2, <2>3, <2>5, <2>6, <2>7, <2>8 DEF WebhookInv, RequestsIsolated
<1> QED
    BY <1>1, <1>2, <1>3, <1>4, <1>5, <1>6, <1>7,
       RejectKeepsInv, AnswerKeepsInv, CommitKeepsInv DEF Next, Serve

\* The invariant holds in every reachable state.
LEMMA WebhookInvariant == Spec => []WebhookInv
    BY WebhookInvInit, WebhookInvStep, PTL DEF Spec

-----------------------------------------------------------------------------
(* The theorems.                                                           *)

\* Every variable stays in its type.
THEOREM TypeCorrect == Spec => []TypeOK
<1>1. WebhookInv => TypeOK
    BY DEF WebhookInv
<1> QED
    BY <1>1, WebhookInvariant, PTL

\* However often MAX repeats an event, and however many requests run at once or
\* die, its user sees it handled at most once.
THEOREM EventsHandledAtMostOnce == Spec => []HandledAtMostOnce
<1>1. WebhookInv => HandledAtMostOnce
    BY DEF WebhookInv
<1> QED
    BY <1>1, WebhookInvariant, PTL

\* A 200 is heard only for what is committed: nothing acknowledged is lost.
THEOREM HeardEventsAreHandled == Spec => []HeardIsHandled
<1>1. WebhookInv => HeardIsHandled
    BY DEF WebhookInv, RequestsIsolated, ReceiptsFit, HeardIsHandled
<1> QED
    BY <1>1, WebhookInvariant, PTL

\* The queue's order is the order of the dialog.
THEOREM RepliesAlwaysFollowDialog == Spec => []RepliesFollowDialog
<1>1. WebhookInv => RepliesFollowDialog
    BY DEF WebhookInv
<1> QED
    BY <1>1, WebhookInvariant, PTL

\* The receipt and the conversation's lock keep requests apart, and what a
\* request computed under the lock is still right when it commits.
THEOREM RequestsAreIsolated == Spec => []RequestsIsolated
<1>1. WebhookInv => RequestsIsolated
    BY DEF WebhookInv
<1> QED
    BY <1>1, WebhookInvariant, PTL

\* The webhook implements the dialog: a commit is one step of it, anything else
\* a new event or no step at all.
THEOREM WebhookServesDialog == Spec => ServesDialog
<1>1. Init => DialogInit
    BY DEF Init
<1>2. WebhookInv /\ [Next]_vars => [DialogNext]_dialog
    <2> SUFFICES ASSUME WebhookInv, [Next]_vars
                 PROVE  DialogNext \/ UNCHANGED dialog
        OBVIOUS
    <2>1. CASE EventHappens
        BY <2>1 DEF EventHappens, DialogNext
    <2>2. ASSUME NEW h \in Handlers, Commit(h)
          PROVE  DialogNext
        <3>1. PICK e, o : e = handler[h].event /\ o = handler[h].outcome
            OBVIOUS
        <3>2. handler[h].pc = "answered" /\ Take(e, o)
            BY <2>2, <3>1 DEF Commit
        <3>3. /\ e \in Happened /\ e \notin receipts
              /\ o \in Outcomes(input[e].user, e)
            BY <3>1, <3>2 DEF WebhookInv, RequestsIsolated, RequestFits, Open, UserOf
        <3>4. e \notin Done(input[e].user)
            <4>1. input[e].user \in Users
                BY <3>3, InputType DEF WebhookInv, TypeOK
            <4> QED
                BY <3>3, <4>1 DEF WebhookInv, RequestsIsolated, ReceiptsFit
        <3> QED
            BY <3>2, <3>3, <3>4 DEF DialogNext, Handle
    <2>3. ASSUME NEW h \in Handlers,
                 \/ \E e \in Happened : Deliver(h, e)
                 \/ InsertReceipt(h) \/ Duplicate(h) \/ Reject(h) \/ Answer(h)
                 \/ Respond(h) \/ Fail(h)
          PROVE  UNCHANGED dialog
        BY <2>3 DEF Deliver, InsertReceipt, Duplicate, Reject, Answer, Respond, Fail
    <2>4. CASE UNCHANGED vars
        BY <2>4 DEF vars
    <2> QED
        BY <2>1, <2>2, <2>3, <2>4 DEF Next, Serve, vars
<1> QED
    BY <1>1, <1>2, WebhookInvariant, PTL DEF Spec, ServesDialog, DialogSpec

-----------------------------------------------------------------------------
(* The dialog through the webhook.                                         *)

\* What the dialog promises holds in every committed state of the webhook, with
\* requests of one user served at the same time, repeated and failing: a request is
\* created from one flow, a text explains the report asked about last, and events
\* are obeyed in the order they happened (dialogs.py:397-579, routes.py:64-90).
THEOREM DialogThroughWebhook ==
    Spec => [](CreatedFromOneFlow /\ AnswersTheQuestion /\ ObeyedInOrder)
<1>1. DialogInv => CreatedFromOneFlow /\ AnswersTheQuestion /\ ObeyedInOrder
    BY DEF DialogInv
<1>2. Spec => DialogSpec
    BY WebhookServesDialog DEF ServesDialog
<1> QED
    BY <1>1, <1>2, DialogInvariant, PTL
=============================================================================
