------------------------------ MODULE AccessRules ------------------------------
(***************************************************************************)
(* What one user may read and do in one organization                       *)
(* (src/app/crm/access.py), as the places that show something and the      *)
(* places that act on it decide it for themselves: lists are filtered by   *)
(* SQL predicates, cards, choices and decisions are checked on rows, and   *)
(* queued content is sent if the access stamp (src/app/bot/identity.py) is *)
(* the one it was queued with.                                             *)
(***************************************************************************)
EXTENDS Naturals, FiniteSets

CONSTANTS
    Houses, Areas, Categories,
    AreaOf,                 \* AreaOf[h]: House.area_id, never changed
    BadIds,                 \* values among house_ids that are not UUIDs, or none
    AnyArea, Absent

ASSUME AccessAssumption ==
    /\ AreaOf \in [Houses -> Areas]
    /\ BadIds \cap Houses = {} /\ AnyArea \notin Areas

Rights == {"view", "create", "assign", "update"}

\* The row of employees of a user. No code keeps a user from having none.
Members == [active : BOOLEAN, area : Areas \cup {AnyArea},
            allHouses : BOOLEAN, allCategories : BOOLEAN,
            houses : SUBSET (Houses \cup BadIds), categories : SUBSET Categories]

\* All that access depends on: the list of the environment the user is in,
\* User.is_active, the row of employees and the permissions of its role.
Accesses == [listed : {"owner", "employee", "out"}, enabled : BOOLEAN,
             member : Members \cup {Absent}, role : SUBSET Rights]

\* The place and the category of a request, of a bound chat's message alike.
Places == Houses \X Categories

-----------------------------------------------------------------------------
(* One rule, written twice: on rows and as predicates of queries.          *)

IsOwner(a) == a.listed = "owner"

\* native_actor: the user may use the bot at all.
Known(a) == a.listed # "out" /\ a.enabled

\* access_from_membership: an id that cannot be read refuses everything.
Readable(a) == a.member # Absent /\ a.member.active /\ a.member.houses \cap BadIds = {}

\* load_access with a permission succeeds.
Loads(a, right) == IsOwner(a) \/ (Readable(a) /\ right \in a.role)

CanHouse(a, h) ==
    ~IsOwner(a) => /\ a.member.area \in {AnyArea, AreaOf[h]}
                   /\ a.member.allHouses \/ h \in a.member.houses

CanCategory(a, c) == ~IsOwner(a) => a.member.allCategories \/ c \in a.member.categories

\* The rows CRMAccess.house_predicate selects.
HousePredicate(a) ==
    LET inArea == {h \in Houses : IsOwner(a) \/ a.member.area \in {AnyArea, AreaOf[h]}}
    IN inArea \cap (IF IsOwner(a) \/ a.member.allHouses THEN Houses ELSE a.member.houses)

CategoryPredicate(a) ==
    IF IsOwner(a) \/ a.member.allCategories THEN Categories ELSE a.member.categories

InScope(a, r) == CanHouse(a, r[1]) /\ CanCategory(a, r[2])
InPredicates(a, r) == r[1] \in HousePredicate(a) /\ r[2] \in CategoryPredicate(a)

-----------------------------------------------------------------------------
(* What is shown and what is accepted. "mine": the request's assignee is   *)
(* the user's row of employees.                                            *)

\* _visible_task, for a user the event was taken from.
Reaches(a, r) == Loads(a, "view") /\ InScope(a, r)

\* The card of a request opens; requests.py's _visible_request decides by the
\* predicates of the list.
Opens(a, r) == Known(a) /\ Reaches(a, r)
OpensInApi(a, r) == Known(a) /\ Loads(a, "view") /\ InPredicates(a, r)

\* A row of list_tasks, for everybody's requests or the user's own.
InAllTasks(a, r) == Known(a) /\ Loads(a, "view") /\ InPredicates(a, r)
InMyTasks(a, r, mine) == InAllTasks(a, r) /\ a.member # Absent /\ a.member.active /\ mine

\* A row of show_inbox, and the check of observation_action on a message of a
\* chat bound to a house and a category.
InInbox(a, r) == Known(a) /\ Loads(a, "create") /\ InPredicates(a, r)
MessageOpens(a, r) == Known(a) /\ Loads(a, "create") /\ InScope(a, r)

\* The houses and the categories of the menus that lead to a request.
Offered(a, r) ==
    /\ Known(a) /\ Loads(a, "create")
    /\ r[1] \in HousePredicate(a) /\ r[2] \in CategoryPredicate(a)

\* create_manual_request in an organization that has its first status, then
\* visible_task in the same transaction.
CreationAccepted(a, r) == Known(a) /\ Loads(a, "create") /\ InScope(a, r) /\ Opens(a, r)

\* task_card's buttons: results, and the list of candidates.
OffersResults(a, r, mine) ==
    Opens(a, r) /\ (IsOwner(a) \/ ("update" \in a.role /\ a.member # Absent /\ mine))
OffersCandidates(a, r) == Opens(a, r) /\ (IsOwner(a) \/ "assign" \in a.role)

\* report_progress, for a user the event was taken from.
MayReport(a, r, mine) ==
    /\ Reaches(a, r) /\ Loads(a, "update")
    /\ IsOwner(a) \/ (a.member # Absent /\ a.member.active /\ mine)

\* A result and the entry to the candidates, if nothing changed meanwhile.
ReportAccepted(a, r, mine) == Known(a) /\ MayReport(a, r, mine)
CandidatesAccepted(a, r) == Opens(a, r) /\ Loads(a, "assign")

\* The scope of the membership itself, also for an owner's.
MemberInScope(a, r) ==
    /\ a.member.area \in {AnyArea, AreaOf[r[1]]}
    /\ a.member.allHouses \/ r[1] \in a.member.houses
    /\ a.member.allCategories \/ r[2] \in a.member.categories

\* The user is among the candidates; assign_request accepts the user.
IsCandidate(a, r) ==
    a.listed # "out" /\ Readable(a) /\ {"view", "update"} \subseteq a.role /\ MemberInScope(a, r)

AssignAccepted(a, r) ==
    /\ a.listed # "out" /\ a.enabled
    /\ Readable(a) /\ {"view", "update"} \subseteq a.role /\ MemberInScope(a, r)

\* The access stamp: what an employee's access is computed from.
Stamp(a) == IF IsOwner(a) THEN <<>>
            ELSE IF a.member = Absent THEN <<Absent>> ELSE <<a.member, a.role>>
================================================================================
