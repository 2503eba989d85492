----------------------------- MODULE TaskCardsMC -----------------------------
(* An instance of TaskCards for TLC: an area with two houses, a request.    *)
EXTENDS TaskCards, TLC

CONSTANTS h1, h2, a1, c1

Area == (h1 :> a1) @@ (h2 :> a1)
OneTask == {<<h2, c1>>}

\* An employee who may be sent to one house, or has the whole area.
Employee(houses, everywhere, rights) ==
    [listed |-> "employee", enabled |-> TRUE, role |-> rights,
     member |-> [active |-> TRUE, area |-> a1, allHouses |-> everywhere, allCategories |-> TRUE,
                 houses |-> houses, categories |-> {}]]

\* Everything, one house, no more than looking on, and a disabled account.
FourGrants ==
    {Employee({}, TRUE, Rights), Employee({h1}, FALSE, {"view", "update"}),
     Employee({}, TRUE, {"view"}), [Employee({}, TRUE, Rights) EXCEPT !.enabled = FALSE]}

SessionSymmetry == Permutations(Sessions)
=============================================================================
