--------------------------- MODULE CatalogAccessMC ---------------------------
EXTENDS CatalogAccess, TLC

CONSTANTS r1, h1, h2, a1, a2, chosen

Employee(n, a, S) == "name" :> n @@ "area" :> a @@ "houses" :> S @@ "role" :> r1

\* Two houses, and creations with and without an area.
MCCreations == {Employee(Placeholder, AnyArea, {}), Employee(Placeholder, a1, {h1})}

MCPatches ==
    {"area" :> a1, "area" :> AnyArea, "houses" :> {h1}, "houses" :> {h2},
     "name" :> chosen, "permissions" :> {}, "permissions" :> {"requests.view"}}

MCRoleValues == [r \in Roles |-> "permissions" :> {}]

Symmetry == Permutations(Transactions)
=============================================================================
