---------------------------- MODULE MCAccessGrid ----------------------------
(* Small instances of AccessGrid for TLC. *)
EXTENDS AccessGrid, TLC

CONSTANTS ann, web, shop, pull, backup, req1, req2

\* Users are interchangeable as far as Unlinkable treats them alike.
SameUsers == {f \in Permutations(Users) : \A u \in Users : u \in Unlinkable <=> f[u] \in Unlinkable}
Symmetry == SameUsers \union Permutations(Actions) \union Permutations(Workers)

OneOfEach == (web :> "client") @@ (shop :> "absent")
Normal == (web :> "normal")
Client == (web :> "client")
NewOnly == (web :> "absent")

\* Any change of role.
AnyMove == Roles \X Roles \ {<<r, r>> : r \in Roles}
Join == {<<"none", "dev">>}
None == {}
=============================================================================
