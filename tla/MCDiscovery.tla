---------------------------- MODULE MCDiscovery ----------------------------
(* Instances of Discovery for TLC.  A host with two units that may share   *)
(* the one domain, and a host where none is left.                          *)
EXTENDS Discovery

CONSTANTS h, g, a, b, x, p, q

TwoUnits == h :> <<a, b>>
Uneven == h :> <<a, b>> @@ g :> <<>>

Symmetry == Permutations(Scans)

Typed == {Plain(x), Suffixed(x, b, 1)}
=============================================================================
