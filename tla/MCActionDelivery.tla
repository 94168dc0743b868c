-------------------------- MODULE MCActionDelivery --------------------------
(* A request and its retry, one that reuses the key for another action, and *)
(* one with another key.                                                    *)
EXTENDS ActionDelivery, TLC

CONSTANTS r1, r2, r3, r4, k1, k2, b1, b2

MCKeyOf  == r1 :> k1 @@ r2 :> k1 @@ r3 :> k1 @@ r4 :> k2
MCBodyOf == r1 :> b1 @@ r2 :> b1 @@ r3 :> b2 @@ r4 :> b1

\* A request, its retry and one with another key.
FewKeyOf  == r1 :> k1 @@ r2 :> k1 @@ r4 :> k2
FewBodyOf == r1 :> b1 @@ r2 :> b1 @@ r4 :> b1

Symmetry == Permutations({r1, r2})

=============================================================================
