--------------------------------- MODULE Picked ---------------------------------
(*****************************************************************************)
(* The list comprehensions of the services: some elements of a list, in the  *)
(* order they have in it.                                                    *)
(*****************************************************************************)
EXTENDS Naturals, FiniteSets

\* The elements at these positions.
Kept(seq, at) ==
    [n \in 1 .. Cardinality(at) |-> seq[CHOOSE i \in at : Cardinality({j \in at : j <= i}) = n]]

\* The elements of which Test is true.
KeptIf(seq, Test(_)) == Kept(seq, {i \in DOMAIN seq : Test(seq[i])})
===============================================================================
