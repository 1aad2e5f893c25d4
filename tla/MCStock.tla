------------------------------ MODULE MCStock ------------------------------
(***************************************************************************)
(* Small instances of Stock for TLC.                                        *)
(***************************************************************************)
EXTENDS Stock, TLC

CONSTANTS flour, milk, s1, s2

Need(x, n) == [product |-> x, need |-> n]

\* Two lots of flour, one of milk: FEFO has a choice, and two plans meet the
\* products in opposite orders.
TwoProducts == 1 :> flour @@ 2 :> flour @@ 3 :> milk
OneProduct  == [l \in {1, 2} |-> flour]

\* Two recipes or sales that need both products, in opposite orders; the
\* second one asks for flour twice.
CrossingPlans == {<<Need(flour, 2), Need(milk, 1)>>,
                  <<Need(milk, 1), Need(flour, 1), Need(flour, 1)>>}
\* Consumptions of a single product.
SinglePlans == {<<Need(flour, n)>> : n \in {1, 2}}

\* The request schemas check no sign: a manual-out may carry a negative quantity.
SignedQuantities == {-1, 1}

Symmetry == Permutations(Sessions)
=============================================================================
