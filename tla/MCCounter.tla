------------------------------ MODULE MCCounter ------------------------------
(* Instances of Counter for TLC: sales whose lines meet the same products in *)
(* opposite order, name a product twice, or name none.                       *)
EXTENDS Counter, TLC

CONSTANTS cable, lamp

Line(p, n) == [product |-> p, units |-> n]
CrossingCarts ==
  {<<Line(cable, 1), Line(lamp, 1)>>, <<Line(lamp, 1), Line(cable, 1)>>,
   <<Line(cable, 1), Line(OneOff, 1), Line(cable, 1)>>}
Movements == {-1, 2}

\* Whom a till names decides who may open another, and nothing else: one that
\* names nobody is followed up to the first sale.
Explored ==
  \A t \in TillId :
    till[t] \in [status : {"open", "closed"}, by : {{}}] => \A s \in SaleId : sale[s] = NoSale

Symmetry == Permutations(Workers)
=============================================================================
