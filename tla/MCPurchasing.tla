---------------------------- MODULE MCPurchasing ----------------------------
(* Instances of Purchasing for TLC: an order that needs approval and may    *)
(* grow, and one below the threshold beside it for the numbering;           *)
(* receipts that bring a line in parts, twice in one request, or two lines  *)
(* the second of which may fail.                                            *)
EXTENDS Purchasing, TLC

CONSTANTS lamp, main, other

Goods(p, n) == [product |-> p, quantity |-> n]
Small(n) == [lines |-> <<Goods(lamp, 1)>>, worth |-> n]
Large == [lines |-> <<Goods(NoProduct, 2), Goods(lamp, 1)>>, worth |-> 3]
MainGrows == [o \in Orders |-> IF o = main THEN {Small(2), Large}
                                 ELSE {Small(1)}]
MainLarge == [o \in Orders |-> {Large}]

Arrival(k, n) == [line |-> k, quantity |-> n]
InParts == {<<Arrival(1, 1)>>, <<Arrival(1, 1), Arrival(1, 1)>>,
            <<Arrival(1, 1), Arrival(2, 1)>>}
LineByLine == {<<Arrival(1, 2)>>, <<Arrival(2, 1)>>}

\* Handlers overlap on one order, asked for once, and nothing fails; or they
\* take turns on two while the catalogue stays as it is.
Explored ==
  /\ ~serial => ~Exists(other) /\ faults = 0 /\ Len(asks[main]) < 2
  /\ Exists(other) => product[lamp] = "live"

Symmetry == Permutations(Workers)
=============================================================================
