------------------------------ MODULE Receiving ------------------------------
(***************************************************************************)
(* What receiving goods promises, without handlers, transactions or row    *)
(* locks: a delivery comes in whole and at once, for an order that has     *)
(* been issued, against a version of its lines, and everything it brings   *)
(* goes onto the shelf of a product that is still kept.  How much may come *)
(* in is not promised: two receipts may be held against the same           *)
(* outstanding quantity.  Purchasing implements this.                      *)
(***************************************************************************)
EXTENDS Integers, Sequences, Functions

CONSTANTS
  Orders,    \* purchase orders
  Goods,     \* the catalogue
  Untracked, \* stands for the product of a line that has none
  Versions,  \* numbers of versions of an order's lines
  Positions, \* numbers of lines
  Lists,     \* Lists[o]: what may be written as the lines of o
  Batches    \* units of a delivery, by line

VARIABLES
  written,  \* written[o]: the versions of o's lines, oldest first
  issued,   \* the orders that were issued
  came,     \* came[o][v][k]: units that came in against line k of version v
  onShelf,  \* onShelf[g]: units of g put on the shelf
  kept      \* the products that have not been deleted

rcvars == <<written, issued, came, onShelf, kept>>

RcInit ==
  /\ written = [o \in Orders |-> <<>>]
  /\ issued = {}
  /\ came = [o \in Orders |-> [v \in Versions |-> [k \in Positions |-> 0]]]
  /\ onShelf = [g \in Goods |-> 0]
  /\ kept = Goods

Write(o, l) ==
  /\ written' = [written EXCEPT ![o] = Append(@, l)]
  /\ UNCHANGED <<issued, came, onShelf, kept>>

IssueTo(o) ==
  /\ written[o] # <<>>
  /\ issued' = issued \cup {o}
  /\ UNCHANGED <<written, came, onShelf, kept>>

\* What units of the lines come to of g.
Amount(lines, units, g) ==
  SumFunction([k \in DOMAIN lines |->
                 IF lines[k].product = g THEN units[k] ELSE 0])

Receive(o, v, units) ==
  LET lines == written[o][v].lines IN
  /\ o \in issued /\ v \in DOMAIN written[o]
  /\ \A k \in Positions : units[k] > 0 =>
       k \in DOMAIN lines /\ lines[k].product \in kept \cup {Untracked}
  /\ came' = [came EXCEPT ![o][v] = [k \in Positions |-> @[k] + units[k]]]
  /\ onShelf' = [g \in Goods |-> onShelf[g] + Amount(lines, units, g)]
  /\ UNCHANGED <<written, issued, kept>>

Discontinue(g) ==
  /\ kept' = kept \ {g}
  /\ UNCHANGED <<written, issued, came, onShelf>>

RcNext ==
  \/ \E o \in Orders :
       \/ \E l \in Lists[o] : Write(o, l)
       \/ IssueTo(o)
       \/ \E v \in Versions, units \in Batches : Receive(o, v, units)
  \/ \E g \in Goods : Discontinue(g)

RcSpec == RcInit /\ [][RcNext]_rcvars
=============================================================================
