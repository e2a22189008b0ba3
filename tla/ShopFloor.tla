------------------------------ MODULE ShopFloor ------------------------------
(***************************************************************************)
(* What the shop promises, without handlers, transactions or row locks: a  *)
(* sale takes all of its goods at once or does not happen, and nothing is  *)
(* taken that is not there, or no longer on offer.  Counter implements     *)
(* this.                                                                   *)
(***************************************************************************)
EXTENDS Integers, Sequences, Functions

CONSTANTS
  Goods,  \* what may be on the shelf
  Bills,  \* lists of lines a sale may have
  Slots   \* sales

VARIABLES
  offered,  \* the goods that may be sold now
  onHand,   \* onHand[g]: how much of g is on the shelf
  bill      \* bill[s]: the lines of sale s, <<>> while there is none

sfvars == <<offered, onHand, bill>>

\* What a list of lines comes to of g.
Wanted(lines, g) ==
  SumFunction([i \in DOMAIN lines |->
                 IF lines[i].product = g THEN lines[i].units ELSE 0])

SFInit ==
  /\ offered \subseteq Goods
  /\ onHand = [g \in Goods |-> 0]
  /\ bill = [s \in Slots |-> <<>>]

Ring(s, lines) ==
  /\ bill[s] = <<>> /\ lines # <<>>
  /\ bill' = [bill EXCEPT ![s] = lines]
  /\ \A g \in Goods : Wanted(lines, g) <= onHand[g]
  /\ \A g \in Goods : Wanted(lines, g) > 0 => g \in offered
  /\ onHand' = [g \in Goods |-> onHand[g] - Wanted(lines, g)]
  /\ UNCHANGED offered

\* Nothing but g is put on the shelf or taken off it.
Moves(g) == onHand' = [onHand EXCEPT ![g] = onHand'[g]]

\* Goods on offer are counted, written off or brought in.
Restock(g) ==
  /\ g \in offered
  /\ Moves(g) /\ onHand'[g] \in Nat
  /\ UNCHANGED <<offered, bill>>

\* A figure from before there was a ledger is added, whether the goods are still
\* on offer or not.
CarryOver(g) ==
  /\ Moves(g) /\ onHand'[g] > onHand[g]
  /\ UNCHANGED <<offered, bill>>

Offer(g) ==
  /\ offered' = offered \cup {g}
  /\ UNCHANGED <<onHand, bill>>

Withdraw(g) ==
  /\ offered' = offered \ {g}
  /\ UNCHANGED <<onHand, bill>>

SFNext ==
  \/ \E s \in Slots, lines \in Bills : Ring(s, lines)
  \/ \E g \in Goods : Restock(g) \/ CarryOver(g) \/ Offer(g) \/ Withdraw(g)

SFSpec == SFInit /\ [][SFNext]_sfvars
=============================================================================
