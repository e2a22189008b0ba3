------------------------------ MODULE LandedCost ------------------------------
(***************************************************************************)
(* The landed cost of one goods receipt: charges are booked against it,    *)
(* with the goods or weeks later, and each booking apportions all of them  *)
(* over its lines anew (src/internal/services/landedcost.go, and           *)
(* AdminAddLandedCostComponent in handlers/purchasing.go).                 *)
(*                                                                         *)
(* Amounts are whole ngwee, the unit the apportionment works in.  A        *)
(* booking is one transaction: it stores its charge, reads the charges     *)
(* that are committed and its own, and overwrites the shares of every      *)
(* line; another booking's UPDATE waits for its commit.                    *)
(***************************************************************************)
EXTENDS Integers, Sequences, FiniteSets, Functions

CONSTANTS
  Bases,       \* weight vectors of the receipt: one number per line
  Amounts,     \* amounts of a charge
  Clerks,      \* slots for bookings running at once
  MaxCharges,  \* bound: charges booked
  MaxInt       \* largest value of an int64

ASSUME LandedBounds ==
  /\ Amounts \subseteq Nat /\ MaxCharges \in Nat /\ MaxInt \in Nat
  /\ \A b \in Bases : b # <<>> /\ b \in Seq(Nat)
  \* Within these figures no product total * weight leaves the int64 range.
  /\ \A b \in Bases, a \in Amounts : \A i \in DOMAIN b :
       MaxCharges * a * b[i] <= MaxInt

VARIABLES
  basis,        \* the receipt's weights, zero for a line nobody keyed one for
  charge,       \* landed_cost_components rows, in the order they committed
  apportioned,  \* apportioned_zmw of each line, which the unit cost of its
                \* stock movement carries; <<>> before the goods arrive
  clerk,        \* clerk[w]: locals of a booking
  orderly       \* history: no two bookings have run at once so far

lvars == <<basis, charge, apportioned, clerk, orderly>>

NotBooking == [pc |-> "free"]

LandedTypeOK ==
  /\ basis \in Bases
  /\ charge \in Seq(Amounts)
  /\ apportioned \in {<<>>} \cup [DOMAIN basis -> Nat]
  /\ clerk \in [Clerks -> [pc : {"read"}, amount : Amounts]
                          \cup [pc : {"write"}, amount : Amounts, total : Nat]
                          \cup {NotBooking}]
  /\ orderly \in BOOLEAN

LandedInit ==
  /\ basis \in Bases
  /\ charge = <<>>
  /\ apportioned = <<>>
  /\ clerk = [w \in Clerks |-> NotBooking]
  /\ orderly = TRUE

-----------------------------------------------------------------------------
(* ApportionNgwee *)

\* No weight to go on: an even split.
Effective(w) == IF SumFunction(w) = 0 THEN [i \in DOMAIN w |-> 1] ELSE w

Floor(total, w, i) == (total * w[i]) \div SumFunction(w)
Remainder(total, w, i) == (total * w[i]) % SumFunction(w)

\* What floor division leaves behind.
Left(total, w) ==
  total - SumFunction([i \in DOMAIN w |-> Floor(total, w, i)])

\* Largest remainder first, and on a tie the earlier line.
Before(total, w, i, j) ==
  \/ Remainder(total, w, i) > Remainder(total, w, j)
  \/ Remainder(total, w, i) = Remainder(total, w, j) /\ i < j

\* The lines that get one ngwee more: the first Left of them.
HandedOut(total, w, i) ==
  Cardinality({j \in DOMAIN w : Before(total, w, j, i)}) < Left(total, w)

Apportion(total, weights) ==
  LET w == Effective(weights) IN
  [i \in DOMAIN w |->
     Floor(total, w, i) + IF HandedOut(total, w, i) THEN 1 ELSE 0]

-----------------------------------------------------------------------------
(* AdminReceiveGoods, as far as its charges go: one transaction on rows nobody
   else knows of. *)
Arrive(first) ==
  /\ apportioned = <<>>
  /\ charge' = first
  /\ apportioned' = Apportion(SumFunction(first), basis)
  /\ UNCHANGED <<basis, clerk, orderly>>

(* AdminAddLandedCostComponent *)

\* The receipt is found; the transaction begins and stores its charge.
BeginBooking(w, a) ==
  /\ clerk[w] = NotBooking
  /\ apportioned # <<>> /\ Len(charge) < MaxCharges
  /\ clerk' = [clerk EXCEPT ![w] = [pc |-> "read", amount |-> a]]
  /\ orderly' = (orderly /\ \A o \in Clerks : clerk[o] = NotBooking)
  /\ UNCHANGED <<basis, charge, apportioned>>

\* Mutant of Visible: the charge being booked is left out.
VisibleCommitted(w) == SumFunction(charge)

Visible(w) == SumFunction(charge) + clerk[w].amount

\* recostReceipt adds up the charges it can see.
ReadCharges(w) ==
  /\ clerk[w].pc = "read"
  /\ clerk' = [clerk EXCEPT ![w] =
       [pc |-> "write", amount |-> clerk[w].amount, total |-> Visible(w)]]
  /\ UNCHANGED <<basis, charge, apportioned, orderly>>

\* The lines, the unit costs of their movements, and the commit.
CommitBooking(w) ==
  /\ clerk[w].pc = "write"
  /\ Len(charge) < MaxCharges
  /\ charge' = Append(charge, clerk[w].amount)
  /\ apportioned' = Apportion(clerk[w].total, basis)
  /\ clerk' = [clerk EXCEPT ![w] = NotBooking]
  /\ UNCHANGED <<basis, orderly>>

\* A statement fails or the replica dies: the transaction is rolled back.
AbortBooking(w) ==
  /\ clerk[w] # NotBooking
  /\ clerk' = [clerk EXCEPT ![w] = NotBooking]
  /\ UNCHANGED <<basis, charge, apportioned, orderly>>

LandedNext ==
  \/ Arrive(<<>>)
  \/ \E a \in Amounts : Arrive(<<a>>)
  \/ \E w \in Clerks :
       \/ \E a \in Amounts : BeginBooking(w, a)
       \/ ReadCharges(w) \/ CommitBooking(w) \/ AbortBooking(w)

LandedSpec == LandedInit /\ [][LandedNext]_lvars

-----------------------------------------------------------------------------
Spread == SumFunction(apportioned)

\* "The shares always add back to exactly what you were charged", and "a late
\* invoice is fine" (USER-MANUAL.md, recostReceipt).
SharesAddBack == apportioned # <<>> => Spread = SumFunction(charge)

\* However bookings overlap, the lines carry one apportionment, to the ngwee,
\* of charges that were booked, the latest to commit among them
\* (recostReceipt).
SharesOfOneView ==
  charge # <<>> =>
    \E S \in SUBSET DOMAIN charge :
      Len(charge) \in S /\ Spread = SumFunctionOnSet(charge, S)

\* No line is a whole ngwee away from its proportion, a heavier line never
\* bears less than a lighter one, and of equal lines the earlier bears what
\* cannot be split (ApportionNgwee).
SharesAreFair ==
  LET w == Effective(basis)
      W == SumFunction(w)
  IN
  \A i, j \in DOMAIN apportioned :
    /\ apportioned[i] * W < Spread * w[i] + W
    /\ apportioned[i] * W > Spread * w[i] - W
    /\ w[i] > w[j] => apportioned[i] >= apportioned[j]
    /\ w[i] = w[j] /\ i < j => apportioned[i] \in {apportioned[j], apportioned[j] + 1}

\* What the lines of a receipt bear: shares that are fair, of one view of the
\* charges, which is all of them while bookings run one after another, whatever
\* the weights.
SharesStand == SharesAreFair /\ SharesOfOneView /\ (orderly => SharesAddBack)

-----------------------------------------------------------------------------
\* The lines bear the apportionment of some of the charges, the latest among
\* them, and a booking writes that of some of them and its own; while bookings
\* run one after another it is all of them.
LinesInv ==
  IF apportioned = <<>>
  THEN charge = <<>> /\ \A w \in Clerks : clerk[w] = NotBooking
  ELSE \E S \in SUBSET DOMAIN charge :
         /\ apportioned = Apportion(SumFunctionOnSet(charge, S), basis)
         /\ charge # <<>> => Len(charge) \in S
         /\ orderly => S = DOMAIN charge

BookingsInv ==
  /\ \A w \in Clerks : clerk[w].pc = "write" =>
       \E S \in SUBSET DOMAIN charge :
         /\ clerk[w].total = SumFunctionOnSet(charge, S) + clerk[w].amount
         /\ orderly => S = DOMAIN charge
  /\ orderly => \A v, w \in Clerks :
       clerk[v] # NotBooking /\ clerk[w] # NotBooking => v = w

LandedInv == LandedTypeOK /\ LinesInv /\ BookingsInv
=============================================================================
