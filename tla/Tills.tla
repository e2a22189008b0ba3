-------------------------------- MODULE Tills --------------------------------
(***************************************************************************)
(* Shifts at the counter: a till opened with a float, the sales that belong*)
(* to it, and the count of its drawer that closes it (AdminOpenTill to     *)
(* resolveSession in src/internal/handlers/counter.go).                    *)
(*                                                                         *)
(* What a sale does to the stock is the subject of Counter: here it is     *)
(* stored whole or not at all.  Money is in whole ngwee, and what a        *)
(* customer tenders only decides whether there is a sale.                  *)
(***************************************************************************)
EXTENDS Integers, Sequences

CONSTANTS
  Operators,          \* users at the counter
  Money,              \* floats, counts and the totals of sales
  Methods,            \* payment methods
  Tellers,            \* slots for requests running at once
  MaxTills, MaxSales  \* bounds: tills opened, sales stored

ASSUME TillBounds ==
  /\ Money \subseteq Nat /\ "cash" \in Methods
  /\ MaxTills \in Nat /\ MaxSales \in Nat

VARIABLES
  tills,    \* till_sessions rows, in the order opened: who opened one, and whether
            \* its row says so (opened_by_id)
  takings,  \* takings[t][m]: sum of the counter_sales rows of till t paid by m
  sold,     \* how many of those rows there are
  teller,   \* teller[r]: locals of a request
  shown,    \* history: shown[t]: variance that closing till t was answered with
  queued    \* history: no two requests have run at once so far

tvars == <<tills, takings, sold, teller, shown, queued>>

NoTeller == [pc |-> "none"]
Uncounted == -1

TillsTypeOK ==
  /\ tills \in Seq([by : Operators, named : BOOLEAN, float : Money,
                    status : {"open", "closed"}, counted : Money \cup {Uncounted}])
  /\ Len(tills) <= MaxTills /\ sold \in 0 .. MaxSales
  /\ takings \in [1 .. MaxTills -> [Methods -> Nat]]
  /\ \A t \in DOMAIN tills : (tills[t].status = "closed") = (tills[t].counted # Uncounted)
  /\ \A r \in Tellers : teller[r].pc \in {"close", "total", "sell"} =>
       teller[r].till \in DOMAIN tills

TillsInit ==
  /\ tills = <<>> /\ sold = 0
  /\ takings = [t \in 1 .. MaxTills |-> [m \in Methods |-> 0]]
  /\ teller = [r \in Tellers |-> NoTeller]
  /\ shown = [t \in 1 .. MaxTills |-> {}] /\ queued = TRUE

-----------------------------------------------------------------------------
Tells(r, t) == teller' = [teller EXCEPT ![r] = t]
Idle(r) == teller[r] = NoTeller

Serves(r, t) ==
  /\ Idle(r)
  /\ Tells(r, t)
  /\ queued' = (queued /\ \A q \in Tellers : Idle(q))
  /\ UNCHANGED <<tills, takings, sold, shown>>

Open(t) == t \in DOMAIN tills /\ tills[t].status = "open"

\* openSessionFor: the open till that names an operator, the latest of them, or 0.
OpenAs(t, u) == Open(t) /\ tills[t].named /\ tills[t].by = u

OpenFor(u) ==
  LET own == {t \in DOMAIN tills : OpenAs(t, u)} IN
  IF own = {} THEN 0 ELSE CHOOSE t \in own : \A o \in own : o <= t

(* AdminOpenTill *)

BeginOpenTill(r, u, float) ==
  /\ OpenFor(u) = 0
  /\ Serves(r, [pc |-> "open", by |-> u, float |-> float])

\* The user is looked up, and if that fails the till is opened without a name.
OpenTill(r) ==
  LET t == teller[r] IN
  /\ t.pc = "open" /\ Len(tills) < MaxTills
  /\ \E named \in BOOLEAN :
       tills' = Append(tills, [by |-> t.by, named |-> named, float |-> t.float,
                               status |-> "open", counted |-> Uncounted])
  /\ Tells(r, NoTeller)
  /\ UNCHANGED <<takings, sold, shown, queued>>

(* AdminCreateCounterSale, the till's side of it *)

\* Mutant of Sells: a till that is named need not be open.
SellsNamed(u, t) == t \in DOMAIN tills \/ t = OpenFor(u)

\* resolveSession: the open till that is named, or the operator's own.
Sells(u, t) == Open(t) \/ (t = OpenFor(u) /\ t # 0)

BeginSale(r, u, t, total, m) ==
  /\ Sells(u, t)
  /\ Serves(r, [pc |-> "sell", till |-> t, total |-> total, method |-> m])

\* The till is not looked at again.
CommitSale(r) ==
  LET t == teller[r] IN
  /\ t.pc = "sell" /\ sold < MaxSales
  /\ sold' = sold + 1
  /\ takings' = [takings EXCEPT ![t.till][t.method] = @ + t.total]
  /\ Tells(r, NoTeller)
  /\ UNCHANGED <<tills, shown, queued>>

(* AdminCloseTill *)

\* tillSummaryJSON: cash alone is in the drawer.
ExpectedCash(t) == tills[t].float + takings[t]["cash"]
Variance(t) == tills[t].counted - ExpectedCash(t)

BeginCloseTill(r, t, counted) ==
  /\ Open(t)
  /\ Serves(r, [pc |-> "close", till |-> t, counted |-> counted])

CloseTill(r) ==
  LET t == teller[r] IN
  /\ t.pc = "close"
  /\ tills' = [tills EXCEPT ![t.till].status = "closed", ![t.till].counted = t.counted]
  /\ Tells(r, [pc |-> "total", till |-> t.till])
  /\ UNCHANGED <<takings, sold, shown, queued>>

TotalTill(r) ==
  LET t == teller[r] IN
  /\ t.pc = "total"
  /\ shown' = [shown EXCEPT ![t.till] = @ \cup {Variance(t.till)}]
  /\ Tells(r, NoTeller)
  /\ UNCHANGED <<tills, takings, sold, queued>>

\* The stock does not allow the sale, a statement fails or the replica dies.
DropTeller(r) ==
  /\ ~Idle(r)
  /\ Tells(r, NoTeller)
  /\ UNCHANGED <<tills, takings, sold, shown, queued>>

TillsNext ==
  \E r \in Tellers :
    \/ \E u \in Operators, x \in Money :
         \/ BeginOpenTill(r, u, x)
         \/ \E t \in DOMAIN tills, m \in Methods : BeginSale(r, u, t, x, m)
    \/ \E t \in DOMAIN tills, x \in Money : BeginCloseTill(r, t, x)
    \/ OpenTill(r) \/ CommitSale(r) \/ CloseTill(r) \/ TotalTill(r)
    \/ DropTeller(r)

TillsSpec == TillsInit /\ [][TillsNext]_tvars

-----------------------------------------------------------------------------
\* "Every sale belongs to a shift, or the drawer cannot be reconciled", and "One
\* open session per operator" as far as rows say who opened them (AdminOpenTill,
\* AdminCreateCounterSale): while requests take turns, no two open tills name the
\* same operator, and the variance a drawer was closed with is the one its sales
\* add up to ever after.
DrawerReconcilesInTurn ==
  queued =>
    /\ \A s, t \in DOMAIN tills : \A u \in Operators :
         OpenAs(s, u) /\ OpenAs(t, u) => s = t
    /\ \A t \in DOMAIN tills : shown[t] \subseteq {Variance(t)}

\* "One open session per operator.  Two would split a shift's takings across two
\* counts, and neither would reconcile" (AdminOpenTill): while requests take turns,
\* two open tills were opened by two operators.
OneTillPerOperatorInTurn ==
  queued =>
    \A s, t \in DOMAIN tills :
      Open(s) /\ Open(t) /\ tills[s].by = tills[t].by => s = t
=============================================================================
