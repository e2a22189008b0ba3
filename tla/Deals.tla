-------------------------------- MODULE Deals --------------------------------
(***************************************************************************)
(* The deals of the sales pipeline: creating, editing, deleting them, and  *)
(* the conversion of a quote request into one                              *)
(* (src/internal/handlers/handlers.go).                                    *)
(*                                                                         *)
(* Closing a deal as won is gated on its value.  Of the gate, the subject  *)
(* of Approvals, this module has what it answers: a closing worth at least *)
(* Threshold spends an approval of that deal that covers it, or is refused.    *)
(***************************************************************************)
EXTENDS Integers, Sequences

CONSTANTS
  Values,    \* values a deal may have
  Threshold, \* the rule for closing as won holds from here on
  Lists,     \* lists of line items somebody may send
  Same,      \* what an edit says of a field it leaves alone
  Sellers,   \* slots for requests running at once
  MaxDeals   \* bound: deals created

ASSUME DealBounds ==
  /\ Values \subseteq Nat /\ 0 \in Values /\ Same \notin Values \cup Lists
  /\ Threshold \in Nat /\ MaxDeals \in Nat

VARIABLES
  deals,       \* opportunities rows, in creation order; lines are the lists whose
               \* line items are stored
  quote,       \* status of a quote request
  granted,     \* granted[i]: amounts of the unspent approvals for closing deal i
  edit,        \* edit[s]: locals of a request
  oneAtATime   \* history: no two requests have run at once so far

dvars == <<deals, quote, granted, edit, oneAtATime>>

NoEdit == [pc |-> "none"]
Phases == {"open", "won", "lost"}
Changes == [stage : Phases \cup {Same}, value : Values \cup {Same},
            lines : Lists \cup {Same}]

DealsTypeOK ==
  /\ deals \in Seq([stage : Phases, value : Values, lines : SUBSET Lists, live : BOOLEAN])
  /\ Len(deals) <= MaxDeals
  /\ quote \in {"new", "converted"}
  /\ granted \in [1 .. MaxDeals -> SUBSET {v \in Values : v >= Threshold}]
  /\ \A s \in Sellers : edit[s].pc \in {"write", "clear", "add"} =>
       edit[s].of \in DOMAIN deals /\ edit[s].change \in Changes

DealsInit ==
  /\ deals = <<>> /\ quote = "new"
  /\ granted = [i \in 1 .. MaxDeals |-> {}]
  /\ edit = [s \in Sellers |-> NoEdit] /\ oneAtATime = TRUE

-----------------------------------------------------------------------------
Holds(s, t) == edit' = [edit EXCEPT ![s] = t]
NobodyEdits == \A s \in Sellers : edit[s] = NoEdit

\* matchRule, for closing as won.
Gated(value) == value >= Threshold

NewDeal(stage, value, lines) ==
  /\ Len(deals) < MaxDeals
  /\ deals' = Append(deals, [stage |-> stage, value |-> value, lines |-> lines, live |-> TRUE])

\* AdminCreateOpportunity: not as won where closing would be gated.
CreateDeal(stage, value, lines) ==
  /\ ~(stage = "won" /\ Gated(value))
  /\ NewDeal(stage, value, lines)
  /\ UNCHANGED <<quote, granted, edit, oneAtATime>>

(* AdminConvertQuote, which does not ask whether it has been converted *)

ConvertQuote(s) ==
  /\ edit[s] = NoEdit
  /\ NewDeal("open", 0, {})
  /\ Holds(s, [pc |-> "mark"])
  /\ oneAtATime' = (oneAtATime /\ NobodyEdits)
  /\ UNCHANGED <<quote, granted>>

MarkConverted(s) ==
  /\ edit[s].pc = "mark"
  /\ quote' = "converted"
  /\ Holds(s, NoEdit)
  /\ UNCHANGED <<deals, granted, oneAtATime>>

\* The approvers decide on a refused closing.
Grant(i, amount) ==
  /\ Gated(amount)
  /\ granted' = [granted EXCEPT ![i] = @ \cup {amount}]
  /\ UNCHANGED <<deals, quote, edit, oneAtATime>>

(* AdminUpdateOpportunity *)

Closes(i, change) == change.stage = "won" /\ deals[i].stage # "won"

\* Mutant of WorthAfter: what the deal is worth before the request.
WorthBefore(i, change) == deals[i].value

WorthAfter(i, change) == IF change.value = Same THEN deals[i].value ELSE change.value

\* gate: nothing to approve, which is written -1, or the approval that was spent.
Admits(i, change, approval) ==
  IF Closes(i, change) /\ Gated(WorthAfter(i, change))
  THEN approval \in granted[i] /\ approval >= WorthAfter(i, change)
  ELSE approval = -1

BeginEdit(s, i, change, approval) ==
  /\ edit[s] = NoEdit /\ deals[i].live
  /\ Admits(i, change, approval)
  /\ granted' = [granted EXCEPT ![i] = @ \ {approval}]
  /\ Holds(s, [pc |-> "write", of |-> i, change |-> change, approval |-> approval])
  /\ oneAtATime' = (oneAtATime /\ NobodyEdits)
  /\ UNCHANGED <<deals, quote>>

\* Only the fields that were sent; the UPDATE finds no row of a deleted deal.
WriteDeal(s) ==
  LET c == edit[s].change i == edit[s].of IN
  /\ edit[s].pc = "write"
  /\ deals' = IF ~deals[i].live THEN deals
              ELSE [deals EXCEPT
                      ![i].stage = IF c.stage = Same THEN @ ELSE c.stage,
                      ![i].value = IF c.value = Same THEN @ ELSE c.value]
  /\ Holds(s, IF c.lines = Same THEN NoEdit ELSE [edit[s] EXCEPT !.pc = "clear"])
  /\ UNCHANGED <<quote, granted, oneAtATime>>

\* The line items sent replace the stored ones, in two statements that may fail
\* unnoticed; the buying committee is replaced likewise.
ClearLines(s) ==
  /\ edit[s].pc = "clear"
  /\ deals' \in {deals, [deals EXCEPT ![edit[s].of].lines = {}]}
  /\ Holds(s, [edit[s] EXCEPT !.pc = "add"])
  /\ UNCHANGED <<quote, granted, oneAtATime>>

AddLines(s) ==
  /\ edit[s].pc = "add"
  /\ deals' \in {deals, [deals EXCEPT ![edit[s].of].lines = @ \cup {edit[s].change.lines}]}
  /\ Holds(s, NoEdit)
  /\ UNCHANGED <<quote, granted, oneAtATime>>

\* AdminDeleteOpportunity, past its own gate.
DeleteDeal(i) ==
  /\ deals[i].live
  /\ deals' = [deals EXCEPT ![i].live = FALSE]
  /\ oneAtATime' = (oneAtATime /\ NobodyEdits)
  /\ UNCHANGED <<quote, granted, edit>>

\* A statement fails or the replica dies.
DropEdit(s) ==
  /\ edit[s] # NoEdit
  /\ Holds(s, NoEdit)
  /\ UNCHANGED <<deals, quote, granted, oneAtATime>>

DealsNext ==
  \/ \E p \in Phases, v \in Values :
       CreateDeal(p, v, {}) \/ \E l \in Lists : CreateDeal(p, v, {l})
  \/ \E i \in DOMAIN deals :
       \/ DeleteDeal(i)
       \/ \E a \in Values : Grant(i, a)
       \/ \E s \in Sellers, change \in Changes, a \in granted[i] \cup {-1} :
            BeginEdit(s, i, change, a)
  \/ \E s \in Sellers :
       \/ ConvertQuote(s) \/ MarkConverted(s)
       \/ WriteDeal(s) \/ ClearLines(s) \/ AddLines(s)
       \/ DropEdit(s)

DealsSpec == DealsInit /\ [][DealsNext]_dvars

-----------------------------------------------------------------------------
\* "The amount is what the deal will be worth AFTER this request": otherwise
\* "raising the value and closing in one call" would "slip under the threshold"
\* (AdminUpdateOpportunity, AdminCreateOpportunity).  While requests take turns, a
\* deal is won at a value that needs no approval or that its request had one for.
WonAsApprovedInTurn ==
  [][\A i \in DOMAIN deals' :
       oneAtATime' /\ deals'[i].stage = "won" /\ Gated(deals'[i].value)
       /\ (i \in DOMAIN deals => deals[i].stage # "won")
         => \E s \in Sellers :
              /\ edit[s].pc = "write" /\ edit[s].of = i
              /\ edit[s].approval >= deals'[i].value]_dvars
=============================================================================
