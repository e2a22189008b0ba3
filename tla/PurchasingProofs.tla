-------------------------- MODULE PurchasingProofs --------------------------
(***************************************************************************)
(* Goods come in only for orders that were issued, and every unit on the   *)
(* shelf is one that a stored receipt brought in, however handlers         *)
(* overlap; while they run one after another, an issued order keeps its    *)
(* lines and its number, was approved for what it is worth, its status     *)
(* says how much of it has come in, and its number is its own.  For any    *)
(* number of orders, products, handlers and any approval threshold.        *)
(***************************************************************************)
EXTENDS Purchasing, Sums, FiniteSetTheorems, TLAPS

Busy(w) == worker[w] # Free

\* The order that a handler with locals t works on.
Subject(t) ==
  IF t.pc \in {"post", "reread", "recount", "commit"} THEN t.own.order
  ELSE t.order
On(w) == Subject(worker[w])

\* Rows and locals keep their shape; whatever a handler works on exists.
RowsInv ==
  /\ order \in [Orders -> [status : Statuses \cup {"none"}, number : Nat]]
  /\ drafts \in [Orders -> Seq(List)]
  /\ DOMAIN got = Orders /\ DOMAIN spent = Orders
  /\ worker \in [Workers -> Worker \cup {Free}]
  /\ serial \in BOOLEAN
  /\ \A o \in Orders :
       /\ Len(drafts[o]) <= MaxDrafts
       /\ Exists(o) => drafts[o] # <<>>
       /\ order[o].number # 0 => Exists(o)
  /\ \A w \in Workers : Busy(w) => Exists(On(w))

\* An order goods may come in for has its number, and so has the order of any
\* handler that is bringing some in.
Ordered(t, known) ==
  /\ t.pc = "issue" => t.number # 0
  /\ t.pc \in {"lines", "outstanding", "post", "reread", "recount", "commit"}
       => Subject(t) \in known
  /\ t.pc = "mark" => t.status \in {"rejected", "pending_approval"}
  /\ t.pc = "commit" => t.status \in {"received", "partly_received", t.was}

ReceiptsInv ==
  /\ \A o \in Orders :
       order[o].status \in Receivable \cup {"received"} => o \in Numbered
  /\ \A w \in Workers : Ordered(worker[w], Numbered)
  /\ GoodsWereOrdered

Approved(o, amount) ==
  amount >= Floor => \E a \in spent[o] : a >= amount

\* While handlers take turns, what the one at work has read is still so.
Current(t) ==
  /\ t.pc = "edit" => order[t.order].status \in Editable
  /\ t.pc \in {"value", "gate", "number", "issue", "mark"} =>
       order[t.order].status \in Issuable
  /\ t.pc \in {"gate", "number", "issue"} => t.amount = Stored(t.order).worth
  /\ t.pc \in {"number", "issue"} => Approved(t.order, t.amount)

TurnsInv ==
  serial =>
    /\ \A v, w \in Workers : Busy(v) /\ Busy(w) => v = w
    /\ \A w \in Workers : Current(worker[w])
    /\ \A o \in Numbered :
         /\ order[o].status \notin Editable \cup Issuable
         /\ Approved(o, Stored(o).worth)

PurchasingInv == RowsInv /\ ReceiptsInv /\ TurnsInv

-----------------------------------------------------------------------------
(* Shapes *)

\* What a handler at each program counter keeps in its locals.
LEMMA Locals ==
  ASSUME RowsInv, NEW w \in Workers
  PROVE  LET t == worker[w] IN
         /\ t.pc = "edit" => t \in [pc : {"edit"}, order : Orders, list : List]
         /\ t.pc = "cancel" => t \in [pc : {"cancel"}, order : Orders]
         /\ t.pc = "value" =>
              t \in [pc : {"value"}, order : Orders, status : Issuable, number : Nat]
         /\ t.pc \in {"gate", "number", "issue"} =>
              t \in [pc : {"gate", "number", "issue"}, order : Orders,
                     status : Issuable, number : Nat, amount : Nat]
         /\ t.pc = "mark" =>
              t \in [pc : {"mark"}, order : Orders, status : Statuses]
         /\ t.pc = "lines" => t \in [pc : {"lines"}, order : Orders]
         /\ t.pc = "outstanding" =>
              t \in [pc : {"outstanding"}, order : Orders, draft : DraftId]
         /\ t.pc = "post" => t \in [pc : {"post"}, own : Receipt, next : Nat \ {0}]
         /\ t.pc = "reread" => t \in [pc : {"reread"}, own : Receipt, was : Statuses]
         /\ t.pc = "recount" =>
              t \in [pc : {"recount"}, own : Receipt, was : Statuses, now : DraftId]
         /\ t.pc = "commit" =>
              t \in [pc : {"commit"}, own : Receipt, was : Statuses,
                     status : Statuses]
         /\ t # Free => On(w) \in Orders
<1>1. worker[w] \in Worker \cup {Free}
  BY DEF RowsInv
<1>2. \A r \in Receipt : r.order \in Orders
  BY DEF Receipt
<1>3. QED
  BY <1>1, <1>2 DEF Worker, Free, On, Subject

\* A handler at work has an order, which exists.
LEMMA AtWork ==
  ASSUME RowsInv, NEW w \in Workers, worker[w].pc # "free"
  PROVE  /\ Exists(Subject(worker[w]))
         /\ ~InReceipt(w) => Subject(worker[w]) = worker[w].order
         /\ InReceipt(w) => Subject(worker[w]) = worker[w].own.order
<1>1. Busy(w)
  BY DEF Busy, Free
<1>2. Exists(On(w))
  BY <1>1 DEF RowsInv
<1>3. QED
  BY <1>2 DEF On, Subject, InReceipt

\* Storing locals of the right shape.
LEMMA GoTyped ==
  ASSUME RowsInv, NEW w \in Workers, NEW x \in Worker \cup {Free}, Go(w, x)
  PROVE  /\ worker' \in [Workers -> Worker \cup {Free}]
         /\ worker'[w] = x
         /\ \A v \in Workers \ {w} : worker'[v] = worker[v]
BY DEF RowsInv, Go

\* The lines a clerk may give an order.
LEMMA ListsTyped == \A o \in Orders : \A l \in Lists[o] : l \in List
BY PurchasingBounds

\* An order that exists has a last draft, whose worth is a number.
LEMMA StoredTyped ==
  ASSUME RowsInv, NEW o \in Orders, Exists(o)
  PROVE  /\ Stored(o) \in List /\ Stored(o).worth \in Nat
         /\ Len(drafts[o]) \in DraftId
<1>1. \A q \in Seq(List) : q # <<>> => Len(q) \in Nat \ {0} /\ q[Len(q)] \in List
  OBVIOUS
<1>2. drafts[o] \in Seq(List) /\ drafts[o] # <<>> /\ Len(drafts[o]) <= MaxDrafts
  BY DEF RowsInv
<1>3. Stored(o) \in List
  BY <1>1, <1>2 DEF Stored, Last
<1>4. \A l \in List : l.worth \in Nat
  BY DEF List
<1>5. Len(drafts[o]) \in DraftId
  BY <1>1, <1>2, PurchasingBounds DEF DraftId
<1>6. QED
  BY <1>3, <1>4, <1>5

\* A line of a request names a positive number of units.
LEMMA DeliveryTyped ==
  ASSUME NEW delivery \in Deliveries, NEW n \in Nat \ {0}, n <= Len(delivery)
  PROVE  delivery[n].quantity \in Nat \ {0}
<1>1. \A S : \A q \in Seq(S) : \A i \in 1 .. Len(q) : q[i] \in S
  OBVIOUS
<1>2. delivery \in Seq([line : Nat \ {0}, quantity : Nat \ {0}])
  BY PurchasingBounds DEF Delivery
<1>3. n \in 1 .. Len(delivery)
  BY <1>2
<1>4. delivery[n] \in [line : Nat \ {0}, quantity : Nat \ {0}]
  BY <1>1, <1>2, <1>3
<1>5. QED
  BY <1>4

\* Counting the orders that have a number gives the next one.
LEMMA NextNumberTyped == NextNumber \in Nat \ {0}
<1>1. Numbered \subseteq Orders
  BY DEF Numbered
<1>2. IsFiniteSet(Numbered)
  BY <1>1, PurchasingBounds, FS_Subset
<1>3. QED
  BY <1>2, FS_CardinalityType DEF NextNumber

\* A statement that only reads, or writes approvals: what it leaves in the
\* handler's locals has the right shape, and names an order that exists.
LEMMA LocalStep ==
  ASSUME RowsInv, NEW w \in Workers, NEW x \in Worker \cup {Free}, Go(w, x),
         UNCHANGED <<order, drafts, got>>, DOMAIN spent' = Orders,
         serial' \in BOOLEAN, x # Free => Exists(Subject(x))
  PROVE  RowsInv'
<1>1. \A v \in Workers : worker'[v] = IF v = w THEN x ELSE worker[v]
  BY GoTyped
<1>2. ASSUME NEW v \in Workers, worker'[v] # Free PROVE Exists(Subject(worker'[v]))
  BY <1>1, <1>2 DEF RowsInv, Busy, On
<1>3. (\A v \in Workers : Busy(v) => Exists(On(v)))'
  BY <1>2 DEF Busy, On, Exists
<1>4. QED
  BY <1>3, GoTyped DEF RowsInv, Exists

\* The same, for the locals the handler now keeps.
LEMMA ReadingStep ==
  ASSUME RowsInv, NEW w \in Workers,
         \/ \E o \in Orders : Begin(w, o)
         \/ Value(w) \/ Number(w) \/ ReadLines(w)
         \/ \E delivery \in Deliveries : CheckOutstanding(w, delivery)
         \/ Reload(w) \/ Reread(w) \/ Recount(w) \/ Fail(w)
  PROVE  RowsInv'
<1> USE DEF goods, consent
<1>0. Free \in Worker \cup {Free} /\ serial \in BOOLEAN /\ DOMAIN spent = Orders
  BY DEF RowsInv
<1>1. ASSUME NEW o \in Orders, NEW l \in Lists[o], BeginEdit(w, o, l) PROVE RowsInv'
  <2> DEFINE x == [pc |-> "edit", order |-> o, list |-> l]
  <2>1. x \in Worker /\ Subject(x) = o
    BY ListsTyped DEF Worker, Subject
  <2>2. Exists(o)
    BY <1>1 DEF BeginEdit, Editable, Exists
  <2>3. QED
    BY <1>0, <1>1, <2>1, <2>2, LocalStep DEF BeginEdit, Start
<1>2. ASSUME NEW o \in Orders, BeginIssue(w, o) PROVE RowsInv'
  <2> DEFINE x == [pc |-> "value", order |-> o, status |-> order[o].status,
                   number |-> order[o].number]
  <2>1. x \in Worker /\ Subject(x) = o /\ Exists(o)
    BY <1>2 DEF Worker, Subject, BeginIssue, RowsInv, Issuable, Exists
  <2>2. QED
    BY <1>0, <1>2, <2>1, LocalStep DEF BeginIssue, Start
<1>3. ASSUME NEW o \in Orders, BeginCancel(w, o) PROVE RowsInv'
  <2> DEFINE x == [pc |-> "cancel", order |-> o]
  <2>1. x \in Worker /\ Subject(x) = o /\ Exists(o)
    BY <1>3 DEF Worker, Subject, BeginCancel
  <2>2. QED
    BY <1>0, <1>3, <2>1, LocalStep DEF BeginCancel, Start
<1>4. ASSUME NEW o \in Orders, BeginReceive(w, o) PROVE RowsInv'
  <2> DEFINE x == [pc |-> "lines", order |-> o]
  <2>1. x \in Worker /\ Subject(x) = o /\ Exists(o)
    BY <1>4 DEF Worker, Subject, BeginReceive, Receivable, Exists
  <2>2. QED
    BY <1>0, <1>4, <2>1, LocalStep DEF BeginReceive, Start
<1>5. CASE Value(w)
  <2> DEFINE t == worker[w]
             x == [pc |-> "gate", order |-> t.order, status |-> t.status,
                   number |-> t.number, amount |-> Stored(t.order).worth]
  <2>1. t \in [pc : {"value"}, order : Orders, status : Issuable, number : Nat]
    BY <1>5, Locals DEF Value
  <2>2. Subject(t) = t.order /\ Exists(t.order)
    BY <2>1, AtWork DEF InReceipt
  <2>3. x \in Worker /\ Subject(x) = t.order
    BY <2>1, <2>2, StoredTyped DEF Worker, Subject
  <2>4. QED
    BY <1>0, <1>5, <2>2, <2>3, LocalStep DEF Value
<1>6. CASE Number(w)
  <2> DEFINE t == worker[w]
             x == [t EXCEPT !.pc = "issue", !.number = NextNumber]
             S == [pc : {"gate", "number", "issue"}, order : Orders,
                   status : Issuable, number : Nat, amount : Nat]
  <2>1. t \in S /\ t.pc = "number"
    BY <1>6, Locals DEF Number
  <2>2. Subject(t) = t.order /\ Exists(t.order)
    BY <2>1, AtWork DEF InReceipt
  <2>3. x \in S /\ x.order = t.order /\ x.pc = "issue"
    BY <2>1, NextNumberTyped
  <2>4. x \in Worker /\ Subject(x) = t.order
    BY <2>3 DEF Worker, Subject
  <2>5. QED
    BY <1>0, <1>6, <2>2, <2>4, LocalStep DEF Number
<1>7. CASE ReadLines(w)
  <2> DEFINE t == worker[w]
             x == [pc |-> "outstanding", order |-> t.order,
                   draft |-> Len(drafts[t.order])]
  <2>1. t \in [pc : {"lines"}, order : Orders]
    BY <1>7, Locals DEF ReadLines
  <2>2. Subject(t) = t.order /\ Exists(t.order)
    BY <2>1, AtWork DEF InReceipt
  <2>3. x \in Worker /\ Subject(x) = t.order
    BY <2>1, <2>2, StoredTyped DEF Worker, Subject
  <2>4. QED
    BY <1>0, <1>7, <2>2, <2>3, LocalStep DEF ReadLines
<1>8. ASSUME NEW delivery \in Deliveries, CheckOutstanding(w, delivery)
      PROVE  RowsInv'
  <2> DEFINE t == worker[w]
             own == [order |-> t.order, draft |-> t.draft, delivery |-> delivery,
                     moved |-> [p \in Products |-> 0]]
             x == [pc |-> "post", next |-> 1, own |-> own]
  <2>1. t \in [pc : {"outstanding"}, order : Orders, draft : DraftId]
    BY <1>8, Locals DEF CheckOutstanding
  <2>2. Subject(t) = t.order /\ Exists(t.order)
    BY <2>1, AtWork DEF InReceipt
  <2>3. own \in Receipt
    BY <2>1 DEF Receipt
  <2>4. x \in Worker /\ Subject(x) = t.order
    BY <2>3 DEF Worker, Subject
  <2>5. Go(w, x) \/ Go(w, Free)
    BY <1>8 DEF CheckOutstanding
  <2>6. QED
    BY <1>0, <1>8, <2>2, <2>4, <2>5, LocalStep DEF CheckOutstanding
<1>9. CASE Reload(w)
  <2> DEFINE t == worker[w]
             x == [pc |-> "reread", own |-> t.own,
                   was |-> order[t.own.order].status]
  <2>1. t \in [pc : {"post"}, own : Receipt, next : Nat \ {0}]
    BY <1>9, Locals DEF Reload
  <2>2. Subject(t) = t.own.order /\ Exists(t.own.order) /\ t.own.order \in Orders
    BY <2>1, AtWork DEF InReceipt, Receipt
  <2>3. order[t.own.order].status \in Statuses
    BY <2>2 DEF RowsInv, Exists
  <2>4. x \in Worker /\ Subject(x) = t.own.order
    BY <2>1, <2>3 DEF Worker, Subject
  <2>5. QED
    BY <1>0, <1>9, <2>2, <2>4, LocalStep DEF Reload
<1>10. CASE Reread(w)
  <2> DEFINE t == worker[w]
             x == [pc |-> "recount", own |-> t.own, was |-> t.was,
                   now |-> Len(drafts[t.own.order])]
  <2>1. t \in [pc : {"reread"}, own : Receipt, was : Statuses]
    BY <1>10, Locals DEF Reread
  <2>2. Subject(t) = t.own.order /\ Exists(t.own.order) /\ t.own.order \in Orders
    BY <2>1, AtWork DEF InReceipt, Receipt
  <2>3. x \in Worker /\ Subject(x) = t.own.order
    BY <2>1, <2>2, StoredTyped DEF Worker, Subject
  <2>4. QED
    BY <1>0, <1>10, <2>2, <2>3, LocalStep DEF Reread
<1>11. CASE Recount(w)
  <2> DEFINE t == worker[w]
             x(s) == [pc |-> "commit", own |-> t.own, was |-> t.was, status |-> s]
  <2>1. t \in [pc : {"recount"}, own : Receipt, was : Statuses, now : DraftId]
    BY <1>11, Locals DEF Recount
  <2>2. Subject(t) = t.own.order /\ Exists(t.own.order)
    BY <2>1, AtWork DEF InReceipt
  <2>3. \A s \in Statuses : x(s) \in Worker /\ Subject(x(s)) = t.own.order
    BY <2>1 DEF Worker, Subject
  <2>4. \E s \in Statuses : Go(w, x(s))
    BY <1>11, <2>1 DEF Recount, Statuses, Receivable
  <2>5. QED
    BY <1>0, <1>11, <2>2, <2>3, <2>4, LocalStep DEF Recount
<1>12. CASE Fail(w)
  BY <1>0, <1>12, LocalStep DEF Fail
<1>13. QED
  BY <1>1, <1>2, <1>3, <1>4, <1>5, <1>6, <1>7, <1>8, <1>9, <1>10, <1>11, <1>12
     DEF Begin

\* The gate lets the handler on, or marks the order, or sends it away.
LEMMA GateOutcome ==
  ASSUME RowsInv, NEW w \in Workers, Gate(w)
  PROVE  LET t == worker[w] IN
         /\ \/ Pass(w)
            \/ Go(w, [pc |-> "mark", order |-> t.order, status |-> "rejected"])
            \/ /\ t.status = "draft"
               /\ Go(w, [pc |-> "mark", order |-> t.order,
                          status |-> "pending_approval"])
            \/ Go(w, Free)
         /\ DOMAIN spent' = Orders
BY DEF Gate, Blocked, RowsInv, consent

\* Past the gate the handler keeps what it has read.
LEMMA PassLocals ==
  ASSUME RowsInv, NEW w \in Workers, worker[w].pc = "gate", Pass(w)
  PROVE  LET t == worker[w] IN
         \E x \in [pc : {"number", "issue"}, order : Orders, status : Issuable,
                  number : Nat, amount : Nat] :
           /\ Go(w, x)
           /\ x.order = t.order /\ x.number = t.number /\ x.amount = t.amount
           /\ x.pc = IF t.number = 0 THEN "number" ELSE "issue"
<1> DEFINE t == worker[w]
           x == [t EXCEPT !.pc = IF t.number = 0 THEN "number" ELSE "issue"]
<1>1. t \in [pc : {"gate", "number", "issue"}, order : Orders,
             status : Issuable, number : Nat, amount : Nat]
  BY Locals
<1>2. /\ x \in [pc : {"number", "issue"}, order : Orders, status : Issuable,
                number : Nat, amount : Nat]
      /\ x.order = t.order /\ x.number = t.number /\ x.amount = t.amount
      /\ x.pc = IF t.number = 0 THEN "number" ELSE "issue"
  BY <1>1
<1>3. [t EXCEPT !.pc = IF @ = "gate" /\ t.number = 0 THEN "number" ELSE "issue"] = x
  BY <1>1
<1>4. Go(w, x)
  BY <1>3 DEF Pass
<1>5. QED
  BY <1>2, <1>4

LEMMA GateStep == ASSUME RowsInv, NEW w \in Workers, Gate(w) PROVE RowsInv'
<1> DEFINE t == worker[w]
           M(status) == [pc |-> "mark", order |-> t.order, status |-> status]
<1>1. /\ t \in [pc : {"gate", "number", "issue"}, order : Orders,
                status : Issuable, number : Nat, amount : Nat]
      /\ t.pc = "gate"
  BY Locals DEF Gate
<1>2. Subject(t) = t.order /\ Exists(t.order)
  BY <1>1, AtWork DEF InReceipt
<1>3. /\ UNCHANGED <<order, drafts, got>> /\ serial' \in BOOLEAN
      /\ DOMAIN spent' = Orders
  BY GateOutcome DEF Gate, goods, RowsInv
<1>4. \A status \in Statuses : M(status) \in Worker /\ Subject(M(status)) = t.order
  BY <1>1 DEF Worker, Subject
<1>5. ASSUME NEW x \in [pc : {"number", "issue"}, order : Orders,
                        status : Issuable, number : Nat, amount : Nat],
             x.order = t.order
      PROVE  x \in Worker /\ Subject(x) = t.order
  BY <1>5 DEF Worker, Subject
<1>6. \E x \in Worker \cup {Free} : Go(w, x) /\ (x # Free => Subject(x) = t.order)
  <2>1. CASE Pass(w)
    BY <1>1, <1>5, <2>1, PassLocals
  <2>2. CASE \E status \in Statuses : Go(w, M(status))
    BY <1>4, <2>2
  <2>3. CASE Go(w, Free)
    BY <2>3
  <2>4. "rejected" \in Statuses /\ "pending_approval" \in Statuses
    BY DEF Statuses, Issuable
  <2>5. QED
    BY <2>1, <2>2, <2>3, <2>4, GateOutcome
<1>7. QED
  BY <1>2, <1>3, <1>6, LocalStep

\* A line of the receipt is posted, passed over, or rolls the receipt back.
LEMMA PostLineOutcome ==
  ASSUME RowsInv, NEW w \in Workers, PostLine(w)
  PROVE  \/ Go(w, Free)
         \/ \E x \in [pc : {"post"}, own : Receipt, next : Nat \ {0}] :
              Go(w, x) /\ x.own.order = worker[w].own.order
<1> DEFINE t == worker[w]
           S == [pc : {"post"}, own : Receipt, next : Nat \ {0}]
           p == LineOf(t.own, t.next).product
           n == t.own.delivery[t.next].quantity
           moved == [t.own.moved EXCEPT ![p] = @ + n]
           own == [t.own EXCEPT !.moved = moved]
<1>1. t \in S /\ t.own \in Receipt /\ t.next \in Nat \ {0}
  BY Locals DEF PostLine
<1>2. /\ t.own.delivery \in Deliveries /\ t.own.moved \in [Products -> Nat]
      /\ t.own.order \in Orders /\ t.own.draft \in DraftId
  BY <1>1 DEF Receipt
<1>3. n \in Nat
  BY <1>1, <1>2, DeliveryTyped DEF PostLine
<1>4. moved \in [Products -> Nat]
  <2>1. \A q \in Products : t.own.moved[q] + n \in Nat
    BY <1>2, <1>3
  <2>2. QED
    BY <1>2, <2>1
<1>5. own \in Receipt /\ own.order = t.own.order
  <2>1. \A r \in Receipt, f \in [Products -> Nat] :
          /\ [r EXCEPT !.moved = f] \in Receipt
          /\ [r EXCEPT !.moved = f].order = r.order
    BY DEF Receipt
  <2>2. QED
    BY <1>1, <1>4, <2>1
<1>6. /\ [t EXCEPT !.next = @ + 1] \in S
      /\ [t EXCEPT !.next = @ + 1].own = t.own
  BY <1>1
<1>7. /\ [t EXCEPT !.next = @ + 1, !.own = own] \in S
      /\ [t EXCEPT !.next = @ + 1, !.own = own].own = own
  <2>1. \A r \in S, q \in Receipt :
          /\ [r EXCEPT !.own = q] \in S /\ [r EXCEPT !.own = q].own = q
    OBVIOUS
  <2>2. [t EXCEPT !.next = @ + 1, !.own = own]
          = [[t EXCEPT !.next = @ + 1] EXCEPT !.own = own]
    BY <1>1
  <2>3. QED
    BY <1>5, <1>6, <2>1, <2>2
<1>8. [t EXCEPT !.next = @ + 1, !.own.moved[p] = @ + n]
        = [t EXCEPT !.next = @ + 1, !.own = own]
  BY <1>1, <1>2
<1>9. \/ Go(w, Free) \/ Go(w, [t EXCEPT !.next = @ + 1])
      \/ Go(w, [t EXCEPT !.next = @ + 1, !.own.moved[p] = @ + n])
  BY DEF PostLine
<1>10. QED
  BY <1>5, <1>6, <1>7, <1>8, <1>9

LEMMA PostLineStep == ASSUME RowsInv, NEW w \in Workers, PostLine(w) PROVE RowsInv'
<1> DEFINE t == worker[w]
<1>1. Subject(t) = t.own.order /\ Exists(t.own.order)
  BY AtWork DEF PostLine, InReceipt
<1>2. /\ UNCHANGED <<order, drafts, got>> /\ serial' \in BOOLEAN
      /\ DOMAIN spent' = Orders
  BY DEF PostLine, goods, consent, RowsInv
<1>3. \A x \in [pc : {"post"}, own : Receipt, next : Nat \ {0}] :
        x \in Worker /\ Subject(x) = x.own.order
  BY DEF Worker, Subject
<1>4. \E x \in Worker \cup {Free} : Go(w, x) /\ (x # Free => Subject(x) = t.own.order)
  BY <1>3, PostLineOutcome
<1>5. QED
  BY <1>1, <1>2, <1>4, LocalStep

\* A statement that changes one order's row, and perhaps its lines, and ends
\* its handler.
LEMMA RowStep ==
  ASSUME RowsInv, NEW o \in Orders,
         NEW row \in [status : Statuses, number : Nat],
         order' = [order EXCEPT ![o] = row],
         (\E w \in Workers : Go(w, Free)) \/ UNCHANGED worker,
         \/ drafts' = drafts /\ Exists(o)
         \/ \E l \in List : drafts' = [drafts EXCEPT ![o] = <<l>>]
         \/ \E l \in List : /\ drafts' = [drafts EXCEPT ![o] = Append(@, l)]
                           /\ Len(drafts[o]) < MaxDrafts,
         DOMAIN got' = Orders, UNCHANGED <<spent, serial>>
  PROVE  RowsInv'
<1> DEFINE Kept ==
             /\ drafts' \in [Orders -> Seq(List)]
             /\ \A v \in Orders : Len(drafts'[v]) <= MaxDrafts
             /\ drafts'[o] # <<>>
             /\ \A v \in Orders \ {o} : drafts'[v] = drafts[v]
<1>1. order' \in [Orders -> [status : Statuses \cup {"none"}, number : Nat]]
  BY DEF RowsInv
<1>2. Kept
  <2>1. CASE drafts' = drafts /\ Exists(o)
    BY <2>1 DEF RowsInv
  <2>2. ASSUME NEW l \in List, drafts' = [drafts EXCEPT ![o] = <<l>>]
        PROVE  Kept
    <3>1. <<l>> \in Seq(List) /\ Len(<<l>>) = 1 /\ <<l>> # <<>> /\ 1 <= MaxDrafts
      BY PurchasingBounds
    <3>2. QED
      BY <2>2, <3>1 DEF RowsInv
  <2>3. ASSUME NEW l \in List, drafts' = [drafts EXCEPT ![o] = Append(@, l)],
               Len(drafts[o]) < MaxDrafts
        PROVE  Kept
    <3>1. drafts[o] \in Seq(List)
      BY DEF RowsInv
    <3>2. /\ Append(drafts[o], l) \in Seq(List)
          /\ Len(Append(drafts[o], l)) <= MaxDrafts
          /\ Append(drafts[o], l) # <<>>
      <4>1. \A S : \A q \in Seq(S) : \A e \in S :
              /\ Append(q, e) \in Seq(S) /\ Append(q, e) # <<>>
              /\ Len(q) \in Nat /\ Len(Append(q, e)) = Len(q) + 1
        OBVIOUS
      <4>2. QED
        BY <2>3, <3>1, <4>1, PurchasingBounds
    <3>3. QED
      BY <2>3, <3>2 DEF RowsInv
  <2>4. QED
    BY <2>1, <2>2, <2>3
<1>3. \A v \in Orders :
        /\ order'[v].status # "none" => drafts'[v] # <<>>
        /\ order'[v].number # 0 => order'[v].status # "none"
        /\ order[v].status # "none" => order'[v].status # "none"
  <2>1. "none" \notin Statuses
    BY DEF Statuses, Issuable, Receivable
  <2>2. order'[o] = row /\ row.status \in Statuses
    BY DEF RowsInv
  <2>3. QED
    BY <1>2, <2>1, <2>2 DEF RowsInv, Exists
<1>4. \A v \in Workers : worker'[v] = worker[v] \/ worker'[v] = Free
  BY DEF Go, RowsInv
<1>5. worker' \in [Workers -> Worker \cup {Free}]
  BY DEF Go, RowsInv
<1>6. \A v \in Workers : worker'[v] # Free => order'[Subject(worker'[v])].status # "none"
  <2>1. \A v \in Workers : worker[v] # Free =>
          On(v) \in Orders /\ order[Subject(worker[v])].status # "none"
    BY Locals DEF RowsInv, Busy, On, Exists
  <2>2. QED
    BY <1>3, <1>4, <2>1 DEF On
<1>7. QED
  BY <1>1, <1>2, <1>3, <1>5, <1>6 DEF RowsInv, Exists, Busy, On

LEMMA CreateStep ==
  ASSUME RowsInv, NEW o \in Orders, NEW l \in Lists[o], Create(o, l)
  PROVE  RowsInv'
<1>1. l \in List
  BY ListsTyped
<1>2. /\ [order[o] EXCEPT !.status = "draft"] \in [status : Statuses, number : Nat]
      /\ order' = [order EXCEPT ![o] = [order[o] EXCEPT !.status = "draft"]]
      /\ DOMAIN got' = Orders
  BY DEF RowsInv, Statuses, Issuable, Create, goods
<1>3. QED
  BY <1>1, <1>2, RowStep DEF Create, consent

LEMMA WritingStep ==
  ASSUME RowsInv, NEW w \in Workers,
         \/ Edit(w) \/ Mark(w) \/ Issue(w) \/ Cancel(w) \/ CommitReceipt(w)
  PROVE  RowsInv'
<1> DEFINE t == worker[w]
           Row == [status : Statuses, number : Nat]
<1>0. /\ \A o \in Orders, status \in Statuses :
           [order[o] EXCEPT !.status = status] \in Row
      /\ \A o \in Orders : \A status :
           [order EXCEPT ![o].status = status]
             = [order EXCEPT ![o] = [order[o] EXCEPT !.status = status]]
      /\ {"draft", "cancelled"} \subseteq Statuses
      /\ DOMAIN got = Orders
  BY DEF RowsInv, Statuses, Issuable
<1>2. CASE Edit(w)
  BY <1>0, <1>2, Locals, RowStep DEF Edit, goods, consent
<1>3. CASE Mark(w)
  <2>1. t \in [pc : {"mark"}, order : Orders, status : Statuses]
    BY <1>3, Locals DEF Mark
  <2>2. Exists(t.order)
    BY <2>1, AtWork DEF InReceipt
  <2>3. QED
    BY <1>0, <1>3, <2>1, <2>2, RowStep DEF Mark, goods, consent
<1>4. CASE Issue(w)
  <2>1. /\ t \in [pc : {"gate", "number", "issue"}, order : Orders,
                  status : Issuable, number : Nat, amount : Nat]
        /\ t.pc = "issue"
    BY <1>4, Locals DEF Issue
  <2>2. Exists(t.order)
    BY <2>1, AtWork DEF InReceipt
  <2>3. [status |-> "issued", number |-> t.number] \in Row
    BY <2>1 DEF Statuses, Receivable
  <2>4. QED
    BY <1>0, <1>4, <2>1, <2>2, <2>3, RowStep DEF Issue, goods, consent
<1>5. CASE Cancel(w)
  <2>1. t \in [pc : {"cancel"}, order : Orders]
    BY <1>5, Locals DEF Cancel
  <2>2. Exists(t.order)
    BY <2>1, AtWork DEF InReceipt
  <2>3. QED
    BY <1>0, <1>5, <2>1, <2>2, RowStep DEF Cancel, goods, consent
<1>6. CASE CommitReceipt(w)
  <2>1. t \in [pc : {"commit"}, own : Receipt, was : Statuses, status : Statuses]
    BY <1>6, Locals DEF CommitReceipt
  <2>2. t.own.order \in Orders /\ Exists(t.own.order)
    BY <2>1, AtWork DEF InReceipt, Receipt
  <2>3. order[t.own.order] \in Row /\ order = [order EXCEPT ![t.own.order] = @]
    BY <2>2 DEF RowsInv, Exists
  <2>4. DOMAIN got' = Orders
    BY <1>6 DEF CommitReceipt, RowsInv
  <2>5. \E row \in Row : order' = [order EXCEPT ![t.own.order] = row]
    BY <1>0, <1>6, <2>1, <2>2, <2>3 DEF CommitReceipt
  <2>6. QED
    BY <1>6, <2>2, <2>4, <2>5, RowStep DEF CommitReceipt, consent
<1>7. QED
  BY <1>2, <1>3, <1>4, <1>5, <1>6

LEMMA RowsStep == RowsInv /\ [Next]_pvars => RowsInv'
<1> SUFFICES ASSUME RowsInv, [Next]_pvars PROVE RowsInv'
  OBVIOUS
<1>1. ASSUME NEW w \in Workers, NEW o \in Orders, Begin(w, o) PROVE RowsInv'
  BY <1>1, ReadingStep
<1>2. ASSUME NEW w \in Workers, WorkerStep(w) PROVE RowsInv'
  BY <1>2, ReadingStep, WritingStep, GateStep, PostLineStep DEF WorkerStep
<1>3. ASSUME NEW w \in Workers, Fail(w) PROVE RowsInv'
  BY <1>3, ReadingStep
<1>4. ASSUME NEW o \in Orders, NEW l \in Lists[o], Create(o, l) PROVE RowsInv'
  BY <1>4, CreateStep
<1>5. CASE UNCHANGED <<order, drafts, got, spent, worker, serial>>
  BY <1>5 DEF RowsInv, Exists, Busy, On
<1>6. ASSUME \/ \E o \in Orders, verdict \in {"approved", "rejected"} : Decide(o, verdict)
             \/ \E o \in Orders : Resubmit(o)
             \/ \E p \in Products : DeleteProduct(p)
      PROVE  RowsInv'
  BY <1>5, <1>6 DEF Decide, Resubmit, DeleteProduct, goods, consent
<1>7. QED
  BY <1>1, <1>2, <1>3, <1>4, <1>5, <1>6 DEF Next, pvars

-----------------------------------------------------------------------------
(* Receipts *)

\* The statements that change an order's row, and what they leave of it.
Writes(w) == Edit(w) \/ Mark(w) \/ Issue(w) \/ Cancel(w) \/ CommitReceipt(w)

\* A number, once given, stays.
LEMMA NumbersStay ==
  ASSUME RowsInv, ReceiptsInv, Next
  PROVE  Numbered \subseteq Numbered'
<1> SUFFICES ASSUME NEW o \in Orders, order[o].number # 0
             PROVE  order'[o].number # 0
  BY DEF Numbered
<1>1. ASSUME NEW w \in Workers, Issue(w) PROVE order'[o].number # 0
  <2>1. worker[w].number # 0
    BY <1>1 DEF Issue, ReceiptsInv, Ordered
  <2>2. QED
    BY <1>1, <2>1 DEF Issue, RowsInv
<1>2. ASSUME NEW q, NEW status, order' = [order EXCEPT ![q].status = status]
      PROVE  order'[o].number # 0
  BY <1>2 DEF RowsInv
<1>3. ASSUME NEW w \in Workers, Edit(w) \/ Mark(w) \/ Cancel(w) \/ CommitReceipt(w)
      PROVE  order'[o].number # 0
  BY <1>2, <1>3 DEF Edit, Mark, Cancel, CommitReceipt
<1>4. ASSUME NEW q \in Orders, NEW l \in Lists[q], Create(q, l)
      PROVE  order'[o].number # 0
  BY <1>2, <1>4 DEF Create
<1>5. CASE UNCHANGED order
  BY <1>5
<1>6. ASSUME NEW w \in Workers, WorkerStep(w) PROVE order'[o].number # 0
  BY <1>1, <1>3, <1>5, <1>6
     DEF WorkerStep, Value, Gate, Number, ReadLines, CheckOutstanding, PostLine,
         Reload, Reread, Recount
<1>7. ASSUME NEW w \in Workers, NEW q \in Orders, Begin(w, q)
      PROVE  order'[o].number # 0
  BY <1>5, <1>7 DEF Begin, BeginEdit, BeginIssue, BeginCancel, BeginReceive
<1>8. QED
  BY <1>4, <1>5, <1>6, <1>7 DEF Next, Fail, Decide, Resubmit, DeleteProduct

\* What a handler knows of its order stays true while numbers stay.
LEMMA OrderedStays ==
  ASSUME RowsInv, ReceiptsInv, Numbered \subseteq Numbered',
         NEW w \in Workers, NEW x \in Worker \cup {Free}, Go(w, x),
         Ordered(x, Numbered')
  PROVE  \A v \in Workers : Ordered(worker'[v], Numbered')
<1>1. \A v \in Workers : worker'[v] = IF v = w THEN x ELSE worker[v]
  BY DEF Go, RowsInv
<1>2. \A v \in Workers : Ordered(worker[v], Numbered')
  BY DEF ReceiptsInv, Ordered
<1>3. QED
  BY <1>1, <1>2

LEMMA OrderedStep ==
  ASSUME RowsInv, RowsInv', ReceiptsInv, Next
  PROVE  \A v \in Workers : Ordered(worker'[v], Numbered')
<1> DEFINE Goal == \A v \in Workers : Ordered(worker'[v], Numbered')
<1>0. Numbered \subseteq Numbered'
  BY NumbersStay
<1>1. ASSUME NEW w \in Workers, NEW x, Go(w, x), Ordered(x, Numbered')
      PROVE  Goal
  <2>1. worker'[w] = x
    BY <1>1 DEF Go, RowsInv
  <2>2. x \in Worker \cup {Free}
    BY <2>1 DEF RowsInv
  <2>3. QED
    BY <1>0, <1>1, <2>2, OrderedStays
<1>2. CASE UNCHANGED worker
  BY <1>0, <1>2 DEF ReceiptsInv, Ordered
<1>3. Ordered(Free, Numbered')
  BY DEF Ordered, Free
<1>4. ASSUME NEW w \in Workers, Writes(w) \/ Fail(w) PROVE Goal
  BY <1>1, <1>3, <1>4 DEF Writes, Edit, Mark, Issue, Cancel, CommitReceipt, Fail
<1>5. ASSUME NEW w \in Workers, NEW o \in Orders, Begin(w, o) PROVE Goal
  <2>1. ASSUME BeginReceive(w, o) PROVE o \in Numbered'
    BY <1>0, <2>1 DEF BeginReceive, ReceiptsInv
  <2>2. \A x : x.pc \in {"edit", "value", "cancel"} => Ordered(x, Numbered')
    BY DEF Ordered
  <2>3. o \in Numbered' => Ordered([pc |-> "lines", order |-> o], Numbered')
    BY DEF Ordered, Subject
  <2>4. ASSUME NEW l \in Lists[o], BeginEdit(w, o, l) PROVE Goal
    BY <1>1, <2>2, <2>4 DEF BeginEdit, Start
  <2>5. CASE BeginIssue(w, o)
    BY <1>1, <2>2, <2>5 DEF BeginIssue, Start
  <2>6. CASE BeginCancel(w, o)
    BY <1>1, <2>2, <2>6 DEF BeginCancel, Start
  <2>7. CASE BeginReceive(w, o)
    BY <1>1, <2>1, <2>3, <2>7 DEF BeginReceive, Start
  <2>8. QED
    BY <1>5, <2>4, <2>5, <2>6, <2>7 DEF Begin
<1>6. ASSUME NEW w \in Workers, Value(w) \/ Number(w) \/ Gate(w) PROVE Goal
  <2> DEFINE t == worker[w]
  <2>1. CASE Value(w)
    <3>1. \A x : x.pc = "gate" => Ordered(x, Numbered')
      BY DEF Ordered
    <3>2. QED
      BY <1>1, <2>1, <3>1 DEF Value
  <2>2. CASE Number(w)
    <3>1. t \in [pc : {"gate", "number", "issue"}, order : Orders,
                status : Issuable, number : Nat, amount : Nat]
      BY <2>2, Locals DEF Number
    <3> DEFINE x == [t EXCEPT !.pc = "issue", !.number = NextNumber]
    <3>2. x.pc = "issue" /\ x.number # 0
      BY <3>1, NextNumberTyped
    <3>3. Ordered(x, Numbered')
      BY <3>2 DEF Ordered
    <3>4. QED
      BY <1>1, <2>2, <3>3 DEF Number
  <2>3. CASE Gate(w)
    <3>1. \A x : x.pc = "number" \/ (x.pc = "issue" /\ x.number # 0)
                 => Ordered(x, Numbered')
      BY DEF Ordered
    <3>2. \A status \in {"rejected", "pending_approval"} :
            Ordered([pc |-> "mark", order |-> t.order, status |-> status], Numbered')
      BY DEF Ordered
    <3>3. CASE Pass(w)
      <4>1. PICK x : /\ Go(w, x) /\ x.number = t.number
                     /\ x.pc = IF t.number = 0 THEN "number" ELSE "issue"
        BY <2>3, <3>3, PassLocals DEF Gate
      <4>2. Ordered(x, Numbered')
        BY <3>1, <4>1
      <4>3. QED
        BY <1>1, <4>1, <4>2
    <3>4. QED
      BY <1>1, <1>3, <2>3, <3>2, <3>3, GateOutcome
  <2>4. QED
    BY <1>6, <2>1, <2>2, <2>3
<1>7. ASSUME NEW w \in Workers,
             \/ ReadLines(w)
             \/ \E delivery \in Deliveries : CheckOutstanding(w, delivery)
             \/ PostLine(w) \/ Reload(w) \/ Reread(w) \/ Recount(w)
      PROVE  Goal
  <2> DEFINE t == worker[w]
  <2>1. /\ Subject(t) \in Numbered'
        /\ t.pc \in {"lines", "outstanding"} => Subject(t) = t.order
        /\ t.pc \in {"post", "reread", "recount"} => Subject(t) = t.own.order
    <3>1. t.pc \in {"lines", "outstanding", "post", "reread", "recount"}
      BY <1>7 DEF ReadLines, CheckOutstanding, PostLine, Reload, Reread, Recount
    <3>2. Subject(t) \in Numbered
      BY <3>1 DEF ReceiptsInv, Ordered
    <3>3. QED
      BY <1>0, <3>1, <3>2 DEF Subject
  <2>2. \A x : /\ x.pc \in {"outstanding"} /\ x.order = Subject(t)
                 => Ordered(x, Numbered')
               /\ x.pc \in {"post", "reread", "recount"} /\ x.own.order = Subject(t)
                 => Ordered(x, Numbered')
    BY <2>1 DEF Ordered, Subject
  <2>3. \A s \in {"received", "partly_received", t.was} :
          t.pc = "recount" =>
            Ordered([pc |-> "commit", own |-> t.own, was |-> t.was, status |-> s],
                    Numbered')
    BY <2>1 DEF Ordered, Subject
  <2>4. CASE ReadLines(w)
    BY <1>1, <2>1, <2>2, <2>4 DEF ReadLines
  <2>5. ASSUME NEW delivery \in Deliveries, CheckOutstanding(w, delivery)
        PROVE  Goal
    BY <1>1, <1>3, <2>1, <2>2, <2>5 DEF CheckOutstanding
  <2>6. CASE PostLine(w)
    BY <1>1, <1>3, <2>1, <2>2, <2>6, PostLineOutcome DEF PostLine
  <2>7. CASE Reload(w) \/ Reread(w)
    BY <1>1, <2>1, <2>2, <2>7 DEF Reload, Reread
  <2>8. CASE Recount(w)
    BY <1>1, <2>3, <2>8 DEF Recount
  <2>9. QED
    BY <1>7, <2>4, <2>5, <2>6, <2>7, <2>8
<1>8. QED
  BY <1>2, <1>4, <1>5, <1>6, <1>7
     DEF Next, WorkerStep, Writes, Create, Decide, Resubmit, DeleteProduct

\* Statuses that let goods in belong to orders with a number.
LEMMA StatusStep ==
  ASSUME RowsInv, RowsInv', ReceiptsInv, Next
  PROVE  \A o \in Orders :
           order'[o].status \in Receivable \cup {"received"} => o \in Numbered'
<1> SUFFICES ASSUME NEW o \in Orders,
                    order'[o].status \in Receivable \cup {"received"}
             PROVE  o \in Numbered'
  OBVIOUS
<1>0. Numbered \subseteq Numbered'
  BY NumbersStay
<1>1. CASE order'[o].status = order[o].status
  BY <1>0, <1>1 DEF ReceiptsInv
<1>2. CASE order'[o].status # order[o].status
  <2>1. ASSUME NEW q, NEW status, order' = [order EXCEPT ![q].status = status]
        PROVE  status \in Receivable \cup {"received"} /\ q = o
    BY <1>2, <2>1 DEF RowsInv
  <2> DEFINE Open == Receivable \cup {"received"}
  <2>10. "draft" \notin Open /\ "cancelled" \notin Open
    BY DEF Receivable
  <2>2. ASSUME NEW w \in Workers, Issue(w) PROVE o \in Numbered'
    BY <1>2, <2>2 DEF Issue, RowsInv, ReceiptsInv, Ordered, Numbered
  <2>3. ASSUME NEW w \in Workers, CommitReceipt(w) PROVE o \in Numbered'
    <3>1. Subject(worker[w]) \in Numbered /\ Subject(worker[w]) = worker[w].own.order
      BY <2>3 DEF CommitReceipt, ReceiptsInv, Ordered, Subject
    <3>2. order' = [order EXCEPT ![worker[w].own.order].status = worker[w].status]
      BY <1>2, <2>3 DEF CommitReceipt
    <3>3. QED
      BY <1>0, <2>1, <3>1, <3>2
  <2>4. ASSUME NEW w \in Workers, Edit(w) \/ Mark(w) \/ Cancel(w) PROVE FALSE
    <3>1. worker[w].pc = "mark" =>
            worker[w].status \in {"rejected", "pending_approval"}
      BY DEF ReceiptsInv, Ordered
    <3>2. CASE Edit(w)
      BY <2>1, <2>10, <3>2 DEF Edit
    <3>3. CASE Mark(w)
      BY <2>1, <3>1, <3>3 DEF Mark, Receivable
    <3>4. CASE Cancel(w)
      BY <2>1, <2>10, <3>4 DEF Cancel
    <3>5. QED
      BY <2>4, <3>2, <3>3, <3>4
  <2>5. ASSUME NEW q \in Orders, NEW l \in Lists[q], Create(q, l) PROVE FALSE
    BY <2>1, <2>10, <2>5 DEF Create
  <2>6. order' # order
    BY <1>2
  <2>7. ASSUME NEW w \in Workers, WorkerStep(w) PROVE o \in Numbered'
    BY <2>2, <2>3, <2>4, <2>6, <2>7
       DEF WorkerStep, Value, Gate, Number, ReadLines, CheckOutstanding, PostLine,
           Reload, Reread, Recount
  <2>8. ASSUME NEW w \in Workers, NEW q \in Orders, Begin(w, q) PROVE FALSE
    BY <2>6, <2>8 DEF Begin, BeginEdit, BeginIssue, BeginCancel, BeginReceive
  <2>9. QED
    BY <2>5, <2>6, <2>7, <2>8 DEF Next, Fail, Decide, Resubmit, DeleteProduct
<1>3. QED
  BY <1>1, <1>2

\* A receipt commits for an order with a number.
LEMMA GoodsStep ==
  ASSUME RowsInv, ReceiptsInv, Next
  PROVE  GoodsWereOrdered'
<1>0. Numbered \subseteq Numbered'
  BY NumbersStay
<1>1. ASSUME NEW w \in Workers, CommitReceipt(w) PROVE GoodsWereOrdered'
  <2>1. worker[w].own.order \in Numbered
    BY <1>1 DEF CommitReceipt, ReceiptsInv, Ordered, Subject
  <2>2. \A o \in Orders : o # worker[w].own.order => got'[o] = got[o]
    BY <1>1 DEF CommitReceipt, RowsInv
  <2>3. QED
    BY <1>0, <2>1, <2>2
       DEF ReceiptsInv, GoodsWereOrdered, AnyReceived, Received
<1>2. CASE UNCHANGED got
  BY <1>0, <1>2 DEF ReceiptsInv, GoodsWereOrdered, AnyReceived, Received
<1>3. ASSUME NEW w \in Workers, WorkerStep(w) PROVE GoodsWereOrdered'
  BY <1>1, <1>2, <1>3
     DEF WorkerStep, Edit, Value, Gate, Mark, Number, Issue, Cancel, ReadLines,
         CheckOutstanding, PostLine, Reload, Reread, Recount, goods
<1>4. ASSUME NEW w \in Workers, NEW q \in Orders, Begin(w, q)
      PROVE  GoodsWereOrdered'
  BY <1>2, <1>4
     DEF Begin, BeginEdit, BeginIssue, BeginCancel, BeginReceive, goods
<1>5. QED
  BY <1>2, <1>3, <1>4
     DEF Next, Create, Fail, Decide, Resubmit, DeleteProduct, goods

LEMMA ReceiptsStep ==
  RowsInv /\ RowsInv' /\ ReceiptsInv /\ [Next]_pvars => ReceiptsInv'
<1>1. CASE Next
  BY <1>1, OrderedStep, StatusStep, GoodsStep DEF ReceiptsInv
<1>2. CASE UNCHANGED pvars
  BY <1>2 DEF pvars, ReceiptsInv, GoodsWereOrdered, AnyReceived, Received, Numbered,
              Ordered
<1>3. QED
  BY <1>1, <1>2

-----------------------------------------------------------------------------
(* Handlers that take turns *)

\* An order that has been issued is past editing and issuing, and approved for
\* what it is worth.
Settled(o) ==
  /\ order[o].status \notin Editable \cup Issuable
  /\ Approved(o, Stored(o).worth)

\* One handler takes a step while the others are idle.
LEMMA TakesTurn ==
  ASSUME RowsInv, RowsInv', TurnsInv, serial, NEW w \in Workers,
         \A v \in Workers \ {w} : worker[v] = Free,
         \A v \in Workers \ {w} : worker'[v] = worker[v],
         Current(worker[w])',
         \A o \in Numbered' : Settled(o)'
  PROVE  TurnsInv'
<1>1. \A v \in Workers \ {w} : Current(worker[v])'
  BY DEF Current, Free
<1>2. QED
  BY <1>1 DEF TurnsInv, Busy, Settled

\* What has been settled stays so while its row, lines and approvals do.
LEMMA SettledStays ==
  ASSUME TurnsInv, serial, NEW o \in Numbered,
         order'[o].status \notin Editable \cup Issuable,
         drafts'[o] = drafts[o], spent[o] \subseteq spent'[o]
  PROVE  Settled(o)'
BY DEF TurnsInv, Settled, Approved, Stored, Last

LEMMA TurnOrders ==
  ASSUME RowsInv, TurnsInv, serial, NEW w \in Workers, worker[w].pc # "free"
  PROVE  /\ \A v \in Workers \ {w} : worker[v] = Free
         /\ Current(worker[w])
         /\ worker[w].pc \in {"edit", "value", "gate", "number", "issue", "mark"}
              => worker[w].order \notin Numbered
BY DEF TurnsInv, Busy, Free, Current

LEMMA BeginTurn ==
  ASSUME RowsInv, RowsInv', TurnsInv, serial', NEW w \in Workers, NEW o \in Orders,
         Begin(w, o)
  PROVE  TurnsInv'
<1>1. /\ serial /\ \A v \in Workers : worker[v] = Free
      /\ UNCHANGED <<order, drafts, spent>>
  BY DEF Begin, BeginEdit, BeginIssue, BeginCancel, BeginReceive, Start, consent
<1>2. /\ \A v \in Workers \ {w} : worker'[v] = worker[v]
      /\ worker'[w].pc \in {"edit", "value", "cancel", "lines"}
      /\ worker'[w].pc = "edit" =>
           worker'[w].order = o /\ order[o].status \in Editable
      /\ worker'[w].pc = "value" =>
           worker'[w].order = o /\ order[o].status \in Issuable
  <2>1. CASE \E l \in Lists[o] : BeginEdit(w, o, l)
    BY <2>1 DEF BeginEdit, Start, Go, RowsInv
  <2>2. CASE BeginIssue(w, o)
    BY <2>2 DEF BeginIssue, Start, Go, RowsInv
  <2>3. CASE BeginCancel(w, o)
    BY <2>3 DEF BeginCancel, Start, Go, RowsInv
  <2>4. CASE BeginReceive(w, o)
    BY <2>4 DEF BeginReceive, Start, Go, RowsInv
  <2>5. QED
    BY <2>1, <2>2, <2>3, <2>4 DEF Begin
<1>3. Current(worker[w])'
  BY <1>1, <1>2 DEF Current
<1>4. \A v \in Numbered' : Settled(v)'
  BY <1>1 DEF TurnsInv, Settled, Approved, Stored, Last, Numbered
<1>5. QED
  BY <1>1, <1>2, <1>3, <1>4, TakesTurn

\* The statements of AdminIssuePurchaseOrder before its order is changed.
LEMMA IssuingTurn ==
  ASSUME RowsInv, RowsInv', TurnsInv, serial, NEW w \in Workers,
         Value(w) \/ Gate(w) \/ Number(w)
  PROVE  TurnsInv'
<1> DEFINE t == worker[w]
<1>1. /\ \A v \in Workers \ {w} : worker[v] = Free
      /\ Current(t)
  BY TurnOrders DEF Value, Gate, Number
<1>2. \A v \in Workers \ {w} : worker'[v] = worker[v]
  BY GateOutcome DEF Value, Gate, Number, Go, Pass, RowsInv
<1>3. /\ UNCHANGED <<order, drafts>>
      /\ \A o \in Orders : spent[o] \subseteq spent'[o]
  BY DEF Value, Gate, Number, consent, RowsInv
<1>4. \A o \in Numbered' : Settled(o)'
  <2>1. \A o \in Numbered' : o \in Numbered /\ o \in Orders
    BY <1>3 DEF Numbered
  <2>2. \A o \in Numbered : order'[o].status \notin Editable \cup Issuable
    BY <1>3 DEF TurnsInv
  <2>3. QED
    BY <1>3, <2>1, <2>2, SettledStays
<1>5. CASE Value(w)
  <2>1. worker'[w] = [pc |-> "gate", order |-> t.order, status |-> t.status,
                      number |-> t.number, amount |-> Stored(t.order).worth]
    BY <1>5 DEF Value, Go, RowsInv
  <2>2. Current(worker[w])'
    BY <1>1, <1>3, <1>5, <2>1 DEF Current, Value, Stored, Last
  <2>3. QED
    BY <1>1, <1>2, <1>4, <2>2, TakesTurn
<1>6. CASE Number(w)
  <2>1. t \in [pc : {"gate", "number", "issue"}, order : Orders,
               status : Issuable, number : Nat, amount : Nat]
    BY <1>6, Locals DEF Number
  <2>2. /\ worker'[w].pc = "issue" /\ worker'[w].order = t.order
        /\ worker'[w].amount = t.amount
    BY <1>6, <2>1 DEF Number, Go, RowsInv
  <2>3. UNCHANGED spent
    BY <1>6 DEF Number, consent
  <2>4. Current(worker[w])'
    BY <1>1, <1>3, <1>6, <2>2, <2>3 DEF Current, Number, Approved, Stored, Last
  <2>5. QED
    BY <1>1, <1>2, <1>4, <2>4, TakesTurn
<1>7. CASE Gate(w)
  <2>1. /\ t \in [pc : {"gate", "number", "issue"}, order : Orders,
                  status : Issuable, number : Nat, amount : Nat]
        /\ t.pc = "gate"
    BY <1>7, Locals DEF Gate
  <2>2. \/ worker'[w].pc = "free"
        \/ worker'[w].pc = "mark" /\ worker'[w].order = t.order
        \/ /\ Pass(w)
           /\ worker'[w].pc \in {"number", "issue"}
           /\ worker'[w].order = t.order /\ worker'[w].amount = t.amount
    <3>1. CASE Pass(w)
      <4>1. PICK x : /\ Go(w, x) /\ x.order = t.order /\ x.amount = t.amount
                     /\ x.pc = IF t.number = 0 THEN "number" ELSE "issue"
        BY <2>1, <3>1, PassLocals
      <4>2. worker'[w] = x
        BY <4>1 DEF Go, RowsInv
      <4>3. QED
        BY <3>1, <4>1, <4>2
    <3>2. CASE Go(w, Free)
      BY <3>2 DEF Go, RowsInv, Free
    <3>3. ASSUME NEW s, Go(w, [pc |-> "mark", order |-> t.order, status |-> s])
          PROVE  worker'[w].pc = "mark" /\ worker'[w].order = t.order
      BY <3>3 DEF Go, RowsInv
    <3>4. QED
      BY <1>7, <3>1, <3>2, <3>3, GateOutcome
  <2>3. Pass(w) => \/ t.amount < Floor
                   \/ \E a \in spent'[t.order] : a >= t.amount
                   \/ worker'[w].pc \in {"free", "mark"}
    <3>1. ASSUME NEW s, Blocked(w, s) PROVE worker'[w].pc \in {"free", "mark"}
      BY <3>1 DEF Blocked, Go, RowsInv, Free
    <3>2. ASSUME Covers(Newest(t.order), t.amount),
                 spent' = [spent EXCEPT ![t.order] = @ \cup {Newest(t.order).amount}]
          PROVE  \E a \in spent'[t.order] : a >= t.amount
      BY <2>1, <3>2 DEF Covers, RowsInv
    <3>3. \/ t.amount < Floor
          \/ /\ Covers(Newest(t.order), t.amount)
             /\ spent' = [spent EXCEPT ![t.order] = @ \cup {Newest(t.order).amount}]
          \/ \E s : Blocked(w, s)
      BY <1>7 DEF Gate
    <3>4. QED
      BY <3>1, <3>2, <3>3
  <2>4. Current(worker[w])'
    BY <1>1, <1>3, <2>1, <2>2, <2>3, PurchasingBounds
       DEF Current, Approved, Stored, Last
  <2>5. QED
    BY <1>1, <1>2, <1>4, <2>4, TakesTurn
<1>8. QED
  BY <1>5, <1>6, <1>7

\* The handler at work changes the row of q and is done.
LEMMA WritesRow ==
  ASSUME RowsInv, RowsInv', TurnsInv, serial, NEW w \in Workers, NEW q \in Orders,
         worker[w].pc # "free", Go(w, Free), spent' = spent,
         \A o \in Orders : o # q => order'[o] = order[o] /\ drafts'[o] = drafts[o],
         q \in Numbered' => Settled(q)'
  PROVE  TurnsInv'
<1>1. /\ \A v \in Workers \ {w} : worker[v] = Free /\ worker'[v] = worker[v]
      /\ worker'[w] = Free
  BY TurnOrders DEF Go, RowsInv
<1>2. Current(worker[w])'
  BY <1>1 DEF Current, Free
<1>3. ASSUME NEW o \in Numbered', o # q PROVE Settled(o)'
  <2>1. o \in Orders /\ order'[o] = order[o] /\ drafts'[o] = drafts[o]
    BY <1>3 DEF Numbered
  <2>2. o \in Numbered
    BY <1>3, <2>1 DEF Numbered
  <2>3. order'[o].status \notin Editable \cup Issuable
    BY <2>1, <2>2 DEF TurnsInv
  <2>4. spent[o] \subseteq spent'[o]
    OBVIOUS
  <2>5. QED
    BY <2>1, <2>2, <2>3, <2>4, SettledStays
<1>4. \A o \in Numbered' : Settled(o)'
  BY <1>3
<1>5. QED
  BY <1>1, <1>2, <1>4, TakesTurn

\* The statements that change a row.
LEMMA WritingTurn ==
  ASSUME RowsInv, RowsInv', ReceiptsInv, TurnsInv, serial, NEW w \in Workers,
         Writes(w)
  PROVE  TurnsInv'
<1>0. spent' = spent
  BY DEF Writes, Edit, Mark, Issue, Cancel, CommitReceipt, consent
<1>1. CASE Edit(w) \/ Mark(w)
  <2>1. PICK q : q = worker[w].order
    OBVIOUS
  <2>2. q \in Orders /\ worker[w].pc \in {"edit", "mark"}
    BY <1>1, <2>1, Locals DEF Edit, Mark
  <2>3. q \notin Numbered
    BY <2>1, <2>2, TurnOrders
  <2>4. /\ \A o \in Orders : o # q => order'[o] = order[o] /\ drafts'[o] = drafts[o]
        /\ order'[q].number = order[q].number
        /\ Go(w, Free)
    <3>1. CASE Edit(w)
      BY <3>1, <2>1, <2>2 DEF Edit, RowsInv
    <3>2. CASE Mark(w)
      BY <3>2, <2>1, <2>2 DEF Mark, RowsInv
    <3>3. QED
      BY <1>1, <3>1, <3>2
  <2>5. q \notin Numbered'
    BY <2>3, <2>4 DEF Numbered
  <2>6. QED
    BY <1>0, <2>2, <2>4, <2>5, WritesRow
<1>2. CASE Issue(w)
  <2>1. PICK q : q = worker[w].order
    OBVIOUS
  <2>2. q \in Orders /\ worker[w].pc = "issue"
    BY <1>2, <2>1, Locals DEF Issue
  <2>3. Approved(q, Stored(q).worth)
    BY <2>1, <2>2, TurnOrders DEF Current
  <2>4. /\ \A o \in Orders : o # q => order'[o] = order[o]
        /\ order'[q].status = "issued" /\ drafts' = drafts
        /\ Go(w, Free)
    BY <1>2, <2>1, <2>2 DEF Issue, RowsInv
  <2>5. Settled(q)'
    BY <1>0, <2>3, <2>4 DEF Settled, Approved, Stored, Last, Editable, Issuable
  <2>6. QED
    BY <1>0, <2>2, <2>4, <2>5, WritesRow
<1>3. CASE Cancel(w)
  <2>1. PICK q : q = worker[w].order
    OBVIOUS
  <2>2. q \in Orders /\ worker[w].pc = "cancel"
    BY <1>3, <2>1, Locals DEF Cancel
  <2>3. /\ \A o \in Orders : o # q => order'[o] = order[o]
        /\ order'[q].status = "cancelled" /\ order'[q].number = order[q].number
        /\ drafts' = drafts /\ Go(w, Free)
    BY <1>3, <2>1, <2>2 DEF Cancel, RowsInv
  <2>4. ASSUME q \in Numbered' PROVE Settled(q)'
    <3>1. q \in Numbered
      BY <2>3, <2>4 DEF Numbered
    <3>2. order'[q].status \notin Editable \cup Issuable
      BY <2>3 DEF Editable, Issuable
    <3>3. QED
      BY <1>0, <2>3, <3>1, <3>2, SettledStays
  <2>5. QED
    BY <1>0, <2>2, <2>3, <2>4, WritesRow
<1>4. CASE CommitReceipt(w)
  <2>1. PICK q, s : q = worker[w].own.order /\ s = worker[w].status
    OBVIOUS
  <2>2. /\ worker[w].pc = "commit" /\ worker[w].own \in Receipt
        /\ s \in {"received", "partly_received", worker[w].was}
        /\ q \in Numbered
    BY <1>4, <2>1, Locals DEF CommitReceipt, ReceiptsInv, Ordered, Subject
  <2>3. q \in Orders
    BY <2>2 DEF Numbered
  <2>4. order' = order \/ /\ order' = [order EXCEPT ![q].status = s]
                          /\ s \in {"received", "partly_received"}
    BY <1>4, <2>1, <2>2 DEF CommitReceipt
  <2>5. /\ \A o \in Orders : o # q => order'[o] = order[o]
        /\ order'[q].status \in {order[q].status, "received", "partly_received"}
        /\ drafts' = drafts /\ Go(w, Free)
    BY <1>4, <2>3, <2>4 DEF CommitReceipt, RowsInv
  <2>6. order'[q].status \notin Editable \cup Issuable
    <3>1. order[q].status \notin Editable \cup Issuable
      BY <2>2 DEF TurnsInv
    <3>2. /\ "received" \notin Editable \cup Issuable
          /\ "partly_received" \notin Editable \cup Issuable
      BY DEF Editable, Issuable
    <3>3. QED
      BY <2>5, <3>1, <3>2
  <2>7. Settled(q)'
    BY <1>0, <2>2, <2>5, <2>6, SettledStays
  <2>8. QED
    BY <1>0, <2>2, <2>3, <2>5, <2>7, WritesRow
<1>5. QED
  BY <1>1, <1>2, <1>3, <1>4 DEF Writes

\* The other statements of a receipt, and a handler that fails.
LEMMA ReadingTurn ==
  ASSUME RowsInv, RowsInv', TurnsInv, serial, NEW w \in Workers,
         \/ ReadLines(w)
         \/ \E delivery \in Deliveries : CheckOutstanding(w, delivery)
         \/ PostLine(w) \/ Reload(w) \/ Reread(w) \/ Recount(w) \/ Fail(w)
  PROVE  TurnsInv'
<1> DEFINE Past == {"free", "outstanding", "post", "reread", "recount", "commit"}
<1>1. \E x : Go(w, x) /\ x.pc \in Past
  <2>1. CASE PostLine(w)
    BY <2>1, PostLineOutcome DEF Free
  <2>2. ASSUME NEW delivery \in Deliveries, CheckOutstanding(w, delivery)
        PROVE  \E x : Go(w, x) /\ x.pc \in Past
    <3>1. \/ Go(w, Free)
          \/ \E own : Go(w, [pc |-> "post", next |-> 1, own |-> own])
      BY <2>2 DEF CheckOutstanding
    <3>2. CASE Go(w, Free)
      BY <3>2 DEF Free
    <3>3. ASSUME NEW own, Go(w, [pc |-> "post", next |-> 1, own |-> own])
          PROVE  \E x : Go(w, x) /\ x.pc \in Past
      <4>1. [pc |-> "post", next |-> 1, own |-> own].pc \in Past
        OBVIOUS
      <4>2. QED
        BY <3>3, <4>1
    <3>4. QED
      BY <3>1, <3>2, <3>3
  <2>3. CASE ReadLines(w)
    BY <2>3 DEF ReadLines
  <2>4. CASE Reload(w) \/ Reread(w) \/ Recount(w) \/ Fail(w)
    <3>1. CASE Reload(w)
      BY <3>1 DEF Reload
    <3>2. CASE Reread(w)
      BY <3>2 DEF Reread
    <3>3. CASE Recount(w)
      <4>1. \E s : Go(w, [pc |-> "commit", own |-> worker[w].own,
                          was |-> worker[w].was, status |-> s])
        BY <3>3 DEF Recount
      <4>2. QED
        BY <4>1
    <3>4. CASE Fail(w)
      BY <3>4 DEF Fail, Free
    <3>5. QED
      BY <2>4, <3>1, <3>2, <3>3, <3>4
  <2>5. QED
    BY <2>1, <2>2, <2>3, <2>4
<1>2. /\ \A v \in Workers \ {w} : worker[v] = Free /\ worker'[v] = worker[v]
      /\ UNCHANGED <<order, drafts, spent>>
  <2>1. worker[w].pc # "free"
    BY DEF ReadLines, CheckOutstanding, PostLine, Reload, Reread, Recount, Fail,
           RowsInv, Worker, Free
  <2>2. \A v \in Workers \ {w} : worker[v] = Free
    BY <2>1, TurnOrders
  <2>3. QED
    BY <1>1, <2>2 DEF ReadLines, CheckOutstanding, PostLine, Reload, Reread,
                      Recount, Fail, Go, RowsInv, consent
<1>3. Current(worker[w])'
  <2>1. worker'[w].pc \in {"free", "outstanding", "post", "reread", "recount", "commit"}
    BY <1>1 DEF Go, RowsInv
  <2>2. QED
    BY <2>1 DEF Current
<1>4. \A o \in Numbered' : Settled(o)'
  BY <1>2 DEF TurnsInv, Settled, Approved, Stored, Last, Numbered
<1>5. QED
  BY <1>2, <1>3, <1>4, TakesTurn

\* Steps no handler takes; a new order is nobody's subject yet.
LEMMA OtherTurn ==
  ASSUME RowsInv, RowsInv', TurnsInv, serial,
         \/ \E o \in Orders : \E l \in Lists[o] : Create(o, l)
         \/ UNCHANGED <<order, drafts, spent, worker>>
  PROVE  TurnsInv'
<1>1. CASE UNCHANGED <<order, drafts, spent, worker>>
  BY <1>1 DEF TurnsInv, Current, Approved, Stored, Last, Numbered, Busy
<1>2. ASSUME NEW q \in Orders, NEW l \in Lists[q], Create(q, l) PROVE TurnsInv'
  <2>1. /\ ~Exists(q) /\ q \notin Numbered
        /\ UNCHANGED <<worker, spent>>
        /\ \A o \in Orders : o # q => order'[o] = order[o] /\ drafts'[o] = drafts[o]
        /\ order'[q].number = order[q].number
    BY <1>2 DEF Create, consent, RowsInv, Numbered
  <2>2. \A v \in Workers : Current(worker[v])'
    <3>1. SUFFICES ASSUME NEW v \in Workers,
                          worker[v].pc \in {"edit", "value", "gate", "number",
                                            "issue", "mark"}
                   PROVE  Current(worker[v])'
      BY <2>1 DEF Current
    <3>2. worker[v].order \in Orders /\ worker[v].order # q
      <4>1. Subject(worker[v]) = worker[v].order /\ worker[v].pc # "free"
        BY <3>1 DEF Subject
      <4>2. Exists(worker[v].order)
        BY <4>1, AtWork
      <4>3. worker[v].order \in Orders
        BY <3>1, Locals
      <4>4. QED
        BY <2>1, <4>2, <4>3
    <3>3. Current(worker[v])
      BY DEF TurnsInv
    <3>4. QED
      BY <2>1, <3>2, <3>3 DEF Current, Approved, Stored, Last
  <2>3. \A o \in Numbered' : o \in Numbered /\ o # q
    BY <2>1 DEF Numbered
  <2>4. \A o \in Numbered' : Settled(o)'
    BY <2>1, <2>3 DEF TurnsInv, Settled, Approved, Stored, Last, Numbered
  <2>5. QED
    BY <2>1, <2>2, <2>4 DEF TurnsInv, Busy, Settled
<1>3. QED
  BY <1>1, <1>2

LEMMA TurnsStep ==
  RowsInv /\ RowsInv' /\ ReceiptsInv /\ TurnsInv /\ [Next]_pvars => TurnsInv'
<1> SUFFICES ASSUME RowsInv, RowsInv', ReceiptsInv, TurnsInv, [Next]_pvars, serial'
             PROVE  TurnsInv'
  BY DEF TurnsInv
<1>1. ASSUME NEW w \in Workers, NEW o \in Orders, Begin(w, o) PROVE TurnsInv'
  BY <1>1, BeginTurn
<1>2. ASSUME NEW w \in Workers, WorkerStep(w) \/ Fail(w) PROVE TurnsInv'
  <2>1. serial
    BY <1>2 DEF WorkerStep, Edit, Value, Gate, Mark, Number, Issue, Cancel,
                ReadLines, CheckOutstanding, PostLine, Reload, Reread, Recount,
                CommitReceipt, Fail
  <2>2. QED
    BY <1>2, <2>1, IssuingTurn, WritingTurn, ReadingTurn DEF WorkerStep, Writes
<1>3. ASSUME \/ \E o \in Orders : \E l \in Lists[o] : Create(o, l)
             \/ UNCHANGED <<order, drafts, spent, worker, serial>>
      PROVE  TurnsInv'
  BY <1>3, OtherTurn DEF Create
<1>4. QED
  BY <1>1, <1>2, <1>3
     DEF Next, Decide, Resubmit, DeleteProduct, goods, consent, pvars

-----------------------------------------------------------------------------
(* Together *)

LEMMA InitInv == Init => PurchasingInv
<1> SUFFICES ASSUME Init PROVE PurchasingInv
  OBVIOUS
<1>1. RowsInv
  BY PurchasingBounds DEF Init, RowsInv, Exists, Busy, Statuses
<1>2. Numbered = {} /\ \A w \in Workers : worker[w] = Free
  BY DEF Init, Numbered
<1>3. \A w \in Workers : Ordered(worker[w], Numbered) /\ Current(worker[w])
  BY <1>2 DEF Ordered, Current, Free
<1>4. GoodsWereOrdered
  BY DEF Init, GoodsWereOrdered, AnyReceived, Received
<1>5. \A o \in Orders : order[o].status \notin Receivable \cup {"received"}
  BY DEF Init, Receivable
<1>6. QED
  BY <1>1, <1>2, <1>3, <1>4, <1>5 DEF PurchasingInv, ReceiptsInv, TurnsInv, Busy

LEMMA StepInv == PurchasingInv /\ [Next]_pvars => PurchasingInv'
BY RowsStep, ReceiptsStep, TurnsStep DEF PurchasingInv

\* Rows and locals keep their shape, receipts are open only for numbered
\* orders, and while handlers take turns what each has read is still so: the
\* invariant the three results below come from (purchasing.go, every handler).
THEOREM PurchasingInvariant == Spec => []PurchasingInv
<1>1. Init => PurchasingInv
  BY InitInv
<1>2. PurchasingInv /\ [Next]_pvars => PurchasingInv'
  BY StepInv
<1>3. QED
  BY <1>1, <1>2, PTL DEF Spec

\* Goods come in only for an order that has been issued, for any number of
\* orders, lines, products and handlers at once: AdminReceiveGoods looks at the
\* status long before it writes, and what may overtake it takes no order's
\* number away.
THEOREM GoodsWereOrderedHolds == Spec => []GoodsWereOrdered
<1>1. PurchasingInv => GoodsWereOrdered
  BY DEF PurchasingInv, ReceiptsInv
<1>2. QED
  BY <1>1, PurchasingInvariant, PTL

\* While handlers run one after another, every issued order of the threshold
\* or above was approved for at least what it is worth, for any threshold and
\* any worth of lines (AdminIssuePurchaseOrder, AdminUpdatePurchaseOrder).
THEOREM ApprovedAsIssuedHolds == Spec => []ApprovedAsIssuedInTurn
<1>1. PurchasingInv => ApprovedAsIssuedInTurn
  BY DEF PurchasingInv, TurnsInv, Approved, ApprovedAsIssuedInTurn
<1>2. QED
  BY <1>1, PurchasingInvariant, PTL

\* What a step that could be unfair to an issued order works on.
LEMMA TouchesUnnumbered ==
  ASSUME PurchasingInv, Next, serial', NEW o \in Numbered
  PROVE  drafts'[o] = drafts[o] /\ order'[o].number = order[o].number
<1>0. RowsInv /\ TurnsInv /\ o \in Orders
  BY DEF PurchasingInv, Numbered
<1>1. ASSUME NEW w \in Workers, Edit(w) \/ Issue(w) \/ Mark(w) \/ Cancel(w)
      PROVE  drafts'[o] = drafts[o] /\ order'[o].number = order[o].number
  <2>1. PICK q : q = worker[w].order
    OBVIOUS
  <2>2. worker[w].pc \in {"edit", "issue"} => q # o
    <3>1. serial
      BY <1>1 DEF Edit, Issue, Mark, Cancel
    <3>2. QED
      BY <1>0, <2>1, <3>1, TurnOrders
  <2>3. CASE Edit(w)
    BY <1>0, <2>1, <2>2, <2>3 DEF Edit, RowsInv
  <2>4. CASE Issue(w)
    BY <1>0, <2>1, <2>2, <2>4 DEF Issue, RowsInv
  <2>5. CASE Mark(w)
    BY <1>0, <2>5 DEF Mark, RowsInv
  <2>6. CASE Cancel(w)
    BY <1>0, <2>6 DEF Cancel, RowsInv
  <2>7. QED
    BY <1>1, <2>3, <2>4, <2>5, <2>6
<1>2. ASSUME NEW w \in Workers, CommitReceipt(w)
      PROVE  drafts'[o] = drafts[o] /\ order'[o].number = order[o].number
  BY <1>0, <1>2 DEF CommitReceipt, RowsInv
<1>3. ASSUME NEW q \in Orders, NEW l \in Lists[q], Create(q, l)
      PROVE  drafts'[o] = drafts[o] /\ order'[o].number = order[o].number
  BY <1>0, <1>3 DEF Create, RowsInv, Numbered
<1>4. CASE UNCHANGED <<order, drafts>>
  BY <1>4
<1>5. ASSUME NEW w \in Workers, WorkerStep(w)
      PROVE  drafts'[o] = drafts[o] /\ order'[o].number = order[o].number
  BY <1>1, <1>2, <1>4, <1>5
     DEF WorkerStep, Value, Gate, Number, ReadLines, CheckOutstanding, PostLine,
         Reload, Reread, Recount
<1>6. ASSUME NEW w \in Workers, NEW q \in Orders, Begin(w, q)
      PROVE  UNCHANGED <<order, drafts>>
  BY <1>6 DEF Begin, BeginEdit, BeginIssue, BeginCancel, BeginReceive
<1>7. QED
  BY <1>3, <1>4, <1>5, <1>6 DEF Next, Fail, Decide, Resubmit, DeleteProduct

\* While handlers run one after another, an order that has been issued keeps
\* its lines and its number (AdminUpdatePurchaseOrder's refusal, and
\* AdminIssuePurchaseOrder keeping a number it finds).
THEOREM IssuedIsFrozenHolds == Spec => IssuedIsFrozenInTurn
<1> DEFINE Frozen == serial' => \A o \in Numbered :
                       drafts'[o] = drafts[o] /\ order'[o].number = order[o].number
<1>1. PurchasingInv /\ [Next]_pvars => Frozen
  BY TouchesUnnumbered DEF pvars
<1>2. PurchasingInv /\ [Next]_pvars => [Frozen]_pvars
  BY <1>1
<1>3. QED
  BY <1>2, PurchasingInvariant, PTL DEF Spec, IssuedIsFrozenInTurn

(* What has come in, and what an open receipt is bringing in *)

\* Lines are few enough, and there is one; what was received was received
\* against lines that were stored.
StockInv ==
  /\ got \in [Orders -> [DraftId -> [LineNo -> Nat]]]
  /\ shelf \in [Products -> Nat]
  /\ product \in [Products -> {"live", "deleted"}]
  /\ asks \in [Orders -> Seq(Ask)]
  /\ spent \in [Orders -> SUBSET Nat]
  /\ faults \in 0 .. MaxFaults

Modest(list) == list.lines # <<>> /\ Len(list.lines) <= MaxLines

LinesInv ==
  /\ \A o \in Orders : \A d \in 1 .. Len(drafts[o]) : Modest(drafts[o][d])
  /\ \A w \in Workers : worker[w].pc = "edit" => Modest(worker[w].list)
  /\ \A o \in Orders, d \in DraftId, k \in LineNo :
       Received(o, d, k) # 0 => d <= Len(drafts[o])

\* What the lines of a request before the n-th bring in against line k.
BroughtBefore(delivery, n, k) ==
  SumFunction([j \in DOMAIN delivery |->
     IF j < n /\ delivery[j].line = k THEN delivery[j].quantity ELSE 0])

BringsIn(r, n, p) ==
  [x \in Places |->
     IF x[1] = r.order /\ x[2] = r.draft /\ IsOf(x, p)
     THEN BroughtBefore(r.delivery, n, x[3]) ELSE 0]

\* How far an open receipt has come.
Posted(t) == IF t.pc = "post" THEN t.next ELSE Len(t.own.delivery) + 1

Placed(r) ==
  /\ r.draft <= Len(drafts[r.order])
  /\ \A j \in DOMAIN r.delivery :
       r.delivery[j].line \in DOMAIN drafts[r.order][r.draft].lines

\* A receipt has moved what its lines so far bring in.
MovedInv ==
  \A w \in Workers : LET t == worker[w] IN
    /\ t.pc = "outstanding" => t.draft <= Len(drafts[t.order])
    /\ InReceipt(w) =>
         /\ Placed(t.own)
         /\ \A p \in Products :
              t.own.moved[p] = SumFunction(BringsIn(t.own, Posted(t), p))

ShelfInv == StockInv /\ LinesInv /\ MovedInv /\ ShelfHoldsReceipts

\* While handlers take turns, what a receipt has read is still so, and what it
\* is about to write follows from it.
Sees(r) ==
  \A k \in DOMAIN Stored(r.order).lines :
    Seen(r, Len(drafts[r.order]), k) >= Stored(r.order).lines[k].quantity

Reads(t) ==
  /\ t.pc = "cancel" => ~AnyReceived(t.order)
  /\ t.pc \in {"value", "gate"} => t.number = order[t.order].number
  /\ t.pc = "issue" => t.number = NextNumber
  /\ t.pc = "outstanding" => t.draft = Len(drafts[t.order])
  /\ t.pc \in {"post", "reread", "recount", "commit"} =>
       t.own.draft = Len(drafts[t.own.order])
  /\ t.pc \in {"reread", "recount", "commit"} => t.was = order[t.own.order].status
  /\ t.pc = "recount" => t.now = Len(drafts[t.own.order])
  /\ t.pc = "commit" =>
       t.status = IF Sees(t.own) THEN "received" ELSE "partly_received"

AgreeInv == OrdersAgreeInTurn /\ (serial => \A w \in Workers : Reads(worker[w]))

-----------------------------------------------------------------------------
(* What has come in: shapes *)

LEMMA PlacesFinite == IsFiniteSet(Places)
<1> DEFINE N == DraftId \X LineNo
           Q == Orders \X N
           f == [x \in Places |-> <<x[1], <<x[2], x[3]>>>>]
<1>1. IsFiniteSet(DraftId) /\ IsFiniteSet(LineNo)
  BY PurchasingBounds, FS_Interval DEF DraftId, LineNo
<1>2. IsFiniteSet(N)
  BY <1>1, FS_Product
<1>3. IsFiniteSet(Q)
  BY <1>2, PurchasingBounds, FS_Product
<1>4. f \in Injection(Places, Q)
  <2>1. \A x \in Places : /\ x = <<x[1], x[2], x[3]>>
                          /\ x[1] \in Orders /\ x[2] \in DraftId /\ x[3] \in LineNo
    BY DEF Places
  <2>2. f \in [Places -> Q]
    BY <2>1
  <2>3. \A x, y \in Places : f[x] = f[y] => x = y
    <3> SUFFICES ASSUME NEW x \in Places, NEW y \in Places, f[x] = f[y] PROVE x = y
      OBVIOUS
    <3>1. f[x] = <<x[1], <<x[2], x[3]>>>> /\ f[y] = <<y[1], <<y[2], y[3]>>>>
      OBVIOUS
    <3>2. <<x[1], <<x[2], x[3]>>>> = <<y[1], <<y[2], y[3]>>>>
      BY <3>1
    <3>3. x[1] = y[1] /\ x[2] = y[2] /\ x[3] = y[3]
      BY <3>2
    <3>4. QED
      BY <2>1, <3>3
  <2>4. QED
    BY <2>2, <2>3 DEF Injection, IsInjective
<1>5. QED
  BY <1>3, <1>4, FS_Injection

\* A line of a request names a line and a positive number of units.
LEMMA DeliveryLine ==
  ASSUME NEW delivery \in Deliveries
  PROVE  /\ delivery # <<>> /\ DOMAIN delivery = 1 .. Len(delivery)
         /\ Len(delivery) \in Nat \ {0} /\ IsFiniteSet(DOMAIN delivery)
         /\ \A j \in DOMAIN delivery :
              delivery[j].line \in Nat \ {0} /\ delivery[j].quantity \in Nat \ {0}
<1>1. delivery \in Seq([line : Nat \ {0}, quantity : Nat \ {0}]) /\ delivery # <<>>
  BY PurchasingBounds DEF Delivery
<1>2. DOMAIN delivery = 1 .. Len(delivery) /\ Len(delivery) \in Nat \ {0}
  BY <1>1
<1>3. \A j \in 1 .. Len(delivery) :
        delivery[j] \in [line : Nat \ {0}, quantity : Nat \ {0}]
  <2>1. \A S : \A q \in Seq(S) : \A i \in 1 .. Len(q) : q[i] \in S
    OBVIOUS
  <2>2. QED
    BY <1>1, <2>1
<1>4. IsFiniteSet(DOMAIN delivery)
  BY <1>2, FS_Interval
<1>5. QED
  BY <1>1, <1>2, <1>3, <1>4

LEMMA BroughtNat ==
  ASSUME NEW delivery \in Deliveries, NEW n \in Nat, NEW k
  PROVE  BroughtBefore(delivery, n, k) \in Nat
<1> DEFINE f == [j \in DOMAIN delivery |->
                   IF j < n /\ delivery[j].line = k THEN delivery[j].quantity ELSE 0]
<1>1. \A j \in DOMAIN delivery : f[j] \in Nat
  BY DeliveryLine
<1>2. DOMAIN f = DOMAIN delivery /\ IsFiniteSet(DOMAIN delivery)
  BY DeliveryLine
<1> HIDE DEF f
<1>3. SumFunctionOnSet(f, DOMAIN delivery) \in Nat
  BY <1>1, <1>2, SumNat
<1>4. QED
  BY <1>2, <1>3 DEF BroughtBefore, SumFunction, f

\* Past the last line, everything has been brought in.
LEMMA BroughtAll ==
  ASSUME NEW delivery \in Deliveries, NEW n \in Nat, n > Len(delivery), NEW k
  PROVE  BroughtBefore(delivery, n, k) = Brought(delivery, k)
<1>1. DOMAIN delivery = 1 .. Len(delivery) /\ Len(delivery) \in Nat
  BY DeliveryLine
<1>2. \A j \in DOMAIN delivery : j < n
  BY <1>1
<1>3. [j \in DOMAIN delivery |->
         IF j < n /\ delivery[j].line = k THEN delivery[j].quantity ELSE 0]
      = [j \in DOMAIN delivery |->
           IF delivery[j].line = k THEN delivery[j].quantity ELSE 0]
  BY <1>2
<1>4. QED
  BY <1>3 DEF BroughtBefore, Brought

\* Before the first line, nothing.
LEMMA BroughtNone ==
  ASSUME NEW delivery \in Deliveries, NEW k
  PROVE  BroughtBefore(delivery, 1, k) = 0
<1> DEFINE f == [j \in DOMAIN delivery |->
                   IF j < 1 /\ delivery[j].line = k THEN delivery[j].quantity ELSE 0]
<1>1. DOMAIN f = DOMAIN delivery /\ IsFiniteSet(DOMAIN delivery)
  BY DeliveryLine
<1>2. \A j \in DOMAIN delivery : f[j] = 0
  BY DeliveryLine
<1> HIDE DEF f
<1>3. SumFunctionOnSet(f, DOMAIN delivery) = 0
  BY <1>1, <1>2, SumZero
<1>4. QED
  BY <1>1, <1>3 DEF BroughtBefore, SumFunction, f

\* One more line brings in its units against its line.
LEMMA BroughtNext ==
  ASSUME NEW delivery \in Deliveries, NEW n \in DOMAIN delivery, NEW k
  PROVE  BroughtBefore(delivery, n + 1, k) =
           BroughtBefore(delivery, n, k)
           + IF delivery[n].line = k THEN delivery[n].quantity ELSE 0
<1> DEFINE f(m) == [j \in DOMAIN delivery |->
                      IF j < m /\ delivery[j].line = k
                      THEN delivery[j].quantity ELSE 0]
<1>1. /\ DOMAIN delivery = 1 .. Len(delivery) /\ Len(delivery) \in Nat
      /\ IsFiniteSet(DOMAIN delivery) /\ n \in Nat
      /\ \A j \in DOMAIN delivery : delivery[j].quantity \in Nat
  BY DeliveryLine
<1>2. PICK g, h : g = f(n) /\ h = f(n + 1)
  OBVIOUS
<1>3. /\ \A j \in DOMAIN delivery : g[j] \in Int
      /\ h[n] \in Int /\ g[n] = 0
      /\ h[n] = IF delivery[n].line = k THEN delivery[n].quantity ELSE 0
      /\ \A j \in DOMAIN delivery \ {n} : h[j] = g[j]
      /\ DOMAIN g = DOMAIN delivery /\ DOMAIN h = DOMAIN delivery
  BY <1>1, <1>2
<1>4. SumFunctionOnSet(h, DOMAIN delivery)
        = SumFunctionOnSet(g, DOMAIN delivery) + h[n] - g[n]
  <2>1. PICK D : D = DOMAIN delivery
    OBVIOUS
  <2>2. /\ IsFiniteSet(D) /\ n \in D /\ \A j \in D : g[j] \in Int
        /\ h[n] \in Int /\ \A j \in D \ {n} : h[j] = g[j]
    BY <1>1, <1>3, <2>1
  <2>3. SumFunctionOnSet(h, D) = SumFunctionOnSet(g, D) + h[n] - g[n]
    BY <2>2, SumChange
  <2>4. QED
    BY <2>1, <2>3
<1>5. SumFunctionOnSet(g, DOMAIN delivery) \in Int
  BY <1>1, <1>3, SumInt
<1>6. /\ BroughtBefore(delivery, n + 1, k) = SumFunctionOnSet(h, DOMAIN delivery)
      /\ BroughtBefore(delivery, n, k) = SumFunctionOnSet(g, DOMAIN delivery)
  BY <1>2, <1>3 DEF BroughtBefore, SumFunction
<1>7. QED
  BY <1>3, <1>4, <1>5, <1>6

-----------------------------------------------------------------------------
(* Who writes what *)

\* Only the commit of a receipt and the deletion of a product touch goods.
LEMMA GoodsWriters ==
  ASSUME [Next]_pvars
  PROVE  \/ \E w \in Workers : CommitReceipt(w)
         \/ \E p \in Products : DeleteProduct(p)
         \/ UNCHANGED goods
<1>1. ASSUME NEW w \in Workers, NEW o \in Orders, Begin(w, o) PROVE UNCHANGED goods
  BY <1>1 DEF Begin, BeginEdit, BeginIssue, BeginCancel, BeginReceive, goods
<1>2. ASSUME NEW w \in Workers, WorkerStep(w), ~CommitReceipt(w)
      PROVE  UNCHANGED goods
  BY <1>2 DEF WorkerStep, Edit, Value, Gate, Mark, Number, Issue, Cancel, ReadLines,
              CheckOutstanding, PostLine, Reload, Reread, Recount, goods
<1>3. ASSUME NEW w \in Workers, Fail(w) PROVE UNCHANGED goods
  BY <1>3 DEF Fail, goods
<1>4. ASSUME NEW o \in Orders,
             \/ \E l \in Lists[o] : Create(o, l)
             \/ \E verdict \in {"approved", "rejected"} : Decide(o, verdict)
             \/ Resubmit(o)
      PROVE  UNCHANGED goods
  BY <1>4 DEF Create, Decide, Resubmit, goods
<1>5. CASE UNCHANGED pvars
  BY <1>5 DEF pvars, goods
<1>6. QED
  BY <1>1, <1>2, <1>3, <1>4, <1>5 DEF Next

\* Only the gate, a decision and a resubmission touch approvals.
LEMMA ConsentWriters ==
  ASSUME [Next]_pvars
  PROVE  \/ \E w \in Workers : Gate(w)
         \/ \E o \in Orders : (\E v \in {"approved", "rejected"} : Decide(o, v))
                              \/ Resubmit(o)
         \/ UNCHANGED consent
<1>1. ASSUME NEW w \in Workers, NEW o \in Orders, Begin(w, o) PROVE UNCHANGED consent
  BY <1>1 DEF Begin, BeginEdit, BeginIssue, BeginCancel, BeginReceive, consent
<1>2. ASSUME NEW w \in Workers, WorkerStep(w), ~Gate(w) PROVE UNCHANGED consent
  BY <1>2 DEF WorkerStep, Edit, Value, Mark, Number, Issue, Cancel, ReadLines,
              CheckOutstanding, PostLine, Reload, Reread, Recount, CommitReceipt,
              consent
<1>3. ASSUME NEW w \in Workers, Fail(w) PROVE UNCHANGED consent
  BY <1>3 DEF Fail, consent
<1>4. ASSUME NEW o \in Orders, NEW l \in Lists[o], Create(o, l)
      PROVE  UNCHANGED consent
  BY <1>4 DEF Create, consent
<1>5. ASSUME NEW p \in Products, DeleteProduct(p) PROVE UNCHANGED consent
  BY <1>5 DEF DeleteProduct, consent
<1>6. CASE UNCHANGED pvars
  BY <1>6 DEF pvars, consent
<1>7. QED
  BY <1>1, <1>2, <1>3, <1>4, <1>5, <1>6 DEF Next

-----------------------------------------------------------------------------
(* Types *)

\* What a receipt brings in against its lines, once it is there.
LEMMA CommitTyped ==
  ASSUME RowsInv, StockInv, NEW w \in Workers, CommitReceipt(w)
  PROVE  LET r == worker[w].own IN
         /\ r \in Receipt /\ r.order \in Orders /\ r.draft \in DraftId
         /\ r.delivery \in Deliveries /\ r.moved \in [Products -> Nat]
         /\ worker[w].pc = "commit"
         /\ \A k : Brought(r.delivery, k) \in Nat
         /\ \A o \in Orders, d \in DraftId, k \in LineNo :
              got'[o][d][k] = got[o][d][k] + IF o = r.order /\ d = r.draft
                                             THEN Brought(r.delivery, k) ELSE 0
         /\ \A p \in Products : shelf'[p] = shelf[p] + r.moved[p]
<1>1. PICK r : r = worker[w].own
  OBVIOUS
<1>2. worker[w].pc = "commit" /\ r \in Receipt
  BY <1>1, Locals DEF CommitReceipt
<1>3. /\ r.order \in Orders /\ r.draft \in DraftId
      /\ r.delivery \in Deliveries /\ r.moved \in [Products -> Nat]
  BY <1>2 DEF Receipt
<1>4. \A k : Brought(r.delivery, k) \in Nat
  <2>1. Len(r.delivery) + 1 \in Nat /\ Len(r.delivery) + 1 > Len(r.delivery)
    BY <1>3, DeliveryLine
  <2>2. QED
    BY <1>3, <2>1, BroughtAll, BroughtNat
<1>5. got' = [got EXCEPT ![r.order][r.draft] =
                [k \in LineNo |-> @[k] + Brought(r.delivery, k)]]
  BY <1>1 DEF CommitReceipt
<1>6. ASSUME NEW o \in Orders, NEW d \in DraftId, NEW k \in LineNo
      PROVE  got'[o][d][k] = got[o][d][k] + IF o = r.order /\ d = r.draft
                                            THEN Brought(r.delivery, k) ELSE 0
  <2>1. got \in [Orders -> [DraftId -> [LineNo -> Nat]]]
    BY DEF StockInv
  <2>2. got[o][d][k] \in Nat
    BY <2>1
  <2>3. CASE o = r.order /\ d = r.draft
    BY <1>3, <1>5, <2>1, <2>3
  <2>4. CASE o # r.order \/ d # r.draft
    <3>1. got'[o][d] = got[o][d]
      BY <1>3, <1>5, <2>1, <2>4
    <3>2. QED
      BY <2>2, <2>4, <3>1
  <2>5. QED
    BY <2>3, <2>4
<1>7. \A p \in Products : shelf'[p] = shelf[p] + r.moved[p]
  BY <1>1 DEF CommitReceipt
<1>8. QED
  BY <1>1, <1>2, <1>3, <1>4, <1>6, <1>7

LEMMA GoodsTyped ==
  ASSUME RowsInv, StockInv, [Next]_pvars
  PROVE  /\ got' \in [Orders -> [DraftId -> [LineNo -> Nat]]]
         /\ shelf' \in [Products -> Nat]
         /\ product' \in [Products -> {"live", "deleted"}]
<1>1. ASSUME NEW w \in Workers, CommitReceipt(w)
      PROVE  /\ got' \in [Orders -> [DraftId -> [LineNo -> Nat]]]
             /\ shelf' \in [Products -> Nat]
             /\ product' \in [Products -> {"live", "deleted"}]
  <2>1. PICK r : r = worker[w].own
    OBVIOUS
  <2>2. /\ r.order \in Orders /\ r.draft \in DraftId
        /\ r.moved \in [Products -> Nat] /\ \A k : Brought(r.delivery, k) \in Nat
    BY <1>1, <2>1, CommitTyped
  <2>3. /\ got' = [got EXCEPT ![r.order][r.draft] =
                     [k \in LineNo |-> @[k] + Brought(r.delivery, k)]]
        /\ shelf' = [p \in Products |-> shelf[p] + r.moved[p]]
        /\ product' = product
    BY <1>1, <2>1 DEF CommitReceipt
  <2>4. got \in [Orders -> [DraftId -> [LineNo -> Nat]]]
    BY DEF StockInv
  <2>5. PICK row : row = [k \in LineNo |-> got[r.order][r.draft][k]
                                           + Brought(r.delivery, k)]
    OBVIOUS
  <2>6. row \in [LineNo -> Nat]
    BY <2>2, <2>4, <2>5
  <2>7. got' = [got EXCEPT ![r.order] = [got[r.order] EXCEPT ![r.draft] = row]]
    BY <2>2, <2>3, <2>4, <2>5
  <2>8. got' \in [Orders -> [DraftId -> [LineNo -> Nat]]]
    BY <2>2, <2>4, <2>6, <2>7
  <2>9. shelf' \in [Products -> Nat]
    BY <2>2, <2>3 DEF StockInv
  <2>10. QED
    BY <2>3, <2>8, <2>9 DEF StockInv
<1>2. ASSUME NEW p \in Products, DeleteProduct(p)
      PROVE  /\ got' \in [Orders -> [DraftId -> [LineNo -> Nat]]]
             /\ shelf' \in [Products -> Nat]
             /\ product' \in [Products -> {"live", "deleted"}]
  BY <1>2 DEF DeleteProduct, StockInv
<1>3. CASE UNCHANGED goods
  BY <1>3 DEF goods, StockInv
<1>4. QED
  BY <1>1, <1>2, <1>3, GoodsWriters

\* What a request raised, taken back or decided leaves in the list.
LEMMA AskSequences ==
  ASSUME NEW q \in Seq(Ask)
  PROVE  /\ \A a \in Ask : Append(q, a) \in Seq(Ask)
         /\ q # <<>> => /\ Front(q) \in Seq(Ask) /\ Last(q) \in Ask
                        /\ Len(q) \in DOMAIN q
         /\ \A i \in DOMAIN q : q[i] \in Ask
         /\ \A i \in DOMAIN q, s \in {"approved", "rejected"} :
              [q EXCEPT ![i].status = s] \in Seq(Ask)
<1>1. /\ DOMAIN q = 1 .. Len(q) /\ Len(q) \in Nat
      /\ \A a \in Ask : Append(q, a) \in Seq(Ask)
      /\ q # <<>> => Len(q) \in 1 .. Len(q)
  OBVIOUS
<1>2. \A i \in DOMAIN q : q[i] \in Ask
  <2>1. \A S : \A s \in Seq(S) : \A i \in 1 .. Len(s) : s[i] \in S
    OBVIOUS
  <2>2. QED
    BY <1>1, <2>1
<1>3. q # <<>> => Front(q) \in Seq(Ask) /\ Last(q) \in Ask
  BY <1>1, <1>2 DEF Front, Last
<1>4. ASSUME NEW i \in DOMAIN q, NEW s \in {"approved", "rejected"}
      PROVE  [q EXCEPT ![i].status = s] \in Seq(Ask)
  <2>1. [q[i] EXCEPT !.status = s] \in Ask
    BY <1>2 DEF Ask
  <2>2. [q EXCEPT ![i].status = s] = [q EXCEPT ![i] = [q[i] EXCEPT !.status = s]]
    OBVIOUS
  <2>3. QED
    BY <1>1, <2>1, <2>2
<1>5. QED
  BY <1>1, <1>2, <1>3, <1>4

LEMMA ConsentTyped ==
  ASSUME RowsInv, StockInv, [Next]_pvars
  PROVE  asks' \in [Orders -> Seq(Ask)] /\ spent' \in [Orders -> SUBSET Nat]
<1> DEFINE Goal == asks' \in [Orders -> Seq(Ask)] /\ spent' \in [Orders -> SUBSET Nat]
<1>0. asks \in [Orders -> Seq(Ask)] /\ spent \in [Orders -> SUBSET Nat]
  BY DEF StockInv
<1>1. ASSUME NEW o \in Orders, NEW q \in Seq(Ask),
             asks' = [asks EXCEPT ![o] = q], spent' = spent
      PROVE  Goal
  BY <1>0, <1>1
<1>2. ASSUME NEW o \in Orders, NEW n \in Nat, Raised(o, n), spent' = spent
      PROVE  Goal
  <2>1. [status |-> "pending", amount |-> n] \in Ask
    BY DEF Ask
  <2>2. Append(asks[o], [status |-> "pending", amount |-> n]) \in Seq(Ask)
    BY <1>0, <2>1, AskSequences
  <2>3. QED
    BY <1>1, <1>2, <2>2 DEF Raised
<1>3. ASSUME NEW w \in Workers, Gate(w) PROVE Goal
  <2>1. PICK o, n : o = worker[w].order /\ n = worker[w].amount
    OBVIOUS
  <2>2. o \in Orders /\ n \in Nat
    BY <1>3, <2>1, Locals DEF Gate
  <2>3. CASE UNCHANGED consent
    BY <1>0, <2>3 DEF consent
  <2>4. CASE Raised(o, n) /\ UNCHANGED spent
    BY <1>2, <2>2, <2>4
  <2>5. CASE /\ Covers(Newest(o), n)
             /\ asks' = [asks EXCEPT ![o] = Front(@)]
             /\ spent' = [spent EXCEPT ![o] = @ \cup {Newest(o).amount}]
    <3>1. asks[o] # <<>> /\ Newest(o) = Last(asks[o])
      BY <2>5 DEF Newest, Covers
    <3>2. Front(asks[o]) \in Seq(Ask) /\ Newest(o) \in Ask
      BY <1>0, <2>2, <3>1, AskSequences
    <3>3. Newest(o).amount \in Nat
      BY <3>2 DEF Ask
    <3>4. QED
      BY <1>0, <2>2, <2>5, <3>2, <3>3
  <2>6. QED
    BY <1>3, <2>1, <2>3, <2>4, <2>5 DEF Gate
<1>4. ASSUME NEW o \in Orders, NEW v \in {"approved", "rejected"}, Decide(o, v)
      PROVE  Goal
  <2>1. asks[o] # <<>>
    BY <1>4 DEF Decide, Newest
  <2>2. PICK i : i = Len(asks[o])
    OBVIOUS
  <2>3. i \in DOMAIN asks[o] /\ [asks[o] EXCEPT ![i].status = v] \in Seq(Ask)
    BY <1>0, <2>1, <2>2, AskSequences
  <2>4. asks' = [asks EXCEPT ![o] = [asks[o] EXCEPT ![i].status = v]]
    BY <1>0, <1>4, <2>2 DEF Decide
  <2>5. QED
    BY <1>1, <1>4, <2>3, <2>4 DEF Decide
<1>5. ASSUME NEW o \in Orders, Resubmit(o) PROVE Goal
  <2>1. PICK i \in DOMAIN asks[o] : Raised(o, asks[o][i].amount)
    BY <1>5 DEF Resubmit
  <2>2. asks[o][i].amount \in Nat
    BY <1>0, <2>1, AskSequences DEF Ask
  <2>3. QED
    BY <1>2, <1>5, <2>1, <2>2 DEF Resubmit
<1>6. CASE UNCHANGED consent
  BY <1>0, <1>6 DEF consent
<1>7. QED
  BY <1>3, <1>4, <1>5, <1>6, ConsentWriters

LEMMA FaultsTyped ==
  ASSUME RowsInv, StockInv, [Next]_pvars PROVE faults' \in 0 .. MaxFaults
<1>0. faults \in 0 .. MaxFaults /\ MaxFaults \in Nat
  BY PurchasingBounds DEF StockInv
<1>1. ASSUME NEW w \in Workers, Fail(w) PROVE faults' \in 0 .. MaxFaults
  BY <1>0, <1>1 DEF Fail
<1>2. ASSUME ~\E w \in Workers : Fail(w) PROVE faults' = faults
  BY <1>2 DEF Next, pvars, Begin, BeginEdit, BeginIssue, BeginCancel, BeginReceive,
     WorkerStep, Edit, Value, Gate, Mark, Number, Issue, Cancel, ReadLines,
     CheckOutstanding, PostLine, Reload, Reread, Recount, CommitReceipt,
     Create, Decide, Resubmit, DeleteProduct
<1>3. QED
  BY <1>0, <1>1, <1>2

LEMMA StockStep == RowsInv /\ StockInv /\ [Next]_pvars => StockInv'
BY GoodsTyped, ConsentTyped, FaultsTyped DEF StockInv

-----------------------------------------------------------------------------
(* Lines *)

\* Only a new order and an edit touch the lines.
LEMMA DraftWriters ==
  ASSUME [Next]_pvars
  PROVE  \/ \E w \in Workers : Edit(w)
         \/ \E o \in Orders : \E l \in Lists[o] : Create(o, l)
         \/ drafts' = drafts
<1>1. ASSUME NEW w \in Workers, NEW o \in Orders, Begin(w, o) PROVE drafts' = drafts
  BY <1>1 DEF Begin, BeginEdit, BeginIssue, BeginCancel, BeginReceive
<1>2. ASSUME NEW w \in Workers, WorkerStep(w), ~Edit(w) PROVE drafts' = drafts
  BY <1>2 DEF WorkerStep, Value, Gate, Mark, Number, Issue, Cancel, ReadLines,
              CheckOutstanding, PostLine, Reload, Reread, Recount, CommitReceipt
<1>3. CASE UNCHANGED pvars
  BY <1>3 DEF pvars
<1>4. QED
  BY <1>1, <1>2, <1>3 DEF Next, Fail, Decide, Resubmit, DeleteProduct

\* An edit adds to the history of an order's lines; those it has stay.
LEMMA DraftsGrow ==
  ASSUME RowsInv, [Next]_pvars, NEW o \in Orders, Exists(o)
  PROVE  /\ Len(drafts[o]) \in Nat /\ Len(drafts'[o]) \in Nat
         /\ Len(drafts[o]) <= Len(drafts'[o])
         /\ \A d \in 1 .. Len(drafts[o]) : drafts'[o][d] = drafts[o][d]
<1>0. drafts \in [Orders -> Seq(List)] /\ Len(drafts[o]) \in Nat
  BY DEF RowsInv
<1>1. ASSUME NEW w \in Workers, Edit(w)
      PROVE  drafts'[o] = drafts[o] \/ \E l : drafts'[o] = Append(drafts[o], l)
  BY <1>0, <1>1 DEF Edit
<1>2. ASSUME NEW q \in Orders, NEW l \in Lists[q], Create(q, l)
      PROVE  drafts'[o] = drafts[o]
  BY <1>0, <1>2 DEF Create
<1>3. drafts'[o] = drafts[o] \/ \E l : drafts'[o] = Append(drafts[o], l)
  BY <1>1, <1>2, DraftWriters
<1>4. QED
  BY <1>0, <1>3

\* A line that is stored, or was, is of the same product ever after.
LEMMA OfStays ==
  ASSUME RowsInv, [Next]_pvars, NEW x \in Places, Exists(x[1]),
         x[2] <= Len(drafts[x[1]]), NEW p
  PROVE  IsOf(x, p)' <=> IsOf(x, p)
<1>1. x[1] \in Orders /\ x[2] \in DraftId
  BY DEF Places
<1>2. x[2] \in Nat \ {0}
  BY <1>1 DEF DraftId
<1>3. /\ x[2] <= Len(drafts'[x[1]])
      /\ drafts'[x[1]][x[2]] = drafts[x[1]][x[2]]
  BY <1>1, <1>2, DraftsGrow
<1>4. QED
  BY <1>3 DEF IsOf

\* What a clerk stores has a line, and few enough.
LEMMA ListsModest == \A o \in Orders : \A l \in Lists[o] : Modest(l)
BY PurchasingBounds DEF Modest

\* Only BeginEdit leaves a handler about to edit.
LEMMA EditsBegin ==
  ASSUME RowsInv, [Next]_pvars, NEW v \in Workers, worker'[v].pc = "edit"
  PROVE  \/ worker'[v] = worker[v]
         \/ \E o \in Orders : \E l \in Lists[o] :
              worker'[v] = [pc |-> "edit", order |-> o, list |-> l]
<1> DEFINE Goal == \/ worker'[v] = worker[v]
                   \/ \E o \in Orders : \E l \in Lists[o] :
                        worker'[v] = [pc |-> "edit", order |-> o, list |-> l]
<1>0. worker \in [Workers -> Worker \cup {Free}]
  BY DEF RowsInv
<1>1. ASSUME NEW w \in Workers, NEW x, Go(w, x)
      PROVE  worker'[v] = worker[v] \/ worker'[v] = x
  BY <1>0, <1>1 DEF Go
<1>2. ASSUME NEW w \in Workers, NEW o \in Orders, Begin(w, o) PROVE Goal
  <2>1. ASSUME NEW l \in Lists[o], BeginEdit(w, o, l) PROVE Goal
    BY <1>1, <2>1 DEF BeginEdit, Start
  <2>2. ASSUME NEW x, Go(w, x), x.pc # "edit" PROVE Goal
    BY <1>1, <2>2
  <2>3. CASE BeginIssue(w, o)
    BY <2>2, <2>3 DEF BeginIssue, Start
  <2>4. CASE BeginCancel(w, o)
    BY <2>2, <2>4 DEF BeginCancel, Start
  <2>5. CASE BeginReceive(w, o)
    BY <2>2, <2>5 DEF BeginReceive, Start
  <2>6. QED
    BY <1>2, <2>1, <2>3, <2>4, <2>5 DEF Begin
<1>3. ASSUME NEW w \in Workers, NEW x, Go(w, x), x.pc # "edit" PROVE Goal
  BY <1>1, <1>3
<1>4. Free.pc # "edit"
  BY DEF Free
<1>5. ASSUME NEW w \in Workers, WorkerStep(w) PROVE Goal
  <2>1. CASE Edit(w) \/ Mark(w) \/ Issue(w) \/ Cancel(w) \/ CommitReceipt(w)
    BY <1>3, <1>4, <2>1 DEF Edit, Mark, Issue, Cancel, CommitReceipt
  <2>2. CASE Value(w)
    BY <1>3, <2>2 DEF Value
  <2>3. CASE Gate(w)
    <3>1. worker[w].pc = "gate"
      BY <2>3 DEF Gate
    <3>2. CASE Pass(w)
      <4>1. PICK x : Go(w, x) /\ x.pc \in {"number", "issue"}
        BY <3>1, <3>2, PassLocals
      <4>2. QED
        BY <1>3, <4>1
    <3>3. ASSUME NEW o, NEW s, Go(w, [pc |-> "mark", order |-> o, status |-> s])
          PROVE  Goal
      <4>1. [pc |-> "mark", order |-> o, status |-> s].pc # "edit"
        OBVIOUS
      <4>2. QED
        BY <1>3, <3>3, <4>1
    <3>4. CASE Go(w, Free)
      BY <1>3, <1>4, <3>4
    <3>5. QED
      BY <2>3, <3>2, <3>3, <3>4, GateOutcome
  <2>4. CASE Number(w)
    <3>1. /\ worker[w] \in [pc : {"gate", "number", "issue"}, order : Orders,
                            status : Issuable, number : Nat, amount : Nat]
          /\ Go(w, [worker[w] EXCEPT !.pc = "issue", !.number = NextNumber])
      BY <2>4, Locals DEF Number
    <3>2. QED
      BY <1>3, <3>1
  <2>5. CASE ReadLines(w)
    BY <1>3, <2>5 DEF ReadLines
  <2>6. ASSUME NEW delivery \in Deliveries, CheckOutstanding(w, delivery) PROVE Goal
    <3>1. \/ Go(w, Free)
          \/ \E own : Go(w, [pc |-> "post", next |-> 1, own |-> own])
      BY <2>6 DEF CheckOutstanding
    <3>2. \A own : [pc |-> "post", next |-> 1, own |-> own].pc # "edit"
      OBVIOUS
    <3>3. QED
      BY <1>3, <1>4, <3>1, <3>2
  <2>7. CASE PostLine(w)
    <3>1. \/ Go(w, Free)
          \/ \E x \in [pc : {"post"}, own : Receipt, next : Nat \ {0}] : Go(w, x)
      BY <2>7, PostLineOutcome
    <3>2. QED
      BY <1>3, <1>4, <3>1
  <2>8. CASE Reload(w)
    BY <1>3, <2>8 DEF Reload
  <2>9. CASE Reread(w)
    BY <1>3, <2>9 DEF Reread
  <2>10. CASE Recount(w)
    <3>1. \E s : Go(w, [pc |-> "commit", own |-> worker[w].own,
                        was |-> worker[w].was, status |-> s])
      BY <2>10 DEF Recount
    <3>2. \A s : [pc |-> "commit", own |-> worker[w].own,
                  was |-> worker[w].was, status |-> s].pc # "edit"
      OBVIOUS
    <3>3. QED
      BY <1>3, <3>1, <3>2
  <2>11. QED
    BY <1>5, <2>1, <2>2, <2>3, <2>4, <2>5, <2>6, <2>7, <2>8, <2>9, <2>10 DEF WorkerStep
<1>6. ASSUME NEW w \in Workers, Fail(w) PROVE Goal
  BY <1>3, <1>4, <1>6 DEF Fail
<1>7. CASE UNCHANGED worker
  BY <1>7
<1>8. QED
  BY <1>2, <1>5, <1>6, <1>7
     DEF Next, Create, Decide, Resubmit, DeleteProduct, pvars

LEMMA LinesStep ==
  RowsInv /\ ReceiptsInv /\ StockInv /\ MovedInv /\ LinesInv /\ [Next]_pvars
  => LinesInv'
<1> SUFFICES ASSUME RowsInv, ReceiptsInv, StockInv, MovedInv, LinesInv, [Next]_pvars
             PROVE  LinesInv'
  OBVIOUS
<1>0. drafts \in [Orders -> Seq(List)]
  BY DEF RowsInv
<1>1. ASSUME NEW o \in Orders, NEW d \in 1 .. Len(drafts'[o])
      PROVE  Modest(drafts'[o][d])
  <2>0. \A e \in 1 .. Len(drafts[o]) : Modest(drafts[o][e])
    BY DEF LinesInv
  <2>1. ASSUME NEW w \in Workers, Edit(w) PROVE Modest(drafts'[o][d])
    <3>1. PICK l : l = worker[w].list
      OBVIOUS
    <3>2. Modest(l)
      BY <2>1, <3>1 DEF Edit, LinesInv
    <3>3. drafts'[o] = drafts[o] \/ drafts'[o] = Append(drafts[o], l)
      BY <1>0, <2>1, <3>1 DEF Edit
    <3>4. QED
      BY <1>0, <2>0, <3>2, <3>3
  <2>2. ASSUME NEW q \in Orders, NEW l \in Lists[q], Create(q, l)
        PROVE  Modest(drafts'[o][d])
    <3>1. drafts'[o] = drafts[o] \/ drafts'[o] = <<l>>
      BY <1>0, <2>2 DEF Create
    <3>2. QED
      BY <2>0, <3>1, ListsModest
  <2>3. QED
    BY <2>0, <2>1, <2>2, DraftWriters
<1>2. ASSUME NEW v \in Workers, worker'[v].pc = "edit" PROVE Modest(worker'[v].list)
  <2>1. CASE worker'[v] = worker[v]
    BY <1>2, <2>1 DEF LinesInv
  <2>2. ASSUME NEW o \in Orders, NEW l \in Lists[o],
               worker'[v] = [pc |-> "edit", order |-> o, list |-> l]
        PROVE  Modest(worker'[v].list)
    BY <2>2, ListsModest
  <2>3. QED
    BY <1>2, <2>1, <2>2, EditsBegin
<1>3. ASSUME NEW o \in Orders, NEW d \in DraftId, NEW k \in LineNo,
             got'[o][d][k] # 0
      PROVE  d <= Len(drafts'[o])
  <2>1. CASE got[o][d][k] # 0
    <3>1. d <= Len(drafts[o]) /\ AnyReceived(o)
      <4>1. got[o][d][k] \in Nat
        BY DEF StockInv
      <4>2. QED
        BY <2>1, <4>1 DEF LinesInv, Received, AnyReceived
    <3>2. Exists(o)
      BY <3>1 DEF ReceiptsInv, GoodsWereOrdered, Numbered, RowsInv
    <3>3. QED
      BY <3>1, <3>2, DraftsGrow DEF DraftId
  <2>2. CASE got[o][d][k] = 0
    <3>1. PICK w \in Workers : CommitReceipt(w)
      BY <1>3, <2>2, GoodsWriters DEF goods, DeleteProduct
    <3>2. PICK r : r = worker[w].own
      OBVIOUS
    <3>3. o = r.order /\ d = r.draft /\ worker[w].pc = "commit"
      BY <1>3, <2>2, <3>1, <3>2, CommitTyped
    <3>4. d <= Len(drafts[o])
      BY <3>2, <3>3 DEF MovedInv, InReceipt, Placed
    <3>5. drafts' = drafts
      BY <3>1 DEF CommitReceipt
    <3>6. QED
      BY <3>4, <3>5
  <2>3. QED
    BY <2>1, <2>2
<1>4. QED
  BY <1>1, <1>2, <1>3 DEF LinesInv, Received

-----------------------------------------------------------------------------
(* What an open receipt has moved *)

\* A handler's locals change only by a step of its own.
LEMMA OwnStep ==
  ASSUME RowsInv, [Next]_pvars, NEW v \in Workers, worker'[v] # worker[v]
  PROVE  (\E o \in Orders : Begin(v, o)) \/ WorkerStep(v) \/ Fail(v)
<1>0. worker \in [Workers -> Worker \cup {Free}]
  BY DEF RowsInv
<1>1. ASSUME NEW w \in Workers, NEW x, Go(w, x) PROVE w = v
  BY <1>0, <1>1 DEF Go
<1>2. ASSUME NEW w \in Workers, NEW o \in Orders, Begin(w, o) PROVE w = v
  BY <1>1, <1>2 DEF Begin, BeginEdit, BeginIssue, BeginCancel, BeginReceive, Start
<1>3. ASSUME NEW w \in Workers, WorkerStep(w) PROVE w = v
  <2>1. \E x : Go(w, x)
    <3>1. CASE Gate(w)
      BY <3>1, GateOutcome DEF Pass
    <3>2. CASE PostLine(w)
      BY <3>2 DEF PostLine
    <3>3. ASSUME NEW delivery \in Deliveries, CheckOutstanding(w, delivery)
          PROVE  \E x : Go(w, x)
      BY <3>3 DEF CheckOutstanding
    <3>4. CASE Edit(w) \/ Value(w) \/ Mark(w) \/ Number(w) \/ Issue(w) \/ Cancel(w)
      BY <3>4 DEF Edit, Value, Mark, Number, Issue, Cancel
    <3>5. CASE ReadLines(w) \/ Reload(w) \/ Reread(w) \/ Recount(w)
               \/ CommitReceipt(w)
      BY <3>5 DEF ReadLines, Reload, Reread, Recount, CommitReceipt
    <3>6. QED
      BY <1>3, <3>1, <3>2, <3>3, <3>4, <3>5 DEF WorkerStep
  <2>2. QED
    BY <1>1, <2>1
<1>4. ASSUME NEW w \in Workers, Fail(w) PROVE w = v
  BY <1>1, <1>4 DEF Fail
<1>5. QED
  BY <1>2, <1>3, <1>4 DEF Next, Create, Decide, Resubmit, DeleteProduct, pvars

\* Where the statements outside a receipt leave their handler.
LEMMA Outcomes ==
  ASSUME RowsInv, NEW w \in Workers
  PROVE  /\ \A o \in Orders : Begin(w, o) =>
              worker'[w].pc \in {"edit", "value", "cancel", "lines"}
         /\ Edit(w) \/ Mark(w) \/ Issue(w) \/ Cancel(w) \/ CommitReceipt(w)
              \/ Fail(w) => worker'[w] = Free
         /\ Value(w) => worker'[w].pc = "gate"
         /\ Gate(w) => worker'[w].pc \in {"number", "issue", "mark", "free"}
         /\ Number(w) => worker'[w].pc = "issue"
<1>1. \A x : Go(w, x) => worker'[w] = x
  BY DEF Go, RowsInv
<1>2. ASSUME NEW o \in Orders, Begin(w, o)
      PROVE  worker'[w].pc \in {"edit", "value", "cancel", "lines"}
  <2>1. ASSUME NEW l \in Lists[o], BeginEdit(w, o, l) PROVE worker'[w].pc = "edit"
    BY <1>1, <2>1 DEF BeginEdit, Start
  <2>2. CASE BeginIssue(w, o)
    BY <1>1, <2>2 DEF BeginIssue, Start
  <2>3. CASE BeginCancel(w, o)
    BY <1>1, <2>3 DEF BeginCancel, Start
  <2>4. CASE BeginReceive(w, o)
    BY <1>1, <2>4 DEF BeginReceive, Start
  <2>5. QED
    BY <1>2, <2>1, <2>2, <2>3, <2>4 DEF Begin
<1>3. Edit(w) \/ Mark(w) \/ Issue(w) \/ Cancel(w) \/ CommitReceipt(w) \/ Fail(w)
        => worker'[w] = Free
  BY <1>1 DEF Edit, Mark, Issue, Cancel, CommitReceipt, Fail
<1>4. Value(w) => worker'[w].pc = "gate"
  BY <1>1 DEF Value
<1>5. ASSUME Gate(w) PROVE worker'[w].pc \in {"number", "issue", "mark", "free"}
  <2>1. worker[w].pc = "gate"
    BY <1>5 DEF Gate
  <2>2. CASE Pass(w)
    BY <1>1, <2>1, <2>2, PassLocals
  <2>3. ASSUME NEW o, NEW s, Go(w, [pc |-> "mark", order |-> o, status |-> s])
        PROVE  worker'[w].pc = "mark"
    BY <1>1, <2>3
  <2>4. CASE Go(w, Free)
    BY <1>1, <2>4 DEF Free
  <2>5. QED
    BY <1>5, <2>2, <2>3, <2>4, GateOutcome
<1>6. ASSUME Number(w) PROVE worker'[w].pc = "issue"
  <2>1. /\ worker[w] \in [pc : {"gate", "number", "issue"}, order : Orders,
                          status : Issuable, number : Nat, amount : Nat]
        /\ Go(w, [worker[w] EXCEPT !.pc = "issue", !.number = NextNumber])
    BY <1>6, Locals DEF Number
  <2>2. QED
    BY <1>1, <2>1
<1>7. QED
  BY <1>2, <1>3, <1>4, <1>5, <1>6

\* What an open receipt stands on stays, whoever takes a step.
LEMMA BringingStays ==
  ASSUME RowsInv, [Next]_pvars, NEW r \in Receipt, Exists(r.order), Placed(r),
         NEW n, NEW p
  PROVE  Placed(r)' /\ BringsIn(r, n, p)' = BringsIn(r, n, p)
<1>1. r.order \in Orders /\ r.draft \in DraftId
  BY DEF Receipt
<1>2. r.draft \in 1 .. Len(drafts[r.order])
  BY <1>1, DraftsGrow DEF Placed, DraftId
<1>3. /\ r.draft <= Len(drafts'[r.order])
      /\ drafts'[r.order][r.draft] = drafts[r.order][r.draft]
  BY <1>1, <1>2, DraftsGrow DEF DraftId
<1>4. Placed(r)'
  BY <1>3 DEF Placed
<1>5. ASSUME NEW x \in Places, x[1] = r.order, x[2] = r.draft
      PROVE  IsOf(x, p)' <=> IsOf(x, p)
  BY <1>5, OfStays DEF Placed
<1>6. QED
  BY <1>4, <1>5 DEF BringsIn

\* The sum over the places of what a receipt brings in.
LEMMA BringsTyped ==
  ASSUME NEW r \in Receipt, NEW n \in Nat, NEW p
  PROVE  /\ DOMAIN BringsIn(r, n, p) = Places
         /\ \A x \in Places : BringsIn(r, n, p)[x] \in Nat
         /\ SumFunction(BringsIn(r, n, p))
              = SumFunctionOnSet(BringsIn(r, n, p), Places)
         /\ SumFunction(BringsIn(r, n, p)) \in Nat
<1> DEFINE f == BringsIn(r, n, p)
<1>1. r.delivery \in Deliveries
  BY DEF Receipt
<1>2. DOMAIN f = Places /\ \A x \in Places : f[x] \in Nat
  BY <1>1, BroughtNat DEF BringsIn
<1>3. SumFunction(f) = SumFunctionOnSet(f, Places)
  BY <1>2 DEF SumFunction
<1> HIDE DEF f
<1>4. SumFunctionOnSet(f, Places) \in Nat
  BY <1>2, PlacesFinite, SumNat
<1>5. QED
  BY <1>2, <1>3, <1>4 DEF f

\* Nothing has been posted yet.
LEMMA BringsNone ==
  ASSUME NEW r \in Receipt, NEW p PROVE SumFunction(BringsIn(r, 1, p)) = 0
<1>1. r.delivery \in Deliveries
  BY DEF Receipt
<1>2. PICK f : f = BringsIn(r, 1, p)
  OBVIOUS
<1>3. \A x \in Places : f[x] = 0
  BY <1>1, <1>2, BroughtNone DEF BringsIn
<1>4. SumFunctionOnSet(f, Places) = 0
  BY <1>3, PlacesFinite, SumZero
<1>5. QED
  BY <1>2, <1>4, BringsTyped

\* A sum over the places follows the one that changes.
LEMMA PlaceChange ==
  \A f, g : \A y \in Places :
    /\ \A x \in Places : f[x] \in Nat /\ g[x] \in Nat
    /\ \A x \in Places \ {y} : g[x] = f[x]
    => SumFunctionOnSet(g, Places) = SumFunctionOnSet(f, Places) + g[y] - f[y]
<1> SUFFICES ASSUME NEW f, NEW g, NEW y \in Places,
                    \A x \in Places : f[x] \in Nat /\ g[x] \in Nat,
                    \A x \in Places \ {y} : g[x] = f[x]
             PROVE  SumFunctionOnSet(g, Places)
                      = SumFunctionOnSet(f, Places) + g[y] - f[y]
  OBVIOUS
<1>1. PICK D : D = Places
  OBVIOUS
<1>2. /\ IsFiniteSet(D) /\ y \in D /\ \A x \in D : f[x] \in Int
      /\ g[y] \in Int /\ \A x \in D \ {y} : g[x] = f[x]
  BY <1>1, PlacesFinite
<1>3. SumFunctionOnSet(g, D) = SumFunctionOnSet(f, D) + g[y] - f[y]
  BY <1>2, SumChange
<1>4. QED
  BY <1>1, <1>3

\* The n-th line brings in its units of its product.
LEMMA BringsNext ==
  ASSUME RowsInv, LinesInv, NEW r \in Receipt, Placed(r),
         NEW n \in DOMAIN r.delivery, NEW p
  PROVE  SumFunction(BringsIn(r, n + 1, p)) =
           SumFunction(BringsIn(r, n, p))
           + IF LineOf(r, n).product = p THEN r.delivery[n].quantity ELSE 0
<1>1. /\ r.order \in Orders /\ r.draft \in DraftId /\ r.delivery \in Deliveries
      /\ n \in Nat /\ n + 1 \in Nat
  BY DeliveryLine DEF Receipt
<1>2. PICK k, q, y : /\ k = r.delivery[n].line /\ q = r.delivery[n].quantity
                     /\ y = <<r.order, r.draft, k>>
  OBVIOUS
<1>3. k \in Nat \ {0} /\ q \in Nat
  BY <1>1, <1>2, DeliveryLine
<1>4. k \in DOMAIN drafts[r.order][r.draft].lines
  BY <1>2 DEF Placed
<1>5. k \in LineNo
  <2>1. drafts[r.order] \in Seq(List)
    BY <1>1 DEF RowsInv
  <2>2. r.draft \in 1 .. Len(drafts[r.order])
    BY <1>1, <2>1 DEF Placed, DraftId
  <2>3. PICK l : l = drafts[r.order][r.draft]
    OBVIOUS
  <2>4. l \in List /\ Modest(l)
    BY <1>1, <2>1, <2>2, <2>3 DEF LinesInv
  <2>5. DOMAIN l.lines = 1 .. Len(l.lines) /\ Len(l.lines) \in Nat
    BY <2>4 DEF List
  <2>6. QED
    BY <1>4, <2>3, <2>4, <2>5, PurchasingBounds DEF Modest, LineNo
<1>6. y \in Places
  BY <1>1, <1>2, <1>5 DEF Places
<1>7. y[1] = r.order /\ y[2] = r.draft /\ y[3] = k
  BY <1>2
<1>8. IsOf(y, p) <=> LineOf(r, n).product = p
  BY <1>2, <1>4, <1>7 DEF IsOf, LineOf, Placed
<1>9. PICK f, g : f = BringsIn(r, n, p) /\ g = BringsIn(r, n + 1, p)
  OBVIOUS
<1>10. /\ \A x \in Places : f[x] \in Nat /\ g[x] \in Nat
       /\ SumFunction(f) = SumFunctionOnSet(f, Places)
       /\ SumFunction(g) = SumFunctionOnSet(g, Places)
       /\ SumFunctionOnSet(f, Places) \in Nat
  BY <1>1, <1>9, BringsTyped
<1>11. \A x \in Places \ {y} : g[x] = f[x]
  <2> SUFFICES ASSUME NEW x \in Places \ {y} PROVE g[x] = f[x]
    OBVIOUS
  <2>1. CASE x[1] = r.order /\ x[2] = r.draft
    <3>1. x = <<x[1], x[2], x[3]>>
      BY DEF Places
    <3>2. x[3] # k
      BY <1>2, <2>1, <3>1
    <3>3. /\ BroughtBefore(r.delivery, n, x[3]) \in Nat
          /\ BroughtBefore(r.delivery, n + 1, x[3])
               = BroughtBefore(r.delivery, n, x[3])
                 + IF r.delivery[n].line = x[3] THEN r.delivery[n].quantity ELSE 0
      BY <1>1, BroughtNext, BroughtNat
    <3>4. BroughtBefore(r.delivery, n + 1, x[3]) = BroughtBefore(r.delivery, n, x[3])
      BY <1>2, <3>2, <3>3
    <3>5. QED
      BY <1>9, <3>4 DEF BringsIn
  <2>2. CASE ~(x[1] = r.order /\ x[2] = r.draft)
    BY <1>9, <2>2 DEF BringsIn
  <2>3. QED
    BY <2>1, <2>2
<1>12. g[y] = f[y] + IF LineOf(r, n).product = p THEN q ELSE 0
  <2>1. /\ BroughtBefore(r.delivery, n, k) \in Nat
        /\ BroughtBefore(r.delivery, n + 1, k)
             = BroughtBefore(r.delivery, n, k) + q
    BY <1>1, <1>2, BroughtNext, BroughtNat
  <2>2. /\ f[y] = IF IsOf(y, p) THEN BroughtBefore(r.delivery, n, k) ELSE 0
        /\ g[y] = IF IsOf(y, p) THEN BroughtBefore(r.delivery, n + 1, k) ELSE 0
    BY <1>6, <1>7, <1>9 DEF BringsIn
  <2>3. QED
    BY <1>8, <2>1, <2>2
<1>13. SumFunctionOnSet(g, Places) = SumFunctionOnSet(f, Places) + g[y] - f[y]
  BY <1>6, <1>10, <1>11, PlaceChange
<1>14. f[y] \in Nat /\ g[y] \in Nat
  BY <1>6, <1>10
<1>15. QED
  BY <1>2, <1>3, <1>9, <1>10, <1>12, <1>13, <1>14

\* A receipt about to post its first line stands on lines that are stored.
LEMMA CheckMoves ==
  ASSUME RowsInv, LinesInv, MovedInv, NEW w \in Workers, NEW delivery \in Deliveries,
         CheckOutstanding(w, delivery), InReceipt(w)'
  PROVE  LET t == worker'[w] IN
         /\ t.pc = "post" /\ t.next = 1 /\ t.own \in Receipt
         /\ t.own.order = worker[w].order /\ t.own.draft = worker[w].draft
         /\ Placed(t.own)
         /\ \A p \in Products : t.own.moved[p] = 0
<1>1. PICK o, d : o = worker[w].order /\ d = worker[w].draft
  OBVIOUS
<1>2. worker[w].pc = "outstanding" /\ o \in Orders /\ d \in DraftId
  BY <1>1, Locals DEF CheckOutstanding
<1>3. PICK r : r = [order |-> o, draft |-> d, delivery |-> delivery,
                    moved |-> [p \in Products |-> 0]]
  OBVIOUS
<1>4. r \in Receipt /\ r.order = o /\ r.draft = d /\ r.delivery = delivery
      /\ \A p \in Products : r.moved[p] = 0
  BY <1>2, <1>3 DEF Receipt
<1>5. Fits(o, d, delivery) /\ Go(w, [pc |-> "post", next |-> 1, own |-> r])
  <2>1. \/ Fits(o, d, delivery) /\ Go(w, [pc |-> "post", next |-> 1, own |-> r])
        \/ Go(w, Free)
    BY <1>1, <1>3 DEF CheckOutstanding
  <2>2. ~Go(w, Free)
    BY DEF Go, RowsInv, InReceipt, Free
  <2>3. QED
    BY <2>1, <2>2
<1>6. worker'[w] = [pc |-> "post", next |-> 1, own |-> r]
  BY <1>5 DEF Go, RowsInv
<1>7. Placed(r)
  BY <1>1, <1>2, <1>4, <1>5 DEF Fits, Placed, MovedInv
<1>8. QED
  BY <1>1, <1>4, <1>6, <1>7

\* A line that is posted is added to what the receipt has moved.
LEMMA PostMoves ==
  ASSUME RowsInv, NEW w \in Workers, PostLine(w), InReceipt(w)'
  PROVE  LET t == worker[w]
             u == worker'[w]
         IN
         /\ u.pc = "post" /\ u.next = t.next + 1 /\ t.next \in DOMAIN t.own.delivery
         /\ t.own \in Receipt /\ u.own \in Receipt /\ u.own.order = t.own.order
         /\ u.own.draft = t.own.draft /\ u.own.delivery = t.own.delivery
         /\ \A p \in Products :
              u.own.moved[p] = t.own.moved[p]
                + IF LineOf(t.own, t.next).product = p
                  THEN t.own.delivery[t.next].quantity ELSE 0
<1>1. PICK t, r, p, n : /\ t = worker[w] /\ r = t.own /\ p = LineOf(r, t.next).product
                        /\ n = r.delivery[t.next].quantity
  OBVIOUS
<1>2. /\ t \in [pc : {"post"}, own : Receipt, next : Nat \ {0}]
      /\ r \in Receipt /\ t.next \in Nat \ {0}
  BY <1>1, Locals DEF PostLine
<1>3. /\ r.delivery \in Deliveries /\ r.moved \in [Products -> Nat]
      /\ r = [order |-> r.order, draft |-> r.draft, delivery |-> r.delivery,
              moved |-> r.moved]
  BY <1>2 DEF Receipt
<1>4. t.next \in DOMAIN r.delivery /\ n \in Nat
  BY <1>1, <1>2, <1>3, DeliveryLine DEF PostLine
<1>5. ~Go(w, Free)
  BY DEF Go, RowsInv, InReceipt, Free
<1>6. \/ p = NoProduct /\ Go(w, [t EXCEPT !.next = @ + 1])
      \/ p # NoProduct /\ Go(w, [t EXCEPT !.next = @ + 1, !.own.moved[p] = @ + n])
  BY <1>1, <1>5 DEF PostLine
<1>7. \A x : Go(w, x) => worker'[w] = x
  BY DEF Go, RowsInv
<1>8. CASE p = NoProduct /\ worker'[w] = [t EXCEPT !.next = @ + 1]
  <2>1. worker'[w].pc = "post" /\ worker'[w].next = t.next + 1 /\ worker'[w].own = r
    BY <1>1, <1>2, <1>8
  <2>2. \A q \in Products : q # p /\ r.moved[q] \in Nat
    BY <1>3, <1>8, PurchasingBounds
  <2>3. QED
    BY <1>1, <1>2, <1>4, <2>1, <2>2
<1>9. CASE worker'[w] = [t EXCEPT !.next = @ + 1, !.own.moved[p] = @ + n]
  <2>1. PICK m, s : m = [r.moved EXCEPT ![p] = @ + n] /\ s = [r EXCEPT !.moved = m]
    OBVIOUS
  <2>2. \A q \in Products : m[q] = r.moved[q] + IF p = q THEN n ELSE 0
    BY <1>3, <1>4, <2>1
  <2>3. m \in [Products -> Nat]
    <3>1. m = [q \in Products |-> IF q = p THEN r.moved[p] + n ELSE r.moved[q]]
      BY <1>3, <2>1
    <3>2. \A q \in Products : r.moved[q] \in Nat /\ r.moved[q] + n \in Nat
      BY <1>3, <1>4
    <3>3. QED
      BY <3>1, <3>2
  <2>4. /\ s \in Receipt /\ s.order = r.order /\ s.draft = r.draft
        /\ s.delivery = r.delivery /\ s.moved = m
    BY <1>2, <2>1, <2>3 DEF Receipt
  <2>5. [t EXCEPT !.next = @ + 1, !.own.moved[p] = @ + n]
          = [[t EXCEPT !.next = @ + 1] EXCEPT !.own = s]
    <3>1. [r EXCEPT !.moved[p] = @ + n] = s
      BY <1>3, <2>1
    <3>2. [t EXCEPT !.next = @ + 1, !.own.moved[p] = @ + n]
            = [t EXCEPT !.next = @ + 1, !.own = [r EXCEPT !.moved[p] = @ + n]]
      BY <1>1, <1>2
    <3>3. [t EXCEPT !.next = @ + 1, !.own = s]
            = [[t EXCEPT !.next = @ + 1] EXCEPT !.own = s]
      BY <1>2
    <3>4. QED
      BY <3>1, <3>2, <3>3
  <2>6. worker'[w].pc = "post" /\ worker'[w].next = t.next + 1 /\ worker'[w].own = s
    BY <1>2, <1>9, <2>5
  <2>7. QED
    BY <1>1, <1>2, <1>4, <2>2, <2>4, <2>6
<1>10. QED
  BY <1>6, <1>7, <1>8, <1>9

\* Once every line is posted, how a receipt's progress is counted is the same.
LEMMA PostedAll ==
  ASSUME NEW r \in Receipt, NEW n \in Nat, n > Len(r.delivery), NEW p
  PROVE  BringsIn(r, n, p) = BringsIn(r, Len(r.delivery) + 1, p)
<1>1. r.delivery \in Deliveries
  BY DEF Receipt
<1>2. Len(r.delivery) + 1 \in Nat /\ Len(r.delivery) + 1 > Len(r.delivery)
  BY <1>1, DeliveryLine
<1>3. \A k : BroughtBefore(r.delivery, n, k)
               = BroughtBefore(r.delivery, Len(r.delivery) + 1, k)
  BY <1>1, <1>2, BroughtAll
<1>4. QED
  BY <1>3 DEF BringsIn

\* What the statements after the last line leave of a receipt.
LEMMA LaterMoves ==
  ASSUME RowsInv, NEW w \in Workers, Reload(w) \/ Reread(w) \/ Recount(w)
  PROVE  /\ InReceipt(w) /\ worker[w].own \in Receipt
         /\ worker'[w].own = worker[w].own
         /\ worker'[w].pc \in {"reread", "recount", "commit"}
         /\ worker[w].pc = "post" => /\ worker[w].next \in Nat
                                     /\ worker[w].next > Len(worker[w].own.delivery)
<1>1. PICK t : t = worker[w]
  OBVIOUS
<1>2. \A x : Go(w, x) => worker'[w] = x
  BY DEF Go, RowsInv
<1>3. CASE Reload(w)
  <2>1. t \in [pc : {"post"}, own : Receipt, next : Nat \ {0}]
    BY <1>1, <1>3, Locals DEF Reload
  <2>2. t.own \in Receipt /\ t.next \in Nat
    BY <2>1
  <2>3. QED
    BY <1>1, <1>2, <1>3, <2>1, <2>2 DEF Reload, InReceipt
<1>4. CASE Reread(w)
  <2>1. t.own \in Receipt /\ t.pc = "reread"
    BY <1>1, <1>4, Locals DEF Reread
  <2>2. QED
    BY <1>1, <1>2, <1>4, <2>1 DEF Reread, InReceipt
<1>5. CASE Recount(w)
  <2>1. t.own \in Receipt /\ t.pc = "recount"
    BY <1>1, <1>5, Locals DEF Recount
  <2>2. PICK s : worker'[w] = [pc |-> "commit", own |-> t.own, was |-> t.was,
                               status |-> s]
    BY <1>1, <1>2, <1>5 DEF Recount
  <2>3. QED
    BY <1>1, <2>1, <2>2 DEF InReceipt
<1>6. QED
  BY <1>3, <1>4, <1>5

LEMMA MovedStep == RowsInv /\ LinesInv /\ MovedInv /\ [Next]_pvars => MovedInv'
<1> DEFINE Open == {"post", "reread", "recount", "commit"}
           After(u) ==
             /\ Placed(u.own)'
             /\ \A p \in Products :
                  u.own.moved[p] = SumFunction(BringsIn(u.own, Posted(u), p)')
<1> SUFFICES ASSUME RowsInv, LinesInv, MovedInv, [Next]_pvars, NEW v \in Workers
             PROVE  \A u : u = worker'[v] =>
                      /\ u.pc = "outstanding" => u.draft <= Len(drafts'[u.order])
                      /\ u.pc \in Open => After(u)
  <2>1. ASSUME NEW v \in Workers, NEW u, u = worker'[v], After(u)
        PROVE  (Placed(worker[v].own)
                /\ \A p \in Products :
                     worker[v].own.moved[p] =
                       SumFunction(BringsIn(worker[v].own, Posted(worker[v]), p)))'
    <3>1. Placed(worker[v].own)'
      BY <2>1 DEF Placed
    <3>2. ASSUME NEW p \in Products
          PROVE  BringsIn(u.own, Posted(u), p)'
                   = BringsIn(worker[v].own, Posted(worker[v]), p)'
      BY <2>1 DEF BringsIn, Posted
    <3>3. QED
      BY <2>1, <3>1, <3>2
  <2>2. QED
    BY <2>1 DEF MovedInv, InReceipt
<1> TAKE u
<1> HAVE u = worker'[v]
<1> DEFINE Moved(t) ==
             /\ Placed(t.own)
             /\ \A p \in Products :
                  t.own.moved[p] = SumFunction(BringsIn(t.own, Posted(t), p))
<1>1. ASSUME NEW t, t.own \in Receipt, Exists(t.own.order), Moved(t)
      PROVE  After(t)
  <2>1. Placed(t.own)' /\ \A p : BringsIn(t.own, Posted(t), p)'
                                   = BringsIn(t.own, Posted(t), p)
    BY <1>1, BringingStays
  <2>2. QED
    BY <1>1, <2>1
<1>2. CASE u = worker[v]
  <2>1. ASSUME worker[v].pc = "outstanding"
        PROVE  worker[v].draft <= Len(drafts'[worker[v].order])
    <3>1. /\ worker[v].order \in Orders /\ worker[v].draft \in DraftId
          /\ Exists(worker[v].order)
      BY <2>1, Locals, AtWork DEF InReceipt
    <3>2. worker[v].draft <= Len(drafts[worker[v].order])
      BY <2>1 DEF MovedInv
    <3>3. QED
      BY <3>1, <3>2, DraftsGrow DEF DraftId
  <2>2. ASSUME worker[v].pc \in Open
        PROVE  worker[v].own \in Receipt /\ Exists(worker[v].own.order)
               /\ Moved(worker[v])
    BY <2>2, Locals, AtWork DEF InReceipt, MovedInv
  <2>3. QED
    BY <1>1, <1>2, <2>1, <2>2
<1>3. CASE u # worker[v]
  <2>1. CASE u.pc \in {"edit", "value", "cancel", "lines", "free", "gate",
                               "number", "issue", "mark"}
    BY <2>1
  <2>2. CASE ReadLines(v)
    <3>1. u = [pc |-> "outstanding", order |-> worker[v].order,
                        draft |-> Len(drafts[worker[v].order])]
      BY <2>2 DEF ReadLines, Go, RowsInv
    <3>2. drafts' = drafts /\ worker[v].order \in Orders
      BY <2>2, Locals DEF ReadLines
    <3>3. Len(drafts[worker[v].order]) \in Nat
      BY <3>2 DEF RowsInv
    <3>4. QED
      BY <3>1, <3>2, <3>3
  <2>3. CASE u.pc # "outstanding" /\ u.own \in Receipt /\ Exists(u.own.order)
             /\ Moved(u)
    BY <1>1, <2>3
  <2>4. ASSUME NEW delivery \in Deliveries, CheckOutstanding(v, delivery), InReceipt(v)'
        PROVE  u.pc = "post" /\ u.own \in Receipt /\ Exists(u.own.order) /\ Moved(u)
    <3>1. /\ u.pc = "post" /\ u.next = 1 /\ u.own \in Receipt
          /\ u.own.order = worker[v].order
          /\ Placed(u.own) /\ \A p \in Products : u.own.moved[p] = 0
      BY <2>4, CheckMoves
    <3>2. Posted(u) = 1
      BY <3>1 DEF Posted
    <3>3. \A p : SumFunction(BringsIn(u.own, 1, p)) = 0
      BY <3>1, BringsNone
    <3>4. Exists(worker[v].order)
      BY <2>4, AtWork DEF CheckOutstanding, InReceipt
    <3>5. QED
      BY <3>1, <3>2, <3>3, <3>4
  <2>5. ASSUME PostLine(v), InReceipt(v)'
        PROVE  u.pc = "post" /\ u.own \in Receipt /\ Exists(u.own.order) /\ Moved(u)
    <3>1. PICK t, r, s, n : /\ t = worker[v]
                            /\ r = t.own /\ s = u.own /\ n = t.next
      OBVIOUS
    <3>2. /\ u.pc = "post" /\ u.next = n + 1 /\ n \in DOMAIN r.delivery
          /\ r \in Receipt /\ s \in Receipt /\ s.order = r.order
          /\ s.draft = r.draft /\ s.delivery = r.delivery
          /\ \A p \in Products :
               s.moved[p] = r.moved[p] + IF LineOf(r, n).product = p
                                         THEN r.delivery[n].quantity ELSE 0
      BY <2>5, <3>1, PostMoves
    <3>3. /\ Exists(r.order) /\ Placed(r)
          /\ \A p \in Products : r.moved[p] = SumFunction(BringsIn(r, n, p))
      BY <2>5, <3>1, AtWork DEF PostLine, InReceipt, MovedInv, Posted
    <3>4. Placed(s) /\ \A p : BringsIn(s, n + 1, p) = BringsIn(r, n + 1, p)
      BY <3>2, <3>3 DEF Placed, BringsIn
    <3>5. \A p \in Products : s.moved[p] = SumFunction(BringsIn(s, n + 1, p))
      BY <3>2, <3>3, <3>4, BringsNext
    <3>6. Posted(u) = n + 1
      BY <3>2 DEF Posted
    <3>7. QED
      BY <3>1, <3>2, <3>3, <3>4, <3>5, <3>6
  <2>6. ASSUME Reload(v) \/ Reread(v) \/ Recount(v)
        PROVE  /\ u.pc # "outstanding" /\ u.own \in Receipt /\ Exists(u.own.order)
               /\ Moved(u)
    <3>1. PICK t, r : t = worker[v] /\ r = t.own
      OBVIOUS
    <3>2. /\ InReceipt(v) /\ r \in Receipt /\ u.own = r
          /\ u.pc \in {"reread", "recount", "commit"}
          /\ t.pc = "post" => t.next \in Nat /\ t.next > Len(r.delivery)
      BY <2>6, <3>1, LaterMoves
    <3>3. /\ Exists(r.order) /\ Placed(r)
          /\ \A p \in Products : r.moved[p] = SumFunction(BringsIn(r, Posted(t), p))
      BY <3>1, <3>2, AtWork DEF InReceipt, MovedInv
    <3>4. \A p : BringsIn(r, Posted(t), p) = BringsIn(r, Len(r.delivery) + 1, p)
      BY <3>1, <3>2, PostedAll DEF Posted
    <3>5. Posted(u) = Len(r.delivery) + 1
      BY <3>2 DEF Posted
    <3>6. QED
      BY <3>1, <3>2, <3>3, <3>4, <3>5
  <2>7. ASSUME NEW delivery \in Deliveries, CheckOutstanding(v, delivery),
               ~InReceipt(v)'
        PROVE  u.pc = "free"
    BY <2>7 DEF CheckOutstanding, Go, RowsInv, InReceipt, Free
  <2>8. PostLine(v) /\ ~InReceipt(v)' => u.pc = "free"
    BY PostLineOutcome DEF Go, RowsInv, InReceipt, Free
  <2>9. ASSUME NEW delivery \in Deliveries, CheckOutstanding(v, delivery)
        PROVE  /\ u.pc = "outstanding" => u.draft <= Len(drafts'[u.order])
               /\ u.pc \in Open => After(u)
    BY <2>1, <2>3, <2>4, <2>7, <2>9
  <2>10. CASE PostLine(v)
    BY <2>1, <2>3, <2>5, <2>8, <2>10
  <2>11. CASE Reload(v) \/ Reread(v) \/ Recount(v)
    BY <2>3, <2>6, <2>11
  <2>12. CASE \/ Edit(v) \/ Value(v) \/ Gate(v) \/ Mark(v) \/ Number(v) \/ Issue(v)
              \/ Cancel(v) \/ CommitReceipt(v) \/ Fail(v)
              \/ \E o \in Orders : Begin(v, o)
    BY <2>1, <2>12, Outcomes DEF Free
  <2>13. QED
    BY <1>3, <2>2, <2>9, <2>10, <2>11, <2>12, OwnStep DEF WorkerStep
<1>4. QED
  BY <1>2, <1>3

-----------------------------------------------------------------------------
(* The shelf *)

LEMMA CameInTyped ==
  ASSUME StockInv, NEW p
  PROVE  /\ \A x \in Places : CameIn(p)[x] \in Nat
         /\ SumFunction(CameIn(p)) = SumFunctionOnSet(CameIn(p), Places)
<1>1. \A x \in Places : x[1] \in Orders /\ x[2] \in DraftId /\ x[3] \in LineNo
  BY DEF Places
<1>2. \A x \in Places : got[x[1]][x[2]][x[3]] \in Nat
  BY <1>1 DEF StockInv
<1>3. QED
  BY <1>2 DEF CameIn, Received, SumFunction

\* Unless something comes in, what came in of a product stays: lines with
\* nothing received may come, those with something do not go.
LEMMA CameInStays ==
  ASSUME RowsInv, ReceiptsInv, StockInv, LinesInv, [Next]_pvars, got' = got, NEW p
  PROVE  CameIn(p)' = CameIn(p)
<1>1. ASSUME NEW x \in Places
      PROVE  (IF IsOf(x, p)' THEN Received(x[1], x[2], x[3])' ELSE 0)
               = IF IsOf(x, p) THEN Received(x[1], x[2], x[3]) ELSE 0
  <2>1. x[1] \in Orders /\ x[2] \in DraftId /\ x[3] \in LineNo
    BY DEF Places
  <2>2. Received(x[1], x[2], x[3])' = Received(x[1], x[2], x[3])
    BY DEF Received
  <2>3. CASE Received(x[1], x[2], x[3]) = 0
    BY <2>2, <2>3
  <2>4. CASE Received(x[1], x[2], x[3]) # 0
    <3>1. x[2] <= Len(drafts[x[1]])
      BY <2>1, <2>4 DEF LinesInv
    <3>2. Received(x[1], x[2], x[3]) > 0
      BY <2>1, <2>4 DEF StockInv, Received
    <3>3. Exists(x[1])
      BY <2>1, <3>2 DEF AnyReceived, ReceiptsInv, GoodsWereOrdered, Numbered, RowsInv
    <3>4. IsOf(x, p)' <=> IsOf(x, p)
      BY <3>1, <3>3, OfStays
    <3>5. QED
      BY <2>2, <3>4
  <2>5. QED
    BY <2>3, <2>4
<1>2. QED
  BY <1>1 DEF CameIn

\* A receipt that commits adds to what came in what it brings in.
LEMMA CommitAdds ==
  ASSUME RowsInv, StockInv, StockInv', MovedInv, NEW w \in Workers, CommitReceipt(w),
         NEW p \in Products
  PROVE  SumFunction(CameIn(p))' = SumFunction(CameIn(p)) + worker[w].own.moved[p]
<1>1. PICK r, n : r = worker[w].own /\ n = Len(r.delivery) + 1
  OBVIOUS
<1>2. /\ r \in Receipt /\ r.order \in Orders /\ r.draft \in DraftId
      /\ r.delivery \in Deliveries /\ worker[w].pc = "commit"
  BY <1>1, CommitTyped
<1>3. n \in Nat /\ n > Len(r.delivery)
  BY <1>1, <1>2, DeliveryLine
<1>4. PICK f, g, h : f = CameIn(p) /\ g = BringsIn(r, n, p) /\ h = CameIn(p)'
  OBVIOUS
<1>5. ASSUME NEW x \in Places PROVE h[x] = f[x] + g[x]
  <2>1. x[1] \in Orders /\ x[2] \in DraftId /\ x[3] \in LineNo
    BY DEF Places
  <2>2. IsOf(x, p)' <=> IsOf(x, p)
    BY DEF IsOf, CommitReceipt
  <2>3. PICK a, b, c : /\ a = Received(x[1], x[2], x[3])
                       /\ b = Received(x[1], x[2], x[3])'
                       /\ c = Brought(r.delivery, x[3])
    OBVIOUS
  <2>4. /\ a \in Nat /\ c \in Nat
        /\ b = a + IF x[1] = r.order /\ x[2] = r.draft THEN c ELSE 0
    <3>1. a = got[x[1]][x[2]][x[3]] /\ b = got'[x[1]][x[2]][x[3]]
      BY <2>3 DEF Received
    <3>2. a \in Nat
      BY <2>1, <3>1 DEF StockInv
    <3>3. \A k : Brought(r.delivery, k) \in Nat
      <4>1. \A k : Brought(worker[w].own.delivery, k) \in Nat
        BY CommitTyped
      <4>2. QED
        BY <1>1, <4>1
    <3>4. b = a + IF x[1] = worker[w].own.order /\ x[2] = worker[w].own.draft
                  THEN Brought(worker[w].own.delivery, x[3]) ELSE 0
      BY <2>1, <3>1, CommitTyped
    <3>5. QED
      BY <1>1, <2>3, <3>2, <3>3, <3>4
  <2>5. c = BroughtBefore(r.delivery, n, x[3])
    BY <1>2, <1>3, <2>3, BroughtAll
  <2>6. /\ f[x] = IF IsOf(x, p) THEN a ELSE 0
        /\ h[x] = IF IsOf(x, p) THEN b ELSE 0
        /\ g[x] = IF x[1] = r.order /\ x[2] = r.draft /\ IsOf(x, p) THEN c ELSE 0
    BY <1>4, <2>2, <2>3, <2>5 DEF CameIn, BringsIn
  <2>7. QED
    BY <2>4, <2>6
<1>6. /\ \A x \in Places : f[x] \in Int
      /\ \A x \in Places : g[x] \in Int
      /\ SumFunction(f) = SumFunctionOnSet(f, Places)
      /\ SumFunction(g) = SumFunctionOnSet(g, Places)
  <2>1. /\ \A x \in Places : f[x] \in Nat
        /\ SumFunction(f) = SumFunctionOnSet(f, Places)
    BY <1>4, CameInTyped
  <2>2. /\ \A x \in Places : g[x] \in Nat
        /\ SumFunction(g) = SumFunctionOnSet(g, Places)
    BY <1>2, <1>3, <1>4, BringsTyped
  <2>3. QED
    BY <2>1, <2>2
<1>7. SumFunction(h) = SumFunctionOnSet(h, Places)
  BY <1>4 DEF CameIn, SumFunction, Places
<1>8. SumFunctionOnSet(h, Places) = SumFunctionOnSet(f, Places)
                                    + SumFunctionOnSet(g, Places)
  BY <1>5, <1>6, PlacesFinite, SumPlus
<1>9. r.moved[p] = SumFunction(g)
  BY <1>1, <1>2, <1>4 DEF MovedInv, InReceipt, Posted
<1>10. SumFunction(CameIn(p))' = SumFunction(h)
  BY <1>4
<1>11. QED
  BY <1>1, <1>4, <1>6, <1>7, <1>8, <1>9, <1>10

LEMMA ShelfStep ==
  RowsInv /\ ReceiptsInv /\ ShelfInv /\ [Next]_pvars => ShelfInv'
<1> SUFFICES ASSUME RowsInv, ReceiptsInv, ShelfInv, [Next]_pvars PROVE ShelfInv'
  OBVIOUS
<1>1. StockInv /\ LinesInv /\ MovedInv /\ ShelfHoldsReceipts
  BY DEF ShelfInv
<1>2. StockInv' /\ LinesInv' /\ MovedInv'
  BY <1>1, StockStep, LinesStep, MovedStep
<1>3. ASSUME NEW w \in Workers, CommitReceipt(w) PROVE ShelfHoldsReceipts'
  <2>1. ASSUME NEW p \in Products PROVE shelf'[p] = SumFunction(CameIn(p))'
    <3>1. shelf'[p] = shelf[p] + worker[w].own.moved[p]
      BY <1>1, <1>3, CommitTyped
    <3>2. shelf[p] = SumFunction(CameIn(p))
      BY <1>1 DEF ShelfHoldsReceipts
    <3>3. SumFunction(CameIn(p))' = SumFunction(CameIn(p)) + worker[w].own.moved[p]
      BY <1>1, <1>2, <1>3, CommitAdds
    <3>4. QED
      BY <3>1, <3>2, <3>3
  <2>2. QED
    BY <2>1 DEF ShelfHoldsReceipts
<1>4. CASE got' = got /\ shelf' = shelf
  <2>1. \A p : CameIn(p)' = CameIn(p)
    BY <1>1, <1>4, CameInStays
  <2>2. ASSUME NEW p \in Products PROVE shelf'[p] = SumFunction(CameIn(p))'
    <3>1. shelf[p] = SumFunction(CameIn(p))
      BY <1>1 DEF ShelfHoldsReceipts
    <3>2. SumFunction(CameIn(p))' = SumFunction(CameIn(p))
      BY <2>1
    <3>3. QED
      BY <1>4, <3>1, <3>2
  <2>3. ShelfHoldsReceipts'
    BY <2>2 DEF ShelfHoldsReceipts
  <2>4. QED
    BY <1>2, <2>3 DEF ShelfInv
<1>5. QED
  BY <1>2, <1>3, <1>4, GoodsWriters DEF ShelfInv, goods, DeleteProduct

LEMMA ShelfStart == Init => ShelfInv
<1> SUFFICES ASSUME Init PROVE ShelfInv
  OBVIOUS
<1>1. StockInv
  <2>1. <<>> \in Seq(Ask)
    OBVIOUS
  <2>2. QED
    BY <2>1, PurchasingBounds DEF Init, StockInv
<1>2. \A o \in Orders : Len(drafts[o]) = 0
  BY DEF Init
<1>3. \A w \in Workers : worker[w].pc = "free"
  BY DEF Init, Free
<1>4. \A o \in Orders, d \in DraftId, k \in LineNo : Received(o, d, k) = 0
  BY DEF Init, Received
<1>5. LinesInv
  BY <1>2, <1>3, <1>4 DEF LinesInv
<1>6. MovedInv
  BY <1>3 DEF MovedInv, InReceipt
<1>7. ASSUME NEW p \in Products PROVE shelf[p] = SumFunction(CameIn(p))
  <2>1. \A x \in Places : x[1] \in Orders /\ x[2] \in DraftId /\ x[3] \in LineNo
    BY DEF Places
  <2>2. PICK f : f = CameIn(p)
    OBVIOUS
  <2>3. \A x \in Places : f[x] = 0
    BY <1>4, <2>1, <2>2 DEF CameIn
  <2>4. SumFunctionOnSet(f, Places) = 0
    BY <2>3, PlacesFinite, SumZero
  <2>5. QED
    BY <1>1, <2>2, <2>4, CameInTyped DEF Init
<1>8. QED
  BY <1>1, <1>5, <1>6, <1>7 DEF ShelfInv, ShelfHoldsReceipts

\* Tables keep their shape, received quantities belong to lines that were
\* stored, an open receipt has moved exactly what its lines so far bring in, and
\* the shelf holds what receipts say came in (AdminReceiveGoods,
\* apportionAndPost).
THEOREM ShelfInvariant == Spec => [](PurchasingInv /\ ShelfInv)
<1>1. Init => PurchasingInv /\ ShelfInv
  BY InitInv, ShelfStart
<1>2. PurchasingInv /\ ShelfInv /\ [Next]_pvars => (PurchasingInv /\ ShelfInv)'
  BY StepInv, ShelfStep DEF PurchasingInv
<1>3. QED
  BY <1>1, <1>2, PTL DEF Spec

\* Every table and every handler's locals keep their shape.
THEOREM PurchasingTypeCorrect == Spec => []TypeOK
<1>1. PurchasingInv /\ ShelfInv => TypeOK
  BY DEF PurchasingInv, RowsInv, ShelfInv, StockInv, TypeOK
<1>2. QED
  BY <1>1, ShelfInvariant, PTL

\* The shelf holds what receipts say came in of each product: for orders edited
\* any number of times, requests that name a line twice, and any number of
\* receipts open at once, failing half way or waiting for each other
\* (apportionAndPost, RecordMovement).
THEOREM ShelfHoldsReceiptsHolds == Spec => []ShelfHoldsReceipts
<1>1. PurchasingInv /\ ShelfInv => ShelfHoldsReceipts
  BY DEF ShelfInv
<1>2. QED
  BY <1>1, ShelfInvariant, PTL

-----------------------------------------------------------------------------
(* An order's status and what has come in *)

Agrees(o) ==
  Exists(o) =>
    /\ order[o].status = "received" <=> All(o)
    /\ order[o].status = "partly_received" <=> AnyReceived(o) /\ ~All(o)

\* The lines of an order as it stands.
LEMMA StoredLines ==
  ASSUME RowsInv, LinesInv, NEW o \in Orders, Exists(o)
  PROVE  /\ Len(drafts[o]) \in DraftId
         /\ DOMAIN Stored(o).lines \subseteq LineNo /\ 1 \in DOMAIN Stored(o).lines
         /\ \A k \in DOMAIN Stored(o).lines :
              Stored(o).lines[k].quantity \in Nat \ {0}
<1>1. PICK l : l = Stored(o)
  OBVIOUS
<1>2. Len(drafts[o]) \in DraftId /\ l \in List
  BY <1>1, StoredTyped
<1>3. Modest(l)
  <2>1. Len(drafts[o]) \in 1 .. Len(drafts[o])
    BY <1>2 DEF DraftId
  <2>2. QED
    BY <1>1, <2>1 DEF LinesInv, Stored, Last
<1>4. /\ l.lines \in Seq([product : Products \cup {NoProduct}, quantity : Nat \ {0}])
      /\ l.lines # <<>> /\ Len(l.lines) <= MaxLines
  BY <1>2, <1>3 DEF List, Modest
<1>5. DOMAIN l.lines = 1 .. Len(l.lines) /\ Len(l.lines) \in Nat \ {0}
  BY <1>4
<1>6. \A k \in DOMAIN l.lines :
        l.lines[k] \in [product : Products \cup {NoProduct}, quantity : Nat \ {0}]
  <2>1. \A S : \A q \in Seq(S) : \A i \in 1 .. Len(q) : q[i] \in S
    OBVIOUS
  <2>2. QED
    BY <1>4, <1>5, <2>1
<1>7. DOMAIN l.lines \subseteq LineNo /\ 1 \in DOMAIN l.lines
  BY <1>4, <1>5, PurchasingBounds DEF LineNo
<1>8. QED
  BY <1>1, <1>2, <1>6, <1>7

\* With nothing in, an order is neither received nor partly received.
LEMMA NothingIn ==
  RowsInv /\ StockInv /\ LinesInv =>
    \A o \in Orders :
      /\ order[o].status \notin {"received", "partly_received"}
      /\ ~AnyReceived(o)
      => Agrees(o)
<1> SUFFICES ASSUME RowsInv, StockInv, LinesInv, NEW o \in Orders,
                    order[o].status \notin {"received", "partly_received"},
                    ~AnyReceived(o), Exists(o)
             PROVE  ~All(o)
  BY DEF Agrees
<1>1. /\ Len(drafts[o]) \in DraftId
      /\ 1 \in LineNo /\ 1 \in DOMAIN Stored(o).lines
      /\ Stored(o).lines[1].quantity \in Nat \ {0}
  BY StoredLines
<1>2. Received(o, Len(drafts[o]), 1) = 0
  BY <1>1 DEF AnyReceived, Received, StockInv
<1>3. QED
  BY <1>1, <1>2 DEF All

LEMMA NothingInNext ==
  (RowsInv /\ StockInv /\ LinesInv =>
     \A o \in Orders :
       /\ order[o].status \notin {"received", "partly_received"}
       /\ ~AnyReceived(o)
       => Agrees(o))'
BY NothingIn, PTL

\* A request brings something in against each line it names.
LEMMA BroughtSome ==
  ASSUME NEW delivery \in Deliveries, NEW j \in DOMAIN delivery
  PROVE  Brought(delivery, delivery[j].line) > 0
<1>a. PICK D, k : D = DOMAIN delivery /\ k = delivery[j].line
  OBVIOUS
<1>b. PICK f : f = [i \in D |-> IF delivery[i].line = k
                               THEN delivery[i].quantity ELSE 0]
  OBVIOUS
<1>1. /\ D = DOMAIN delivery /\ k = delivery[j].line
      /\ f = [i \in D |-> IF delivery[i].line = k
                          THEN delivery[i].quantity ELSE 0]
  BY <1>a, <1>b
<1>2. /\ IsFiniteSet(D) /\ j \in D
      /\ \A i \in D : f[i] \in Nat
  BY <1>1, DeliveryLine
<1>3. f[j] \in Nat \ {0}
  BY <1>1, <1>2, DeliveryLine
<1>4. \A i \in D : f[i] \in Int
  BY <1>2
<1>5. SumFunctionOnSet(f, D) = f[j] + SumFunctionOnSet(f, D \ {j})
  BY <1>2, <1>4, SumRemove
<1>6. SumFunctionOnSet(f, D \ {j}) \in Nat
  BY <1>2, SumNat
<1>7. Brought(delivery, k) = SumFunctionOnSet(f, D)
  BY <1>1 DEF Brought, SumFunction
<1>8. QED
  BY <1>1, <1>3, <1>5, <1>6, <1>7

\* What a receipt sees of each line it names is something.
LEMMA SeesSome ==
  ASSUME RowsInv, StockInv, LinesInv, NEW r \in Receipt, Exists(r.order), Placed(r),
         r.draft = Len(drafts[r.order])
  PROVE  \E k \in DOMAIN Stored(r.order).lines : Seen(r, r.draft, k) > 0
<1>1. r.order \in Orders /\ r.draft \in DraftId /\ r.delivery \in Deliveries
  BY DEF Receipt
<1>2. 1 \in DOMAIN r.delivery
  BY <1>1, DeliveryLine
<1>3. PICK k : k = r.delivery[1].line
  OBVIOUS
<1>4. k \in DOMAIN Stored(r.order).lines
  BY <1>2, <1>3 DEF Placed, Stored, Last
<1>5. k \in LineNo
  BY <1>1, <1>4, StoredLines
<1>6. Received(r.order, r.draft, k) \in Nat
  BY <1>1, <1>5 DEF StockInv, Received
<1>7. Brought(r.delivery, k) \in Nat /\ Brought(r.delivery, k) > 0
  <2>1. Len(r.delivery) + 1 \in Nat /\ Len(r.delivery) + 1 > Len(r.delivery)
    BY <1>1, DeliveryLine
  <2>2. Brought(r.delivery, k) \in Nat
    BY <1>1, <2>1, BroughtAll, BroughtNat
  <2>3. QED
    BY <1>1, <1>2, <1>3, <2>2, BroughtSome
<1>8. Seen(r, r.draft, k) > 0
  BY <1>6, <1>7 DEF Seen
<1>9. QED
  BY <1>4, <1>8

\* A receipt that commits in turn leaves its order's status true.
LEMMA CommitAgrees ==
  ASSUME RowsInv, ReceiptsInv, StockInv, LinesInv, MovedInv, NEW w \in Workers,
         CommitReceipt(w), Reads(worker[w])
  PROVE  \A o : o = worker[w].own.order => Agrees(o)'
<1> SUFFICES ASSUME NEW o, o = worker[w].own.order PROVE Agrees(o)'
  OBVIOUS
<1>a. PICK r : r = worker[w].own
  OBVIOUS
<1>b. PICK d : d = r.draft
  OBVIOUS
<1>1. r = worker[w].own /\ o = r.order /\ d = r.draft
  BY <1>a, <1>b
<1>2. /\ worker[w].pc = "commit" /\ r \in Receipt /\ r.delivery \in Deliveries
      /\ o \in Orders /\ d \in DraftId
  BY <1>1, CommitTyped
<1>3. /\ Exists(o) /\ Placed(r) /\ d = Len(drafts[o])
      /\ worker[w].was = order[o].status
      /\ worker[w].status = IF Sees(r) THEN "received" ELSE "partly_received"
  BY <1>1, <1>2, AtWork DEF Reads, MovedInv, InReceipt
<1>4. drafts' = drafts /\ order'[o].status = worker[w].status
  BY <1>1, <1>2, <1>3 DEF CommitReceipt, RowsInv
<1>5. DOMAIN Stored(o).lines \subseteq LineNo
  BY <1>2, <1>3, StoredLines
<1>6. \A k \in LineNo : got'[o][d][k] = Seen(r, d, k)
  BY <1>1, <1>2, CommitTyped DEF Received, Seen
<1>7. All(o)' <=> Sees(r)
  <2>1. All(o)' <=> \A k \in DOMAIN Stored(o).lines :
                      got'[o][d][k] >= Stored(o).lines[k].quantity
    BY <1>3, <1>4 DEF All, Received, Stored, Last
  <2>2. Sees(r) <=> \A k \in DOMAIN Stored(o).lines :
                      Seen(r, d, k) >= Stored(o).lines[k].quantity
    BY <1>1, <1>3 DEF Sees
  <2>3. QED
    BY <1>5, <1>6, <2>1, <2>2
<1>8. AnyReceived(o)'
  <2>1. PICK k \in DOMAIN Stored(o).lines : Seen(r, d, k) > 0
    BY <1>1, <1>2, <1>3, SeesSome
  <2>2. QED
    BY <1>2, <1>5, <1>6, <2>1 DEF AnyReceived, Received
<1>9. order'[o].status = IF Sees(r) THEN "received" ELSE "partly_received"
  BY <1>3, <1>4
<1>10. QED
  BY <1>7, <1>8, <1>9 DEF Agrees

\* An order nobody writes to agrees as before.
LEMMA UntouchedAgrees ==
  ASSUME NEW o, Agrees(o), order'[o] = order[o], drafts'[o] = drafts[o],
         got'[o] = got[o]
  PROVE  Agrees(o)'
<1>1. /\ Exists(o)' <=> Exists(o)
      /\ AnyReceived(o)' <=> AnyReceived(o)
      /\ All(o)' <=> All(o)
  BY DEF Exists, AnyReceived, All, Received, Stored, Last
<1>2. QED
  BY <1>1 DEF Agrees

\* Taking turns is a thing of the past once it is broken.
LEMMA SerialBefore == ASSUME Next, serial' PROVE serial
<1>1. ASSUME NEW w \in Workers, NEW o \in Orders, Begin(w, o) PROVE serial
  BY <1>1 DEF Begin, BeginEdit, BeginIssue, BeginCancel, BeginReceive, Start
<1>2. ASSUME NEW w \in Workers, WorkerStep(w) \/ Fail(w) PROVE serial
  BY <1>2 DEF WorkerStep, Edit, Value, Gate, Mark, Number, Issue, Cancel, ReadLines,
              CheckOutstanding, PostLine, Reload, Reread, Recount, CommitReceipt, Fail
<1>3. QED
  BY <1>1, <1>2 DEF Next, Create, Decide, Resubmit, DeleteProduct

\* The statement that ends a handler of an order nothing has come in for.
LEMMA EndAgrees ==
  ASSUME RowsInv, RowsInv', ReceiptsInv, TurnsInv, ShelfInv, ShelfInv', AgreeInv,
         serial, NEW w \in Workers,
         Edit(w) \/ Mark(w) \/ Issue(w) \/ Cancel(w)
  PROVE  \A o \in Orders : Agrees(o)'
<1>1. PICK q : q = worker[w].order
  OBVIOUS
<1>2. /\ q \in Orders /\ worker[w].pc \in {"edit", "mark", "issue", "cancel"}
      /\ worker[w].pc \in {"edit", "mark", "issue"} =>
           order[q].status \in Editable \cup Issuable
      /\ worker[w].pc = "cancel" => ~AnyReceived(q)
  <2>1. q \in Orders /\ worker[w].pc \in {"edit", "mark", "issue", "cancel"}
    BY <1>1, Locals DEF Edit, Mark, Issue, Cancel
  <2>2. Current(worker[w]) /\ Reads(worker[w])
    BY <2>1, TurnOrders DEF AgreeInv
  <2>3. QED
    BY <1>1, <2>1, <2>2 DEF Current, Reads
<1>3. ~AnyReceived(q)
  <2>1. CASE order[q].status \in Editable \cup Issuable
    <3>1. order[q].status \notin {"received", "partly_received", "none"}
      BY <2>1 DEF Editable, Issuable
    <3>2. QED
      BY <1>2, <3>1 DEF AgreeInv, OrdersAgreeInTurn, StatusAgreesInTurn, Exists
  <2>2. QED
    BY <1>2, <2>1
<1>4. /\ order'[q].status \notin {"received", "partly_received"}
      /\ \A o \in Orders : o # q => order'[o] = order[o] /\ drafts'[o] = drafts[o]
      /\ got' = got
  <2>1. CASE Edit(w)
    BY <1>1, <1>2, <2>1 DEF Edit, RowsInv, goods
  <2>2. CASE Mark(w)
    <3>1. worker[w].status \in {"rejected", "pending_approval"}
      BY <2>2 DEF Mark, ReceiptsInv, Ordered
    <3>2. QED
      BY <1>1, <1>2, <2>2, <3>1 DEF Mark, RowsInv, goods
  <2>3. CASE Issue(w)
    BY <1>1, <1>2, <2>3 DEF Issue, RowsInv, goods
  <2>4. CASE Cancel(w)
    BY <1>1, <1>2, <2>4 DEF Cancel, RowsInv, goods
  <2>5. QED
    BY <2>1, <2>2, <2>3, <2>4
<1>5. Agrees(q)'
  <2>1. ~AnyReceived(q)'
    BY <1>3, <1>4 DEF AnyReceived, Received
  <2>2. QED
    BY <1>2, <1>4, <2>1, NothingInNext DEF ShelfInv
<1>6. ASSUME NEW o \in Orders, o # q PROVE Agrees(o)'
  <2>1. Agrees(o)
    BY DEF AgreeInv, OrdersAgreeInTurn, StatusAgreesInTurn, Agrees
  <2>2. QED
    BY <1>4, <1>6, <2>1, UntouchedAgrees
<1>7. QED
  BY <1>5, <1>6

LEMMA StatusesStep ==
  ASSUME RowsInv, RowsInv', ReceiptsInv, TurnsInv, ShelfInv, ShelfInv', AgreeInv,
         serial, Next
  PROVE  \A o \in Orders : Agrees(o)'
<1>0. \A o \in Orders : Agrees(o)
  BY DEF AgreeInv, OrdersAgreeInTurn, StatusAgreesInTurn, Agrees
<1>1. ASSUME NEW w \in Workers, Edit(w) \/ Mark(w) \/ Issue(w) \/ Cancel(w)
      PROVE  \A o \in Orders : Agrees(o)'
  BY <1>1, EndAgrees
<1>2. ASSUME NEW w \in Workers, CommitReceipt(w) PROVE \A o \in Orders : Agrees(o)'
  <2>1. PICK q : q = worker[w].own.order
    OBVIOUS
  <2>2. Agrees(q)'
    BY <1>2, <2>1, CommitAgrees DEF ShelfInv, AgreeInv
  <2>3. q \in Orders
    BY <1>2, <2>1, CommitTyped DEF ShelfInv
  <2>4. ASSUME NEW o \in Orders, o # q PROVE Agrees(o)'
    <3>1. order'[o] = order[o]
      BY <1>2, <2>1, <2>3, <2>4 DEF CommitReceipt, RowsInv
    <3>2. got'[o] = got[o]
      BY <1>2, <2>1, <2>3, <2>4 DEF CommitReceipt, RowsInv
    <3>3. QED
      BY <1>0, <1>2, <3>1, <3>2, UntouchedAgrees DEF CommitReceipt
  <2>5. QED
    BY <2>2, <2>4
<1>3. ASSUME NEW q \in Orders, NEW l \in Lists[q], Create(q, l)
      PROVE  \A o \in Orders : Agrees(o)'
  <2>1. /\ ~Exists(q) /\ order'[q].status = "draft" /\ got' = got
        /\ \A o \in Orders : o # q => order'[o] = order[o] /\ drafts'[o] = drafts[o]
    BY <1>3 DEF Create, RowsInv, goods
  <2>2. ~AnyReceived(q)
    BY <2>1 DEF ReceiptsInv, GoodsWereOrdered, Numbered, RowsInv
  <2>3. ~AnyReceived(q)'
    BY <2>1, <2>2 DEF AnyReceived, Received
  <2>4. Agrees(q)'
    BY <2>1, <2>3, NothingInNext DEF ShelfInv
  <2>5. ASSUME NEW o \in Orders, o # q PROVE Agrees(o)'
    BY <1>0, <2>1, <2>5, UntouchedAgrees
  <2>6. QED
    BY <2>4, <2>5
<1>4. CASE UNCHANGED <<order, drafts, got>>
  BY <1>0, <1>4, UntouchedAgrees
<1>5. ASSUME NEW w \in Workers, WorkerStep(w) PROVE \A o \in Orders : Agrees(o)'
  BY <1>1, <1>2, <1>4, <1>5
     DEF WorkerStep, Value, Gate, Number, ReadLines, CheckOutstanding, PostLine,
         Reload, Reread, Recount, goods
<1>6. ASSUME NEW w \in Workers, NEW o \in Orders, Begin(w, o)
      PROVE  UNCHANGED <<order, drafts, got>>
  BY <1>6 DEF Begin, BeginEdit, BeginIssue, BeginCancel, BeginReceive, goods
<1>7. QED
  BY <1>3, <1>4, <1>5, <1>6 DEF Next, Fail, Decide, Resubmit, DeleteProduct, goods

-----------------------------------------------------------------------------
(* Numbers *)

\* The numbers given so far.
Given == {order[o].number : o \in Numbered}

LEMMA NumberedFinite == IsFiniteSet(Numbered)
<1>1. Numbered \subseteq Orders
  BY DEF Numbered
<1>2. QED
  BY <1>1, PurchasingBounds, FS_Subset

\* An order that is issued in turn gets the next number.
LEMMA IssueNumbers ==
  ASSUME RowsInv, ReceiptsInv, TurnsInv, AgreeInv, serial, NEW w \in Workers, Issue(w)
  PROVE  (Given = 1 .. Cardinality(Numbered))'
<1>1. PICK q, n : q = worker[w].order /\ n = Cardinality(Numbered)
  OBVIOUS
<1>2. /\ worker[w].pc = "issue" /\ q \in Orders /\ q \notin Numbered
      /\ worker[w].number = n + 1
  <2>1. worker[w].pc = "issue" /\ q \in Orders
    BY <1>1, Locals DEF Issue
  <2>2. q \notin Numbered
    BY <1>1, <2>1, TurnOrders
  <2>3. worker[w].number = NextNumber
    BY <2>1 DEF AgreeInv, Reads
  <2>4. n \in Nat
    BY <1>1, NumberedFinite, FS_CardinalityType
  <2>5. QED
    BY <1>1, <2>1, <2>2, <2>3, <2>4 DEF NextNumber
<1>3. n \in Nat /\ Given = 1 .. n
  BY <1>1, NumberedFinite, FS_CardinalityType
     DEF AgreeInv, OrdersAgreeInTurn, NumbersUnbrokenInTurn, Given
<1>4. \A o \in Orders : order'[o].number = IF o = q THEN n + 1 ELSE order[o].number
  BY <1>1, <1>2 DEF Issue, RowsInv
<1>5. Numbered' = Numbered \cup {q}
  BY <1>2, <1>3, <1>4 DEF Numbered
<1>6. Cardinality(Numbered') = n + 1
  BY <1>1, <1>2, <1>5, NumberedFinite, FS_AddElement
<1>7. Given' = Given \cup {n + 1}
  <2>1. Given' = {order'[o].number : o \in Numbered \cup {q}}
    BY <1>5 DEF Given
  <2>2. Numbered \subseteq Orders
    BY DEF Numbered
  <2>3. QED
    BY <1>2, <1>4, <2>1, <2>2 DEF Given
<1>8. 1 .. n + 1 = (1 .. n) \cup {n + 1}
  BY <1>3
<1>9. QED
  BY <1>3, <1>6, <1>7, <1>8

LEMMA NumbersStep ==
  ASSUME RowsInv, RowsInv', ReceiptsInv, TurnsInv, AgreeInv, serial, Next
  PROVE  (Given = 1 .. Cardinality(Numbered))'
<1>0. Given = 1 .. Cardinality(Numbered)
  BY DEF AgreeInv, OrdersAgreeInTurn, NumbersUnbrokenInTurn, Given
<1>1. CASE \A o \in Orders : order'[o].number = order[o].number
  <2>1. Numbered' = Numbered
    BY <1>1 DEF Numbered
  <2>2. Given' = Given
    BY <1>1, <2>1 DEF Given, Numbered
  <2>3. QED
    BY <1>0, <2>1, <2>2
<1>2. ASSUME NEW w \in Workers, Issue(w)
      PROVE  (Given = 1 .. Cardinality(Numbered))'
  BY <1>2, IssueNumbers
<1>3. ASSUME NEW w \in Workers, Edit(w) \/ Mark(w) \/ Cancel(w) \/ CommitReceipt(w)
      PROVE  \A o \in Orders : order'[o].number = order[o].number
  <2>1. order' = order \/ \E q, v : order' = [order EXCEPT ![q].status = v]
    BY <1>3 DEF Edit, Mark, Cancel, CommitReceipt
  <2>2. ASSUME NEW q, NEW v, order' = [order EXCEPT ![q].status = v]
        PROVE  \A o \in Orders : order'[o].number = order[o].number
    BY <2>2 DEF RowsInv
  <2>3. QED
    BY <2>1, <2>2
<1>4. ASSUME NEW q \in Orders, NEW l \in Lists[q], Create(q, l)
      PROVE  \A o \in Orders : order'[o].number = order[o].number
  BY <1>4 DEF Create, RowsInv
<1>5. ASSUME NEW w \in Workers, WorkerStep(w)
      PROVE  (Given = 1 .. Cardinality(Numbered))'
  BY <1>1, <1>2, <1>3, <1>5
     DEF WorkerStep, Value, Gate, Number, ReadLines, CheckOutstanding, PostLine,
         Reload, Reread, Recount
<1>6. ASSUME NEW w \in Workers, NEW o \in Orders, Begin(w, o) PROVE order' = order
  BY <1>6 DEF Begin, BeginEdit, BeginIssue, BeginCancel, BeginReceive
<1>7. QED
  BY <1>1, <1>4, <1>5, <1>6 DEF Next, Fail, Decide, Resubmit, DeleteProduct

-----------------------------------------------------------------------------
(* What has been read is still so *)

\* Between turns nothing moves under a handler but orders that are not there yet.
LEMMA ReadsStay ==
  ASSUME RowsInv, RowsInv', ReceiptsInv, StockInv, NEW v \in Workers, Reads(worker[v]),
         worker'[v] = worker[v],
         \/ UNCHANGED <<order, drafts, got>>
         \/ \E q \in Orders : \E l \in Lists[q] : Create(q, l)
  PROVE  Reads(worker[v])'
<1> DEFINE t == worker[v]
<1>1. CASE UNCHANGED <<order, drafts, got>>
  BY <1>1 DEF Reads, AnyReceived, Received, NextNumber, Numbered, Sees, Stored, Last,
              Seen
<1>2. ASSUME NEW q \in Orders, NEW l \in Lists[q], Create(q, l) PROVE Reads(worker[v])'
  <2>1. /\ ~Exists(q) /\ got' = got
        /\ \A o \in Orders : o # q => order'[o] = order[o] /\ drafts'[o] = drafts[o]
        /\ order'[q].number = order[q].number
    BY <1>2 DEF Create, RowsInv, goods
  <2>2. Numbered' = Numbered
    BY <2>1 DEF Numbered
  <2>3. CASE t = Free
    BY <2>3 DEF Reads, Free
  <2>4. CASE t # Free
    <3>1. PICK o : o = Subject(t)
      OBVIOUS
    <3>2. o \in Orders /\ o # q
      BY <2>1, <2>4, <3>1, Locals DEF On, RowsInv, Busy
    <3>3. order'[o] = order[o] /\ drafts'[o] = drafts[o]
      BY <2>1, <3>2
    <3>4. t.pc \in {"post", "reread", "recount", "commit"} => t.own.order = o
      BY <3>1 DEF Subject
    <3>5. t.pc \notin {"post", "reread", "recount", "commit"} => t.order = o
      BY <3>1 DEF Subject
    <3>6. Reads(t)
      OBVIOUS
    <3>7. CASE t.pc \notin {"post", "reread", "recount", "commit"}
      BY <2>1, <2>2, <3>3, <3>5, <3>6, <3>7
         DEF Reads, AnyReceived, Received, NextNumber
    <3>8. CASE t.pc \in {"post", "reread", "recount", "commit"}
      <4>1. PICK r : r = t.own
        OBVIOUS
      <4>2. Sees(t.own)' <=> Sees(t.own)
        <5>1. r.order = o
          BY <3>4, <3>8, <4>1
        <5>2. Sees(r) <=> \A k \in DOMAIN Stored(o).lines :
                            Seen(r, Len(drafts[o]), k) >= Stored(o).lines[k].quantity
          BY <5>1 DEF Sees
        <5>3. Sees(r)' <=> (\A k \in DOMAIN Stored(o).lines :
                              Seen(r, Len(drafts[o]), k)
                                >= Stored(o).lines[k].quantity)'
          BY <5>1 DEF Sees, Seen, Received, Stored, Last
        <5>4. Stored(o)' = Stored(o) /\ Len(drafts'[o]) = Len(drafts[o])
          BY <3>3 DEF Stored, Last
        <5>5. \A k : Seen(r, Len(drafts[o]), k)' = Seen(r, Len(drafts[o]), k)
          BY <2>1, <5>4 DEF Seen, Received
        <5>6. Sees(r)' <=> Sees(r)
          BY <5>2, <5>3, <5>4, <5>5
        <5>7. Sees(t.own)' <=> Sees(r)'
          BY <4>1 DEF Sees, Seen, Received, Stored
        <5>8. QED
          BY <4>1, <5>6, <5>7
      <4>3. QED
        BY <3>3, <3>4, <3>6, <3>8, <4>2 DEF Reads
    <3>9. QED
      BY <3>7, <3>8
  <2>5. QED
    BY <2>3, <2>4
<1>3. QED
  BY <1>1, <1>2

\* What the handler at work has read, after its statement.
LEMMA BeginReads ==
  ASSUME RowsInv, NEW w \in Workers, NEW o \in Orders, Begin(w, o)
  PROVE  Reads(worker[w])'
<1>0. UNCHANGED <<order, drafts, got>>
  BY DEF Begin, BeginEdit, BeginIssue, BeginCancel, BeginReceive, goods
<1>1. ASSUME NEW l \in Lists[o], BeginEdit(w, o, l) PROVE Reads(worker[w])'
  <2>1. worker'[w].pc = "edit"
    BY <1>1 DEF BeginEdit, Start, Go, RowsInv
  <2>2. QED
    BY <2>1 DEF Reads
<1>2. CASE BeginIssue(w, o)
  <2>1. /\ worker'[w].pc = "value" /\ worker'[w].order = o
        /\ worker'[w].number = order[o].number
    BY <1>2 DEF BeginIssue, Start, Go, RowsInv
  <2>2. QED
    BY <1>0, <2>1 DEF Reads
<1>3. CASE BeginCancel(w, o)
  <2>1. worker'[w].pc = "cancel" /\ worker'[w].order = o /\ ~AnyReceived(o)
    BY <1>3 DEF BeginCancel, Start, Go, RowsInv
  <2>2. QED
    BY <1>0, <2>1 DEF Reads, AnyReceived, Received
<1>4. CASE BeginReceive(w, o)
  <2>1. worker'[w].pc = "lines"
    BY <1>4 DEF BeginReceive, Start, Go, RowsInv
  <2>2. QED
    BY <2>1 DEF Reads
<1>5. QED
  BY <1>1, <1>2, <1>3, <1>4 DEF Begin

LEMMA IssuingReads ==
  ASSUME RowsInv, TurnsInv, serial, NEW w \in Workers, Reads(worker[w]),
         Value(w) \/ Gate(w) \/ Number(w)
  PROVE  Reads(worker[w])'
<1>0. UNCHANGED <<order, drafts, got>>
  BY DEF Value, Gate, Number, goods
<1>1. PICK t : t = worker[w]
  OBVIOUS
<1>2. CASE Value(w)
  <2>1. /\ worker'[w].pc = "gate" /\ worker'[w].order = t.order
        /\ worker'[w].number = t.number
    BY <1>1, <1>2 DEF Value, Go, RowsInv
  <2>2. QED
    BY <1>0, <1>1, <1>2, <2>1 DEF Reads, Value
<1>3. CASE Gate(w)
  <2>1. t.pc = "gate" /\ t.order \in Orders /\ t.order \notin Numbered
    BY <1>1, <1>3, Locals, TurnOrders DEF Gate
  <2>2. t.number = 0
    BY <1>1, <2>1 DEF Reads, Numbered
  <2>3. worker'[w].pc \in {"number", "mark", "free"}
    <3>1. CASE Pass(w)
      BY <1>1, <2>1, <2>2, <3>1, PassLocals DEF Go, RowsInv
    <3>2. ASSUME NEW s, Go(w, [pc |-> "mark", order |-> t.order, status |-> s])
          PROVE  worker'[w].pc = "mark"
      BY <3>2 DEF Go, RowsInv
    <3>3. CASE Go(w, Free)
      BY <3>3 DEF Go, RowsInv, Free
    <3>4. QED
      BY <1>1, <1>3, <3>1, <3>2, <3>3, GateOutcome
  <2>4. QED
    BY <2>3 DEF Reads
<1>4. CASE Number(w)
  <2>1. /\ t \in [pc : {"gate", "number", "issue"}, order : Orders,
                  status : Issuable, number : Nat, amount : Nat]
        /\ Go(w, [t EXCEPT !.pc = "issue", !.number = NextNumber])
    BY <1>1, <1>4, Locals DEF Number
  <2>2. worker'[w].pc = "issue" /\ worker'[w].number = NextNumber
    BY <2>1 DEF Go, RowsInv
  <2>3. QED
    BY <1>0, <2>2 DEF Reads, NextNumber, Numbered
<1>5. QED
  BY <1>2, <1>3, <1>4

LEMMA ReceivingReads ==
  ASSUME RowsInv, ShelfInv, NEW w \in Workers, Reads(worker[w]),
         \/ ReadLines(w)
         \/ \E delivery \in Deliveries : CheckOutstanding(w, delivery)
         \/ PostLine(w) \/ Reload(w) \/ Reread(w) \/ Recount(w)
  PROVE  Reads(worker[w])'
<1>0. UNCHANGED <<order, drafts, got>>
  BY DEF ReadLines, CheckOutstanding, PostLine, Reload, Reread, Recount, goods
<1>1. PICK t : t = worker[w]
  OBVIOUS
<1>2. CASE ReadLines(w)
  <2>1. /\ worker'[w].pc = "outstanding" /\ worker'[w].order = t.order
        /\ worker'[w].draft = Len(drafts[t.order])
    BY <1>1, <1>2 DEF ReadLines, Go, RowsInv
  <2>2. QED
    BY <1>0, <2>1 DEF Reads
<1>f. ASSUME worker'[w].pc = "free" PROVE Reads(worker[w])'
  BY <1>f DEF Reads
<1>3. ASSUME NEW delivery \in Deliveries, CheckOutstanding(w, delivery)
      PROVE  Reads(worker[w])'
  <2>1. CASE InReceipt(w)'
    <3>1. /\ worker'[w].pc = "post" /\ worker'[w].own.order = t.order
          /\ worker'[w].own.draft = t.draft
      BY <1>1, <1>3, <2>1, CheckMoves DEF ShelfInv
    <3>2. t.draft = Len(drafts[t.order])
      BY <1>1, <1>3 DEF CheckOutstanding, Reads
    <3>3. QED
      BY <1>0, <3>1, <3>2 DEF Reads
  <2>2. CASE ~InReceipt(w)'
    <3>1. worker'[w].pc = "free"
      BY <1>3, <2>2 DEF CheckOutstanding, Go, RowsInv, InReceipt, Free
    <3>2. QED
      BY <1>f, <3>1
  <2>3. QED
    BY <2>1, <2>2
<1>4. CASE PostLine(w)
  <2>1. CASE InReceipt(w)'
    <3>1. /\ worker'[w].pc = "post" /\ worker'[w].own.order = t.own.order
          /\ worker'[w].own.draft = t.own.draft
      BY <1>1, <1>4, <2>1, PostMoves
    <3>2. t.own.draft = Len(drafts[t.own.order])
      BY <1>1, <1>4 DEF PostLine, Reads
    <3>3. QED
      BY <1>0, <3>1, <3>2 DEF Reads
  <2>2. CASE ~InReceipt(w)'
    <3>1. worker'[w].pc = "free"
      BY <1>4, <2>2, PostLineOutcome DEF Go, RowsInv, InReceipt, Free
    <3>2. QED
      BY <1>f, <3>1
  <2>3. QED
    BY <2>1, <2>2
<1>5. CASE Reload(w)
  <2>1. /\ worker'[w].pc = "reread" /\ worker'[w].own = t.own
        /\ worker'[w].was = order[t.own.order].status
    BY <1>1, <1>5 DEF Reload, Go, RowsInv
  <2>2. t.own.draft = Len(drafts[t.own.order])
    BY <1>1, <1>5 DEF Reload, Reads
  <2>3. QED
    BY <1>0, <2>1, <2>2 DEF Reads
<1>6. CASE Reread(w)
  <2>1. /\ worker'[w].pc = "recount" /\ worker'[w].own = t.own
        /\ worker'[w].was = t.was /\ worker'[w].now = Len(drafts[t.own.order])
    BY <1>1, <1>6 DEF Reread, Go, RowsInv
  <2>2. /\ t.own.draft = Len(drafts[t.own.order])
        /\ t.was = order[t.own.order].status
    BY <1>1, <1>6 DEF Reread, Reads
  <2>3. QED
    BY <1>0, <2>1, <2>2 DEF Reads
<1>7. CASE Recount(w)
  <2>1. PICK r : r = t.own
    OBVIOUS
  <2>2. /\ t.pc = "recount" /\ r \in Receipt /\ Exists(r.order) /\ Placed(r)
        /\ r.draft = Len(drafts[r.order]) /\ t.now = r.draft
        /\ t.was = order[r.order].status
    BY <1>1, <1>7, <2>1, Locals, AtWork
       DEF Recount, Reads, InReceipt, ShelfInv, MovedInv
  <2>3. \E k \in DOMAIN Stored(r.order).lines : Seen(r, r.draft, k) > 0
    BY <2>2, SeesSome DEF ShelfInv
  <2>4. drafts[r.order][t.now].lines = Stored(r.order).lines
    BY <2>2 DEF Stored, Last
  <2>5. /\ worker'[w].pc = "commit" /\ worker'[w].own = r /\ worker'[w].was = t.was
        /\ worker'[w].status = IF Sees(r) THEN "received" ELSE "partly_received"
    <3>1. PICK all, any :
            /\ all <=> \A k \in DOMAIN Stored(r.order).lines :
                         Fulfilled(Seen(r, r.draft, k), Stored(r.order).lines[k])
            /\ any <=> \E k \in DOMAIN Stored(r.order).lines : Seen(r, r.draft, k) > 0
      OBVIOUS
    <3>2. Go(w, [pc |-> "commit", own |-> r, was |-> t.was,
                 status |-> IF all THEN "received"
                            ELSE IF any THEN "partly_received" ELSE t.was])
      BY <1>1, <1>7, <2>1, <2>2, <2>4, <3>1 DEF Recount
    <3>3. all <=> Sees(r)
      BY <2>2, <3>1 DEF Sees, Fulfilled
    <3>4. QED
      BY <2>3, <3>1, <3>2, <3>3 DEF Go, RowsInv
  <2>6. Sees(r)' <=> Sees(r)
    BY <1>0 DEF Sees, Seen, Received, Stored, Last
  <2>7. QED
    BY <1>0, <2>2, <2>5, <2>6 DEF Reads
<1>8. QED
  BY <1>2, <1>3, <1>4, <1>5, <1>6, <1>7

LEMMA ReadsStep ==
  ASSUME RowsInv, RowsInv', ReceiptsInv, TurnsInv, ShelfInv, AgreeInv, serial, serial',
         Next, NEW v \in Workers
  PROVE  Reads(worker[v])'
<1>0. \A w \in Workers : Reads(worker[w])
  BY DEF AgreeInv
<1>1. CASE worker'[v] # worker[v]
  <2>1. ASSUME worker'[v] = Free PROVE Reads(worker[v])'
    BY <2>1 DEF Reads, Free
  <2>2. ASSUME NEW o \in Orders, Begin(v, o) PROVE Reads(worker[v])'
    BY <2>2, BeginReads
  <2>3. CASE WorkerStep(v)
    BY <1>0, <2>1, <2>3, IssuingReads, ReceivingReads, Outcomes DEF WorkerStep
  <2>4. CASE Fail(v)
    BY <2>1, <2>4, Outcomes
  <2>5. QED
    BY <1>1, <2>2, <2>3, <2>4, OwnStep
<1>2. CASE worker'[v] = worker[v]
  <2>1. CASE worker[v] = Free
    BY <1>2, <2>1 DEF Reads, Free
  <2>2. CASE worker[v] # Free /\ ((\E o \in Orders : Begin(v, o)) \/ WorkerStep(v))
    <3>1. ~\E o \in Orders : Begin(v, o)
      BY <2>2 DEF Begin, BeginEdit, BeginIssue, BeginCancel, BeginReceive, Start
    <3>2. CASE Edit(v) \/ Mark(v) \/ Issue(v) \/ Cancel(v) \/ CommitReceipt(v)
      BY <1>2, <2>2, <3>2, Outcomes
    <3>3. QED
      BY <1>0, <2>2, <3>1, <3>2, IssuingReads, ReceivingReads DEF WorkerStep
  <2>3. CASE worker[v] # Free /\ ~((\E o \in Orders : Begin(v, o)) \/ WorkerStep(v))
    <3>1. \A w \in Workers \ {v} : worker[w] = Free
      BY <2>3 DEF TurnsInv, Busy
    <3>2. ASSUME NEW w \in Workers, (\E o \in Orders : Begin(w, o)) \/ WorkerStep(w)
          PROVE  FALSE
      <4>1. w # v
        BY <2>3, <3>2
      <4>2. worker[w] = Free
        BY <3>1, <4>1
      <4>3. ~WorkerStep(w)
        BY <4>2 DEF WorkerStep, Edit, Value, Gate, Mark, Number, Issue, Cancel,
           ReadLines, CheckOutstanding, PostLine, Reload, Reread, Recount,
           CommitReceipt, Free
      <4>4. ~\E o \in Orders : Begin(w, o)
        <5>1. ASSUME NEW o \in Orders, Begin(w, o) PROVE \A u \in Workers : worker[u] = Free
          BY <5>1 DEF Begin, BeginEdit, BeginIssue, BeginCancel, BeginReceive, Start
        <5>2. QED
          BY <2>3, <5>1
      <4>5. QED
        BY <3>2, <4>3, <4>4
    <3>3. \/ UNCHANGED <<order, drafts, got>>
          \/ \E q \in Orders : \E l \in Lists[q] : Create(q, l)
      BY <3>2 DEF Next, Fail, Decide, Resubmit, DeleteProduct, goods
    <3>4. QED
      BY <1>0, <1>2, <3>3, ReadsStay DEF ShelfInv
  <2>4. QED
    BY <2>1, <2>2, <2>3
<1>3. QED
  BY <1>1, <1>2

LEMMA AgreeStep ==
  PurchasingInv /\ PurchasingInv' /\ ShelfInv /\ ShelfInv' /\ AgreeInv /\ [Next]_pvars
  => AgreeInv'
<1> SUFFICES ASSUME PurchasingInv, PurchasingInv', ShelfInv, ShelfInv', AgreeInv,
                    [Next]_pvars
             PROVE  AgreeInv'
  OBVIOUS
<1>0. /\ RowsInv /\ RowsInv' /\ ReceiptsInv /\ TurnsInv
  BY DEF PurchasingInv
<1>1. CASE Next /\ serial'
  <2>1. serial
    BY <1>1, SerialBefore
  <2>2. \A o \in Orders : Agrees(o)'
    BY <1>0, <1>1, <2>1, StatusesStep
  <2>3. (Given = 1 .. Cardinality(Numbered))'
    BY <1>0, <1>1, <2>1, NumbersStep
  <2>4. \A v \in Workers : Reads(worker[v])'
    BY <1>0, <1>1, <2>1, ReadsStep
  <2>5. StatusAgreesInTurn'
    BY <2>2 DEF StatusAgreesInTurn, Agrees
  <2>6. NumbersUnbrokenInTurn'
    BY <2>3 DEF NumbersUnbrokenInTurn, Given
  <2>7. QED
    BY <2>4, <2>5, <2>6 DEF AgreeInv, OrdersAgreeInTurn
<1>2. CASE ~serial'
  BY <1>2 DEF AgreeInv, OrdersAgreeInTurn, StatusAgreesInTurn, NumbersUnbrokenInTurn
<1>3. CASE UNCHANGED pvars
  <2>1. \A o \in Orders : Agrees(o) => Agrees(o)'
    BY <1>3, UntouchedAgrees DEF pvars
  <2>2. StatusAgreesInTurn'
    BY <1>3, <2>1 DEF AgreeInv, OrdersAgreeInTurn, StatusAgreesInTurn, Agrees, pvars
  <2>3. NumbersUnbrokenInTurn'
    BY <1>3 DEF AgreeInv, OrdersAgreeInTurn, NumbersUnbrokenInTurn, Numbered, pvars
  <2>4. ASSUME serial', NEW v \in Workers PROVE Reads(worker[v])'
    BY <1>0, <1>3, <2>4, ReadsStay DEF AgreeInv, ShelfInv, pvars
  <2>5. QED
    BY <2>2, <2>3, <2>4 DEF AgreeInv, OrdersAgreeInTurn
<1>4. QED
  BY <1>1, <1>2, <1>3

LEMMA AgreeStart == Init => AgreeInv
<1> SUFFICES ASSUME Init PROVE AgreeInv
  OBVIOUS
<1>1. Numbered = {} /\ \A w \in Workers : worker[w] = Free
  BY DEF Init, Numbered
<1>2. \A w \in Workers : Reads(worker[w])
  BY <1>1 DEF Reads, Free
<1>3. StatusAgreesInTurn
  BY DEF Init, StatusAgreesInTurn, Exists
<1>4. NumbersUnbrokenInTurn
  <2>1. Cardinality(Numbered) = 0
    BY <1>1, FS_EmptySet
  <2>2. {order[o].number : o \in Numbered} = {} /\ 1 .. 0 = {}
    BY <1>1
  <2>3. QED
    BY <2>1, <2>2 DEF NumbersUnbrokenInTurn
<1>5. QED
  BY <1>2, <1>3, <1>4 DEF AgreeInv, OrdersAgreeInTurn

\* While handlers run one after another, what a handler has read of its order is
\* still so when it writes, what a receipt is about to write follows from it,
\* statuses agree with the quantities underneath and numbers have no gap
\* (refreshPurchaseOrderStatus, nextPurchaseOrderNumber).
THEOREM AgreeInvariant == Spec => [](PurchasingInv /\ ShelfInv /\ AgreeInv)
<1>1. Init => PurchasingInv /\ ShelfInv /\ AgreeInv
  BY InitInv, ShelfStart, AgreeStart
<1>2. PurchasingInv /\ ShelfInv /\ AgreeInv /\ [Next]_pvars
        => (PurchasingInv /\ ShelfInv /\ AgreeInv)'
  BY StepInv, ShelfStep, AgreeStep DEF PurchasingInv
<1>3. QED
  BY <1>1, <1>2, PTL DEF Spec

\* While handlers run one after another, an order is received when every line
\* has come in and partly received when some of it has, and the orders ever issued
\* are numbered 1, 2, ... without a gap, for any orders, edits, part deliveries,
\* cancellations and failures (refreshPurchaseOrderStatus,
\* nextPurchaseOrderNumber).
THEOREM OrdersAgreeHolds == Spec => []OrdersAgreeInTurn
<1>1. AgreeInv => OrdersAgreeInTurn
  BY DEF AgreeInv
<1>2. QED
  BY <1>1, AgreeInvariant, PTL

-----------------------------------------------------------------------------
(* Purchasing implements Receiving *)

\* The lines a receipt has posted are of products that are still there, and it has
\* moved some of each.
Alive(t) ==
  \A j \in DOMAIN t.own.delivery : j < Posted(t) =>
    LET p == LineOf(t.own, j).product IN
    p # NoProduct => t.own.moved[p] > 0 /\ product[p] = "live"

ArrivesInv ==
  /\ \A o \in Orders : ~Exists(o) => drafts[o] = <<>>
  /\ \A w \in Workers : worker[w].pc = "edit" =>
       worker[w].list \in Lists[worker[w].order]
  /\ \A w \in Workers : InReceipt(w) => Alive(worker[w])

\* Who writes an order's row.
LEMMA RowWriters ==
  ASSUME [Next]_pvars
  PROVE  \/ order' = order
         \/ \E w \in Workers : Writes(w)
         \/ \E o \in Orders : \E l \in Lists[o] : Create(o, l)
<1>1. ASSUME NEW w \in Workers, NEW o \in Orders, Begin(w, o) PROVE order' = order
  BY <1>1 DEF Begin, BeginEdit, BeginIssue, BeginCancel, BeginReceive
<1>2. ASSUME NEW w \in Workers, WorkerStep(w), ~Writes(w) PROVE order' = order
  BY <1>2 DEF WorkerStep, Writes, Value, Gate, Number, ReadLines,
              CheckOutstanding, PostLine, Reload, Reread, Recount
<1>3. CASE UNCHANGED pvars
  BY <1>3 DEF pvars
<1>4. QED
  BY <1>1, <1>2, <1>3 DEF Next, Fail, Decide, Resubmit, DeleteProduct

\* An order that is there stays there.
LEMMA ExistsStays ==
  ASSUME RowsInv, RowsInv', [Next]_pvars, NEW o \in Orders, ~Exists(o)'
  PROVE  ~Exists(o) /\ drafts'[o] = drafts[o]
<1>0. /\ order \in [Orders -> [status : Statuses \cup {"none"}, number : Nat]]
      /\ drafts \in [Orders -> Seq(List)] /\ "none" \notin Statuses
  BY DEF RowsInv, Statuses, Issuable, Receivable
<1>1. ASSUME NEW q \in Orders, NEW s \in Statuses, order' = [order EXCEPT ![q].status = s]
      PROVE  q # o /\ order'[o] = order[o]
  BY <1>0, <1>1 DEF Exists
<1>2. ASSUME NEW w \in Workers, Edit(w) PROVE ~Exists(o) /\ drafts'[o] = drafts[o]
  <2>1. worker[w].order \in Orders /\ "draft" \in Statuses
    BY <1>2, Locals DEF Edit, Statuses, Issuable
  <2>2. worker[w].order # o /\ order'[o] = order[o]
    BY <1>1, <1>2, <2>1 DEF Edit
  <2>3. QED
    BY <1>0, <1>2, <2>2 DEF Edit, Exists
<1>3. ASSUME NEW q \in Orders, NEW l \in Lists[q], Create(q, l)
      PROVE  ~Exists(o) /\ drafts'[o] = drafts[o]
  <2>1. q # o /\ order'[o] = order[o]
    <3>1. "draft" \in Statuses
      BY DEF Statuses, Issuable
    <3>2. QED
      BY <1>1, <1>3, <3>1 DEF Create
  <2>2. QED
    BY <1>0, <1>3, <2>1 DEF Create, Exists
<1>4. CASE drafts' = drafts
  <2>1. ASSUME Exists(o) PROVE FALSE
    <3>1. CASE order' = order
      BY <2>1, <3>1 DEF Exists
    <3>2. ASSUME NEW w \in Workers, Writes(w) PROVE FALSE
      <4>1. CASE Issue(w)
        <5>1. order' = [order EXCEPT ![worker[w].order] =
                          [status |-> "issued", number |-> worker[w].number]]
          BY <4>1 DEF Issue
        <5>2. QED
          BY <1>0, <2>1, <5>1 DEF Exists
      <4>2. CASE CommitReceipt(w)
        <5>1. worker[w].own \in Receipt /\ worker[w].status \in Statuses
          BY <4>2, Locals DEF CommitReceipt
        <5>2. worker[w].own.order \in Orders
          BY <5>1 DEF Receipt
        <5>3. QED
          BY <1>1, <2>1, <4>2, <5>1, <5>2 DEF CommitReceipt, Exists
      <4>3. CASE Edit(w)
        BY <1>2, <2>1, <4>3
      <4>4. CASE Mark(w)
        BY <1>1, <2>1, <4>4, Locals DEF Mark, Exists
      <4>5. CASE Cancel(w)
        <5>1. worker[w].order \in Orders /\ "cancelled" \in Statuses
          BY <4>5, Locals DEF Cancel, Statuses
        <5>2. QED
          BY <1>1, <2>1, <4>5, <5>1 DEF Cancel, Exists
      <4>6. QED
        BY <3>2, <4>1, <4>2, <4>3, <4>4, <4>5 DEF Writes
    <3>3. QED
      BY <1>3, <2>1, <3>1, <3>2, RowWriters
  <2>2. QED
    BY <1>4, <2>1
<1>5. QED
  BY <1>2, <1>3, <1>4, DraftWriters

\* The lines a receipt refers to.
LEMMA LineTyped ==
  ASSUME RowsInv, NEW r \in Receipt, Placed(r), NEW j \in DOMAIN r.delivery
  PROVE  /\ r.draft \in 1 .. Len(drafts[r.order])
         /\ r.delivery[j].line \in DOMAIN drafts[r.order][r.draft].lines
         /\ LineOf(r, j).product \in Products \cup {NoProduct}
<1>1. PICK o, d : o = r.order /\ d = r.draft
  OBVIOUS
<1>2. o \in Orders /\ d \in Nat \ {0} /\ d <= Len(drafts[o])
  BY <1>1 DEF Receipt, Placed, DraftId
<1>3. drafts[o] \in Seq(List) /\ Len(drafts[o]) \in Nat
  BY <1>2 DEF RowsInv
<1>4. d \in 1 .. Len(drafts[o])
  BY <1>2, <1>3
<1>5. \A S : \A q \in Seq(S) : \A i \in DOMAIN q : q[i] \in S
  OBVIOUS
<1>6. drafts[o][d] \in List
  BY <1>3, <1>4, <1>5
<1>a. PICK S : S = [product : Products \cup {NoProduct}, quantity : Nat \ {0}]
  OBVIOUS
<1>7. PICK q : q = drafts[o][d].lines
  OBVIOUS
<1>8. q \in Seq(S)
  BY <1>6, <1>7, <1>a DEF List
<1>9. r.delivery[j].line \in DOMAIN q
  BY <1>1, <1>7 DEF Placed
<1>10. q[r.delivery[j].line] \in S
  BY <1>5, <1>8, <1>9
<1>11. LineOf(r, j) = q[r.delivery[j].line]
  BY <1>1, <1>7 DEF LineOf
<1>12. QED
  BY <1>1, <1>4, <1>7, <1>9, <1>10, <1>11, <1>a

\* A line stays what it was.
LEMMA LineStays ==
  ASSUME RowsInv, [Next]_pvars, NEW r \in Receipt, Exists(r.order), Placed(r),
         NEW j \in DOMAIN r.delivery
  PROVE  LineOf(r, j)' = LineOf(r, j)
<1>1. r.order \in Orders /\ r.draft \in 1 .. Len(drafts[r.order])
  BY LineTyped DEF Receipt
<1>2. drafts'[r.order][r.draft] = drafts[r.order][r.draft]
  BY <1>1, DraftsGrow
<1>3. QED
  BY <1>2 DEF LineOf

\* While nothing is deleted under it, what a receipt has posted stays alive.
LEMMA AliveStays ==
  ASSUME RowsInv, StockInv, MovedInv, [Next]_pvars, NEW v \in Workers, InReceipt(v),
         Alive(worker[v]), NEW u, u.own.delivery = worker[v].own.delivery,
         u.own.order = worker[v].own.order, u.own.draft = worker[v].own.draft,
         NEW j \in DOMAIN u.own.delivery, j < Posted(worker[v]),
         \A p \in Products : u.own.moved[p] \in Nat
                              /\ u.own.moved[p] >= worker[v].own.moved[p],
         LineOf(u.own, j)'.product # NoProduct
  PROVE  /\ LineOf(u.own, j)'.product \in Products
         /\ u.own.moved[LineOf(u.own, j)'.product] > 0
         /\ product'[LineOf(u.own, j)'.product] = "live"
<1>1. PICK r, p : r = worker[v].own /\ p = LineOf(r, j).product
  OBVIOUS
<1>2. /\ r \in Receipt /\ Exists(r.order) /\ Placed(r) /\ j \in DOMAIN r.delivery
      /\ r.moved \in [Products -> Nat]
  <2>1. r \in Receipt /\ Exists(r.order)
    BY <1>1, Locals, AtWork DEF InReceipt
  <2>2. QED
    BY <1>1, <2>1 DEF MovedInv, Receipt
<1>3. LineOf(u.own, j)'.product = p
  <2>1. LineOf(u.own, j)' = LineOf(r, j)'
    BY <1>1 DEF LineOf
  <2>2. QED
    BY <1>1, <1>2, <2>1, LineStays
<1>4. p \in Products /\ r.moved[p] > 0 /\ product[p] = "live"
  BY <1>1, <1>2, <1>3, LineTyped DEF Alive
<1>5. product'[p] = "live"
  <2>1. ASSUME NEW q \in Products, DeleteProduct(q) PROVE q # p
    BY <1>1, <1>4, <2>1 DEF DeleteProduct, Locked
  <2>2. ASSUME NEW q \in Products, DeleteProduct(q) PROVE product'[p] = product[p]
    BY <1>4, <2>1, <2>2 DEF DeleteProduct, StockInv
  <2>3. QED
    BY <1>4, <2>2, GoodsWriters DEF goods, CommitReceipt
<1>6. u.own.moved[p] > 0
  BY <1>1, <1>2, <1>4
<1>7. QED
  BY <1>3, <1>4, <1>5, <1>6

LEMMA AliveStep ==
  ASSUME RowsInv, RowsInv', StockInv, LinesInv, MovedInv, ArrivesInv,
         [Next]_pvars, NEW v \in Workers, InReceipt(v)'
  PROVE  Alive(worker[v])'
<1>1. PICK t, u : t = worker[v] /\ u = worker'[v]
  OBVIOUS
<1>2. SUFFICES ASSUME NEW j \in DOMAIN u.own.delivery, j < Posted(u),
                      LineOf(u.own, j)'.product # NoProduct
               PROVE  /\ u.own.moved[LineOf(u.own, j)'.product] > 0
                      /\ product'[LineOf(u.own, j)'.product] = "live"
  <2>1. Posted(worker[v])' = Posted(u)
    BY <1>1 DEF Posted
  <2>2. \A j : LineOf(worker[v].own, j)' = LineOf(u.own, j)'
    BY <1>1 DEF LineOf
  <2>3. QED
    BY <1>1, <2>1, <2>2 DEF Alive
<1>3. u.own.delivery \in Deliveries /\ u.own.moved \in [Products -> Nat]
      /\ Len(u.own.delivery) \in Nat /\ j \in Nat
      /\ j < Len(u.own.delivery) + 1 /\ j >= 1
  <2>1. worker' \in [Workers -> Worker \cup {Free}]
    BY DEF RowsInv
  <2>2. u \in Worker \cup {Free}
        /\ u.pc \in {"post", "reread", "recount", "commit"}
    BY <1>1, <2>1 DEF InReceipt
  <2>3. u.own \in Receipt
    BY <2>2 DEF Worker, Free
  <2>4. u.own.delivery \in Deliveries /\ u.own.moved \in [Products -> Nat]
    BY <2>3 DEF Receipt
  <2>5. QED
    BY <2>4, DeliveryLine
<1>4. CASE u = t
  BY <1>1, <1>2, <1>3, <1>4, AliveStays DEF InReceipt, ArrivesInv
<1>5. ASSUME NEW delivery \in Deliveries, CheckOutstanding(v, delivery) PROVE FALSE
  <2>1. u.pc = "post" /\ u.next = 1
    BY <1>1, <1>5, CheckMoves
  <2>2. Posted(u) = 1
    BY <2>1 DEF Posted
  <2>3. QED
    BY <1>2, <1>3, <2>2
<1>6. CASE Reload(v) \/ Reread(v) \/ Recount(v)
  <2>1. /\ InReceipt(v) /\ u.own = t.own
        /\ t.pc = "post" => t.next \in Nat /\ t.next > Len(t.own.delivery)
    BY <1>1, <1>6, LaterMoves
  <2>2. j < Posted(t)
    BY <1>3, <2>1 DEF Posted
  <2>3. Alive(t)
    BY <1>1, <2>1 DEF ArrivesInv
  <2>4. QED
    BY <1>1, <1>2, <1>3, <2>1, <2>2, <2>3, AliveStays
<1>7. CASE PostLine(v)
  <2>1. /\ u.pc = "post" /\ u.next = t.next + 1 /\ t.next \in DOMAIN t.own.delivery
        /\ t.own \in Receipt /\ u.own \in Receipt /\ u.own.order = t.own.order
        /\ u.own.draft = t.own.draft /\ u.own.delivery = t.own.delivery
        /\ \A p \in Products :
             u.own.moved[p] = t.own.moved[p]
               + IF LineOf(t.own, t.next).product = p
                 THEN t.own.delivery[t.next].quantity ELSE 0
    BY <1>1, <1>7, PostMoves
  <2>2. /\ InReceipt(v) /\ Posted(t) = t.next /\ Posted(u) = t.next + 1
        /\ t.next \in Nat
    <3>1. t.pc = "post" /\ t.next \in Nat
      BY <1>1, <1>7, Locals DEF PostLine
    <3>2. QED
      BY <1>1, <2>1, <3>1 DEF Posted, InReceipt
  <2>3. Alive(t) /\ Placed(t.own) /\ Exists(t.own.order)
    BY <1>1, <2>2, AtWork DEF ArrivesInv, MovedInv, InReceipt
  <2>4. /\ \A p \in Products : t.own.moved[p] \in Nat
        /\ t.own.delivery[t.next].quantity \in Nat \ {0}
    <3>1. t.own.delivery \in Deliveries /\ t.own.moved \in [Products -> Nat]
      BY <2>1 DEF Receipt
    <3>2. QED
      BY <2>1, <3>1, DeliveryLine
  <2>5. CASE j < t.next
    <3>1. \A p \in Products : u.own.moved[p] \in Nat
                              /\ u.own.moved[p] >= t.own.moved[p]
      BY <2>1, <2>4
    <3>2. QED
      BY <1>1, <1>2, <2>1, <2>2, <2>3, <2>5, <3>1, AliveStays
  <2>6. CASE j = t.next
    <3>1. PICK p : p = LineOf(t.own, t.next).product
      OBVIOUS
    <3>2. LineOf(u.own, j)' = LineOf(t.own, t.next)
      <4>1. LineOf(u.own, j)' = LineOf(t.own, j)'
        BY <2>1 DEF LineOf
      <4>2. QED
        BY <2>1, <2>3, <2>6, <4>1, LineStays
    <3>3. p \in Products
      BY <1>2, <2>1, <2>3, <3>1, <3>2, LineTyped
    <3>4. product[p] = "live" /\ product' = product
      <4>1. ~Go(v, Free)
        BY DEF Go, RowsInv, InReceipt, Free
      <4>2. QED
        BY <1>1, <1>2, <1>7, <3>1, <3>2, <4>1 DEF PostLine, goods
    <3>5. u.own.moved[p] > 0
      BY <2>1, <2>4, <3>1, <3>3
    <3>6. QED
      BY <3>1, <3>2, <3>4, <3>5
  <2>7. QED
    BY <1>2, <1>3, <2>2, <2>5, <2>6
<1>8. ASSUME \/ Edit(v) \/ Value(v) \/ Gate(v) \/ Mark(v) \/ Number(v) \/ Issue(v)
             \/ Cancel(v) \/ CommitReceipt(v) \/ Fail(v)
             \/ \E o \in Orders : Begin(v, o)
      PROVE  FALSE
  BY <1>8, Outcomes DEF Free, InReceipt
<1>9. CASE ReadLines(v)
  BY <1>9 DEF ReadLines, Go, RowsInv, InReceipt
<1>10. QED
  BY <1>1, <1>4, <1>5, <1>6, <1>7, <1>8, <1>9, OwnStep DEF WorkerStep

LEMMA ArrivesStep ==
  RowsInv /\ RowsInv' /\ ShelfInv /\ ArrivesInv /\ [Next]_pvars => ArrivesInv'
<1> SUFFICES ASSUME RowsInv, RowsInv', ShelfInv, ArrivesInv, [Next]_pvars
             PROVE  ArrivesInv'
  OBVIOUS
<1>1. ASSUME NEW o \in Orders, ~Exists(o)' PROVE drafts'[o] = <<>>
  BY <1>1, ExistsStays DEF ArrivesInv
<1>2. ASSUME NEW v \in Workers, worker'[v].pc = "edit"
      PROVE  worker'[v].list \in Lists[worker'[v].order]
  <2>1. CASE worker'[v] = worker[v]
    BY <1>2, <2>1 DEF ArrivesInv
  <2>2. ASSUME NEW o \in Orders, NEW l \in Lists[o],
               worker'[v] = [pc |-> "edit", order |-> o, list |-> l]
        PROVE  worker'[v].list \in Lists[worker'[v].order]
    BY <2>2
  <2>3. QED
    BY <1>2, <2>1, <2>2, EditsBegin
<1>3. QED
  BY <1>1, <1>2, AliveStep DEF ArrivesInv, ShelfInv

-----------------------------------------------------------------------------
\* The dock adds as the handlers do.
LEMMA DockAdds == \A f : Dock!SumFunction(f) = SumFunction(f)
<1> SUFFICES ASSUME NEW f PROVE Dock!SumFunction(f) = SumFunction(f)
  OBVIOUS
<1>1. Dock!SumFunction(f) = TotalsOf(f, DOMAIN f)[DOMAIN f]
  BY DEF Dock!SumFunction, Dock!SumFunctionOnSet, Dock!FoldFunctionOnSet,
     Dock!MapThenFoldSet, TotalsOf, Totals, Some
<1>2. SumFunction(f) = TotalsOf(f, DOMAIN f)[DOMAIN f]
  BY SumIsTotal DEF SumFunction
<1>3. QED
  BY <1>1, <1>2

\* What a receipt brings in, line by line.
Batch(r) == [k \in LineNo |-> Brought(r.delivery, k)]

\* The versions of an order's lines are short enough.
LEMMA VersionLines ==
  ASSUME RowsInv, LinesInv, NEW o \in Orders, NEW d \in 1 .. Len(drafts[o])
  PROVE  /\ DOMAIN drafts[o][d].lines \subseteq LineNo
         /\ IsFiniteSet(DOMAIN drafts[o][d].lines)
<1>1. drafts[o] \in Seq(List) /\ Modest(drafts[o][d])
  BY DEF RowsInv, LinesInv
<1>2. drafts[o][d] \in List
  BY <1>1
<1>3. PICK q, S : q = drafts[o][d].lines /\ S =
        [product : Products \cup {NoProduct}, quantity : Nat \ {0}]
  OBVIOUS
<1>4. q \in Seq(S) /\ Len(q) <= MaxLines
  BY <1>1, <1>2, <1>3 DEF List, Modest
<1>5. DOMAIN q = 1 .. Len(q) /\ Len(q) \in Nat
  BY <1>4
<1>6. 1 .. Len(q) \subseteq LineNo /\ IsFiniteSet(1 .. Len(q))
  <2>1. 1 .. Len(q) \subseteq LineNo
    BY <1>4, <1>5, PurchasingBounds DEF LineNo
  <2>2. IsFiniteSet(1 .. Len(q))
    BY <1>5, FS_Interval
  <2>3. QED
    BY <2>1, <2>2
<1>7. QED
  BY <1>3, <1>5, <1>6

\* A request brings in nothing against a line it does not name.
LEMMA BroughtNamed ==
  ASSUME NEW delivery \in Deliveries, NEW k, Brought(delivery, k) > 0
  PROVE  \E j \in DOMAIN delivery : delivery[j].line = k
<1> SUFFICES ASSUME \A j \in DOMAIN delivery : delivery[j].line # k PROVE FALSE
  OBVIOUS
<1>1. PICK f, D : /\ D = DOMAIN delivery
                  /\ f = [j \in D |-> IF delivery[j].line = k
                                      THEN delivery[j].quantity ELSE 0]
  OBVIOUS
<1>2. (\A j \in D : f[j] = 0) /\ IsFiniteSet(D)
  BY <1>1, DeliveryLine
<1>3. SumFunctionOnSet(f, D) = 0
  BY <1>2, SumZero
<1>4. Brought(delivery, k) = SumFunctionOnSet(f, D)
  BY <1>1 DEF Brought, SumFunction
<1>5. QED
  BY <1>3, <1>4

\* What a receipt has moved when it commits is what its lines come to.
LEMMA MovedAmount ==
  ASSUME RowsInv, StockInv, LinesInv, MovedInv, NEW w \in Workers,
         CommitReceipt(w), NEW p \in Products
  PROVE  LET r == worker[w].own IN
         r.moved[p] = Dock!Amount(drafts[r.order][r.draft].lines, Batch(r), p)
<1>1. PICK r, n : r = worker[w].own /\ n = Len(r.delivery) + 1
  OBVIOUS
<1>2. /\ r \in Receipt /\ r.order \in Orders /\ r.draft \in DraftId
      /\ r.delivery \in Deliveries /\ worker[w].pc = "commit"
  BY <1>1, CommitTyped
<1>3. n \in Nat /\ n > Len(r.delivery)
  BY <1>1, <1>2, DeliveryLine
<1>4. Placed(r) /\ r.moved[p] = SumFunction(BringsIn(r, n, p))
  BY <1>1, <1>2 DEF MovedInv, InReceipt, Posted
<1>5. PICK lines, D : lines = drafts[r.order][r.draft].lines /\ D = DOMAIN lines
  OBVIOUS
<1>6. /\ r.draft \in 1 .. Len(drafts[r.order])
      /\ D \subseteq LineNo /\ IsFiniteSet(D)
  <2>1. 1 \in DOMAIN r.delivery
    BY <1>2, DeliveryLine
  <2>2. r.draft \in 1 .. Len(drafts[r.order])
    BY <1>2, <1>4, <2>1, LineTyped
  <2>3. QED
    BY <1>2, <1>5, <2>2, VersionLines
<1>7. PICK f, g, h :
        /\ f = [k \in D |-> IF lines[k].product = p THEN Batch(r)[k] ELSE 0]
        /\ g = BringsIn(r, n, p)
        /\ h = [k \in D |-> <<r.order, r.draft, k>>]
  OBVIOUS
<1>8. (\A x \in Places : g[x] \in Int) /\ SumFunction(g) = SumFunctionOnSet(g, Places)
  <2>1. /\ \A x \in Places : g[x] \in Nat
        /\ SumFunction(g) = SumFunctionOnSet(g, Places)
    BY <1>2, <1>3, <1>7, BringsTyped
  <2>2. QED
    BY <2>1
<1>9. \A k \in D : h[k] \in Places
  BY <1>2, <1>6, <1>7 DEF Places
<1>10. \A k \in D : \A l \in D : h[k] = h[l] => k = l
  <2>1. \A a, b, c, d : <<a, b, c>> = <<a, b, d>> => c = d
    OBVIOUS
  <2>2. QED
    BY <1>7, <2>1
<1>11. ASSUME NEW k \in D PROVE f[k] = g[h[k]]
  <2>1. h[k] = <<r.order, r.draft, k>> /\ h[k] \in Places
    BY <1>7, <1>9
  <2>2. h[k][1] = r.order /\ h[k][2] = r.draft /\ h[k][3] = k
    BY <2>1
  <2>3. IsOf(h[k], p) <=> lines[k].product = p
    BY <1>4, <1>5, <2>2 DEF IsOf, Placed
  <2>4. BroughtBefore(r.delivery, n, k) = Brought(r.delivery, k)
    BY <1>2, <1>3, BroughtAll
  <2>5. g[h[k]] = IF lines[k].product = p THEN Brought(r.delivery, k) ELSE 0
    BY <1>7, <2>1, <2>2, <2>3, <2>4 DEF BringsIn
  <2>6. k \in LineNo
    BY <1>6
  <2>7. QED
    BY <1>7, <2>5, <2>6 DEF Batch
<1>12. ASSUME NEW x \in Places, g[x] # 0 PROVE \E k \in D : h[k] = x
  <2>1. x = <<x[1], x[2], x[3]>>
    BY DEF Places
  <2>2. x[1] = r.order /\ x[2] = r.draft /\ x[3] \in D
    BY <1>5, <1>7, <1>12 DEF BringsIn, IsOf
  <2>3. QED
    BY <1>7, <2>1, <2>2
<1>13. SumFunctionOnSet(f, D) = SumFunctionOnSet(g, Places)
  BY <1>6, <1>8, <1>9, <1>10, <1>11, <1>12, PlacesFinite, SumAlong
<1>14. Dock!Amount(lines, Batch(r), p) = SumFunctionOnSet(f, D)
  BY <1>5, <1>7, DockAdds DEF Dock!Amount, SumFunction
<1>15. QED
  BY <1>1, <1>4, <1>5, <1>7, <1>8, <1>13, <1>14

\* A commit is a delivery that comes in all at once.
LEMMA CommitReceives ==
  ASSUME RowsInv, ReceiptsInv, StockInv, LinesInv, MovedInv, ArrivesInv,
         NEW w \in Workers, CommitReceipt(w)
  PROVE  LET r == worker[w].own IN
         /\ Dock!Receive(r.order, r.draft, Batch(r))
         /\ r.order \in Orders /\ r.draft \in DraftId /\ r.delivery \in Deliveries
<1>1. PICK r, lines, o, d : /\ r = worker[w].own /\ o = r.order /\ d = r.draft
                            /\ lines = drafts[o][d].lines
  OBVIOUS
<1>2. /\ r \in Receipt /\ o \in Orders /\ d \in DraftId
      /\ r.delivery \in Deliveries /\ worker[w].pc = "commit"
  BY <1>1, CommitTyped
<1>3. InReceipt(w) /\ Placed(r) /\ Alive(worker[w])
      /\ Posted(worker[w]) = Len(r.delivery) + 1
  BY <1>1, <1>2 DEF InReceipt, MovedInv, ArrivesInv, Posted
<1>4. o \in Numbered
  BY <1>1, <1>2 DEF ReceiptsInv, Ordered, Subject
<1>5. d \in DOMAIN drafts[o]
  <2>1. 1 \in DOMAIN r.delivery
    BY <1>2, DeliveryLine
  <2>2. d \in 1 .. Len(drafts[o])
    BY <1>1, <1>2, <1>3, <2>1, LineTyped
  <2>3. drafts[o] \in Seq(List)
    BY <1>2 DEF RowsInv
  <2>4. QED
    BY <2>2, <2>3
<1>6. ASSUME NEW k \in LineNo, Batch(r)[k] > 0
      PROVE  /\ k \in DOMAIN lines
             /\ lines[k].product \in
                  {p \in Products : product[p] = "live"} \cup {NoProduct}
  <2>1. PICK j \in DOMAIN r.delivery : r.delivery[j].line = k
    BY <1>2, <1>6, BroughtNamed DEF Batch
  <2>2. LineOf(r, j) = lines[k] /\ k \in DOMAIN lines
    BY <1>1, <1>3, <2>1 DEF LineOf, Placed
  <2>3. lines[k].product \in Products \cup {NoProduct}
    BY <1>2, <1>3, <2>2, LineTyped
  <2>4. j < Posted(worker[w])
    BY <1>2, <1>3, DeliveryLine
  <2>5. lines[k].product # NoProduct => product[lines[k].product] = "live"
    BY <1>1, <1>3, <2>2, <2>4 DEF Alive
  <2>6. QED
    BY <2>2, <2>3, <2>5
<1>7. got' = [got EXCEPT ![o][d] = [k \in LineNo |-> @[k] + Batch(r)[k]]]
  BY <1>1 DEF CommitReceipt, Batch
<1>8. shelf' = [p \in Products |-> shelf[p] + Dock!Amount(lines, Batch(r), p)]
  BY <1>1, MovedAmount DEF CommitReceipt
<1>9. Numbered' = Numbered
  <2>1. order' = order \/ \E q, v : order' = [order EXCEPT ![q].status = v]
    BY DEF CommitReceipt
  <2>2. \A q \in Orders : order'[q].number = order[q].number
    BY <2>1 DEF RowsInv
  <2>3. QED
    BY <2>2 DEF Numbered
<1>10. drafts' = drafts /\ product' = product
  BY DEF CommitReceipt
<1>11. QED
  BY <1>1, <1>2, <1>4, <1>5, <1>6, <1>7, <1>8, <1>9, <1>10 DEF Dock!Receive

\* Every step of purchasing is a step at the dock, or none.
LEMMA DockStep ==
  RowsInv /\ ReceiptsInv /\ ShelfInv /\ ArrivesInv /\ [Next]_pvars
  => [Dock!RcNext]_(Dock!rcvars)
<1> SUFFICES ASSUME RowsInv, ReceiptsInv, ShelfInv, ArrivesInv, [Next]_pvars
             PROVE  Dock!RcNext \/ UNCHANGED Dock!rcvars
  OBVIOUS
<1>1. StockInv /\ LinesInv /\ MovedInv
  BY DEF ShelfInv
<1>2. ASSUME NEW w \in Workers, CommitReceipt(w) PROVE Dock!RcNext
  BY <1>1, <1>2, CommitReceives DEF Dock!RcNext, Batch
<1>3. ASSUME NEW p \in Products, DeleteProduct(p) PROVE Dock!RcNext
  <2>1. UNCHANGED <<drafts, Numbered, got, shelf>>
    BY <1>3 DEF DeleteProduct, Numbered
  <2>2. {q \in Products : product'[q] = "live"}
          = {q \in Products : product[q] = "live"} \ {p}
    BY <1>1, <1>3 DEF DeleteProduct, StockInv
  <2>3. Dock!Discontinue(p)
    BY <2>1, <2>2 DEF Dock!Discontinue
  <2>4. QED
    BY <2>3 DEF Dock!RcNext
<1>4. ASSUME UNCHANGED goods, Numbered' = Numbered, NEW o \in Orders,
             NEW l \in Lists[o], drafts' = [drafts EXCEPT ![o] = Append(@, l)]
      PROVE  Dock!RcNext
  BY <1>4 DEF Dock!RcNext, Dock!Write, goods
<1>5. ASSUME NEW q, NEW v, order' = [order EXCEPT ![q].status = v]
      PROVE  Numbered' = Numbered
  <2>1. \A o \in Orders : order'[o].number = order[o].number
    BY <1>5 DEF RowsInv
  <2>2. QED
    BY <2>1 DEF Numbered
<1>6. ASSUME NEW w \in Workers, Edit(w) PROVE Dock!RcNext
  <2>1. worker[w].pc = "edit" /\ worker[w].order \in Orders
        /\ worker[w].list \in Lists[worker[w].order]
    BY <1>6, Locals DEF Edit, ArrivesInv
  <2>2. UNCHANGED goods /\ Numbered' = Numbered
        /\ drafts' = [drafts EXCEPT ![worker[w].order] = Append(@, worker[w].list)]
    BY <1>5, <1>6 DEF Edit
  <2>3. QED
    BY <1>4, <2>1, <2>2
<1>7. ASSUME NEW o \in Orders, NEW l \in Lists[o], Create(o, l) PROVE Dock!RcNext
  <2>1. drafts[o] = <<>>
    BY <1>7 DEF Create, ArrivesInv
  <2>2. drafts' = [drafts EXCEPT ![o] = Append(@, l)]
    <3>1. Append(<<>>, l) = <<l>>
      OBVIOUS
    <3>2. QED
      BY <1>7, <2>1, <3>1 DEF Create, RowsInv
  <2>3. UNCHANGED goods /\ Numbered' = Numbered
    BY <1>5, <1>7 DEF Create
  <2>4. QED
    BY <1>4, <2>2, <2>3
<1>8. ASSUME NEW w \in Workers, Issue(w) PROVE Dock!RcNext
  <2>1. PICK o, n : o = worker[w].order /\ n = worker[w].number
    OBVIOUS
  <2>2. o \in Orders /\ worker[w].pc = "issue" /\ n # 0 /\ Exists(o)
    <3>1. worker[w].pc = "issue" /\ o \in Orders
      BY <1>8, <2>1, Locals DEF Issue
    <3>2. n # 0
      BY <2>1, <3>1 DEF ReceiptsInv, Ordered
    <3>3. Exists(o)
      BY <2>1, <3>1, AtWork DEF InReceipt
    <3>4. QED
      BY <3>1, <3>2, <3>3
  <2>3. drafts[o] # <<>> /\ UNCHANGED <<drafts, goods>>
    BY <1>8, <2>2 DEF RowsInv, Issue
  <2>4. Numbered' = Numbered \cup {o}
    <3>1. \A q \in Orders : order'[q].number = IF q = o THEN n ELSE order[q].number
      BY <1>8, <2>1, <2>2 DEF Issue, RowsInv
    <3>2. QED
      BY <2>2, <3>1 DEF Numbered
  <2>5. Dock!IssueTo(o)
    BY <2>3, <2>4 DEF Dock!IssueTo, goods
  <2>6. QED
    BY <2>2, <2>5 DEF Dock!RcNext
<1>9. CASE UNCHANGED <<drafts, goods>> /\ Numbered' = Numbered
  BY <1>9 DEF Dock!rcvars, goods
<1>10. ASSUME NEW w \in Workers, Mark(w) \/ Cancel(w)
       PROVE  UNCHANGED <<drafts, goods>> /\ Numbered' = Numbered
  BY <1>5, <1>10 DEF Mark, Cancel
<1>11. QED
  <2>1. order' = order => Numbered' = Numbered
    BY DEF Numbered
  <2>2. ASSUME \A w \in Workers : ~Writes(w),
               \A o \in Orders : \A l \in Lists[o] : ~Create(o, l),
               \A p \in Products : ~DeleteProduct(p)
        PROVE  UNCHANGED <<drafts, goods>> /\ Numbered' = Numbered
    BY <2>1, <2>2, RowWriters, DraftWriters, GoodsWriters DEF Writes
  <2>3. QED
    BY <1>2, <1>3, <1>6, <1>7, <1>8, <1>9, <1>10, <2>2 DEF Writes

\* Receipts that post their lines one by one, hold row locks, fail half way and
\* overlap with edits, issues and deletions amount to deliveries that come in whole
\* or not at all, for issued orders only, for any number of them
\* (AdminReceiveGoods, apportionAndPost).
THEOREM DockIsKept == Spec => KeepsDock
<1>1. Init => Dock!RcInit
  BY DEF Init, Dock!RcInit, Numbered
<1>2. Init => ArrivesInv
  BY DEF Init, ArrivesInv, Free, InReceipt
<1>3. PurchasingInv /\ PurchasingInv' /\ ShelfInv /\ ArrivesInv /\ [Next]_pvars
        => ArrivesInv'
  BY ArrivesStep DEF PurchasingInv
<1>4. PurchasingInv /\ ShelfInv /\ ArrivesInv /\ [Next]_pvars
        => [Dock!RcNext]_(Dock!rcvars)
  BY DockStep DEF PurchasingInv
<1>5. QED
  BY <1>1, <1>2, <1>3, <1>4, ShelfInvariant, PTL DEF Spec, KeepsDock, Dock!RcSpec
=============================================================================
