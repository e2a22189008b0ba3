---------------------------- MODULE CounterProofs ----------------------------
(***************************************************************************)
(* No product is ever oversold, no deleted one sold, and no sale recorded  *)
(* but whole, however many products, tills, carts and handlers there are.  *)
(***************************************************************************)
EXTENDS Counter, Sums, TLAPS

\* What a handler at each program counter keeps in its locals.
LEMMA Locals ==
  ASSUME TypeOK, NEW w \in Workers
  PROVE  /\ worker[w].pc = "sell" =>
              worker[w] \in [pc : {"sell"}, sale : SaleId, till : TillId,
                             lines : Carts, next : Nat \ {0},
                             taken : [Products -> Nat]]
         /\ worker[w].pc = "post" =>
              worker[w] \in [pc : {"post"}, product : Products, units : Int]
         /\ worker[w].pc \in {"save", "count"} =>
              worker[w] \in [pc : {"save", "count"}, product : Products,
                             figure : Figures]
         /\ worker[w].pc = "backfill" =>
              worker[w] \in [pc : {"backfill"}, todo : SUBSET Products]
         /\ worker[w].pc = "open" =>
              worker[w] \in [pc : {"open"}, by : Operators]
         /\ worker[w].pc = "close" =>
              worker[w] \in [pc : {"close"}, till : TillId]
<1>1. worker[w] \in Worker \cup {Free}
  BY DEF TypeOK
<1>2. QED
  BY <1>1 DEF Worker, Free

\* A cart's line names a product, or none, and a positive number of units.
LEMMA Lines ==
  ASSUME NEW cart \in Carts, NEW n \in Nat \ {0}, n <= Len(cart)
  PROVE  cart[n] \in [product : Products \cup {OneOff}, units : Nat \ {0}]
<1>0. \A S : \A q \in Seq(S) : \A i \in 1 .. Len(q) : q[i] \in S
  OBVIOUS
<1>1. cart \in Seq([product : Products \cup {OneOff}, units : Nat \ {0}])
  BY CounterBounds
<1>2. n \in 1 .. Len(cart)
  BY <1>1
<1>3. QED
  BY <1>0, <1>1, <1>2

\* Figures and quantities are numbers.
LEMMA Numbers ==
  /\ \A figure \in Figures : figure \in Nat /\ figure \in Int
  /\ \A units \in Quantities : units \in Int
BY CounterBounds

\* Which locals a worker has at each of its statements.
LEMMA WorkersTyped ==
  ASSUME TypeOK, NEW w \in Workers, NEW x \in Worker \cup {Free}, Go(w, x)
  PROVE  worker' \in [Workers -> Worker \cup {Free}]
BY DEF TypeOK, Go

\* A sale's line keeps the locals of its transaction well typed.
LEMMA SellLocals ==
  ASSUME TypeOK, NEW w \in Workers, worker[w].pc = "sell",
         worker[w].next <= Len(worker[w].lines)
  PROVE  LET t == worker[w]
             l == t.lines[t.next]
         IN  /\ l \in [product : Products \cup {OneOff}, units : Nat \ {0}]
             /\ [t EXCEPT !.next = @ + 1] \in Worker
             /\ l.product # OneOff =>
                  /\ l.product \in Products
                  /\ [t EXCEPT !.next = @ + 1, !.taken[l.product] = @ + l.units]
                       \in Worker
<1> DEFINE t == worker[w]
           l == t.lines[t.next]
           Sell == [pc : {"sell"}, sale : SaleId, till : TillId, lines : Carts,
                    next : Nat \ {0}, taken : [Products -> Nat]]
<1>1. t \in Sell
  BY Locals
<1>2. l \in [product : Products \cup {OneOff}, units : Nat \ {0}]
  BY <1>1, Lines
<1>3. [t EXCEPT !.next = @ + 1] \in Sell
  BY <1>1
<1>4. ASSUME l.product # OneOff
      PROVE  /\ l.product \in Products
             /\ [t EXCEPT !.next = @ + 1, !.taken[l.product] = @ + l.units]
                  \in Sell
  <2>1. l.product \in Products /\ l.units \in Nat
    BY <1>2, <1>4
  <2>2. [t.taken EXCEPT ![l.product] = @ + l.units] \in [Products -> Nat]
    BY <1>1, <2>1
  <2> DEFINE taken == [t.taken EXCEPT ![l.product] = @ + l.units]
  <2>3. \A r \in Sell, f \in [Products -> Nat] : [r EXCEPT !.taken = f] \in Sell
    OBVIOUS
  <2>4. [t EXCEPT !.next = @ + 1, !.taken[l.product] = @ + l.units]
          = [[t EXCEPT !.next = @ + 1] EXCEPT !.taken = taken]
    BY <1>1
  <2>5. QED
    BY <1>3, <2>1, <2>2, <2>3, <2>4
<1>5. QED
  BY <1>2, <1>3, <1>4 DEF Worker

\* Every step keeps the types; closing a till keeps its row.
LEMMA NextTypeOK == TypeOK /\ ClosingInv /\ [Next]_cvars => TypeOK'
<1> SUFFICES ASSUME TypeOK, ClosingInv, [Next]_cvars PROVE TypeOK'
  OBVIOUS
<1>1. ASSUME NEW w \in Workers, NEW p \in Products, NEW units \in Quantities,
             BeginMovement(w, p, units)
      PROVE  TypeOK'
  <2>1. [pc |-> "post", product |-> p, units |-> units] \in Worker
    BY Numbers DEF Worker
  <2>2. QED
    BY <1>1, <2>1, WorkersTyped DEF BeginMovement, TypeOK, stock
<1>2. ASSUME NEW w \in Workers, NEW p \in Products, NEW figure \in Figures,
             CreateProduct(w, p, figure)
      PROVE  TypeOK'
  <2>1. [pc |-> "post", product |-> p, units |-> figure] \in Worker
    BY Numbers DEF Worker
  <2>2. worker' \in [Workers -> Worker \cup {Free}]
    BY <1>2, <2>1, WorkersTyped DEF CreateProduct, TypeOK
  <2>3. QED
    BY <1>2, <2>2 DEF CreateProduct, TypeOK, stock
<1>3. ASSUME NEW w \in Workers, NEW p \in Products, NEW figure \in Figures,
             BeginEdit(w, p, figure)
      PROVE  TypeOK'
  <2>1. [pc |-> "save", product |-> p, figure |-> figure] \in Worker
    BY DEF Worker
  <2>2. QED
    BY <1>3, <2>1, WorkersTyped DEF BeginEdit, TypeOK, stock
<1>4. ASSUME NEW w \in Workers, NEW s \in SaleId, NEW t \in TillId,
             NEW cart \in Carts, BeginSale(w, s, t, cart)
      PROVE  TypeOK'
  <2>1. [pc |-> "sell", sale |-> s, till |-> t, lines |-> cart, next |-> 1,
         taken |-> Nothing] \in Worker
    BY DEF Worker, Nothing
  <2>2. QED
    BY <1>4, <2>1, WorkersTyped DEF BeginSale, TypeOK, stock
<1>5. ASSUME NEW w \in Workers,
             \/ \E u \in Operators : BeginOpenTill(w, u)
             \/ \E t \in TillId : BeginCloseTill(w, t)
             \/ BeginBackfill(w)
             \/ EndBackfill(w)
             \/ Abort(w)
      PROVE  TypeOK'
  <2>1. \E x \in Worker \cup {Free} : Go(w, x)
    BY <1>5 DEF BeginOpenTill, BeginCloseTill, BeginBackfill, EndBackfill,
                Abort, Worker
  <2>2. worker' \in [Workers -> Worker \cup {Free}]
    BY <2>1, WorkersTyped
  <2>3. QED
    BY <1>5, <2>2 DEF BeginOpenTill, BeginCloseTill, BeginBackfill,
                      EndBackfill, Abort, TypeOK, stock
<1>6. ASSUME NEW w \in Workers, PostMovement(w) PROVE TypeOK'
  <2>1. worker[w].product \in Products /\ worker[w].units \in Int
    BY <1>6, Locals DEF PostMovement
  <2>2. worker' \in [Workers -> Worker \cup {Free}]
    BY <1>6, WorkersTyped DEF PostMovement
  <2>3. held' \in [Products -> Int]
    <3>1. \A p \in Products : held[p] + worker[w].units \in Int
      BY <2>1 DEF TypeOK
    <3>2. QED
      BY <1>6, <2>1, <3>1 DEF PostMovement, TypeOK
  <2>4. entered' \in [Products -> BOOLEAN]
    BY <1>6, <2>1 DEF PostMovement, TypeOK
  <2>5. QED
    BY <1>6, <2>2, <2>3, <2>4 DEF PostMovement, TypeOK
<1>7. ASSUME NEW w \in Workers, SellLine(w) PROVE TypeOK'
  <2>1. \E x \in Worker \cup {Free} : Go(w, x)
    BY <1>7, SellLocals DEF SellLine
  <2>2. worker' \in [Workers -> Worker \cup {Free}]
    BY <2>1, WorkersTyped
  <2>3. QED
    BY <1>7, <2>2 DEF SellLine, TypeOK, stock
<1>8. ASSUME NEW w \in Workers, CommitSale(w) PROVE TypeOK'
  <2>1. /\ worker[w].sale \in SaleId /\ worker[w].till \in TillId
        /\ worker[w].lines \in Carts
        /\ worker[w].taken \in [Products -> Nat]
    BY <1>8, Locals DEF CommitSale
  <2>2. worker' \in [Workers -> Worker \cup {Free}]
    BY <1>8, WorkersTyped DEF CommitSale
  <2>3. sale' \in [SaleId -> [till : TillId, lines : Carts] \cup {NoSale}]
    BY <1>8, <2>1 DEF CommitSale, TypeOK
  <2>4. sold' \in [SaleId -> [Products -> Nat]]
    <3>1. [p \in Products |-> sold[worker[w].sale][p] + worker[w].taken[p]]
            \in [Products -> Nat]
      BY <2>1 DEF TypeOK
    <3>2. QED
      BY <1>8, <3>1 DEF CommitSale, TypeOK
  <2>5. held' \in [Products -> Int] /\ entered' \in [Products -> BOOLEAN]
    BY <1>8, <2>1 DEF CommitSale, TypeOK
  <2>6. QED
    BY <1>8, <2>2, <2>3, <2>4, <2>5 DEF CommitSale, TypeOK
<1>9. ASSUME NEW w \in Workers, SaveProduct(w) PROVE TypeOK'
  <2>1. worker[w] \in [pc : {"save", "count"}, product : Products,
                       figure : Figures]
    BY <1>9, Locals DEF SaveProduct
  <2>2. [worker[w] EXCEPT !.pc = "count"] \in Worker
    BY <2>1 DEF Worker
  <2>3. QED
    BY <1>9, <2>1, <2>2, WorkersTyped DEF SaveProduct, TypeOK, stock
<1>10. ASSUME NEW w \in Workers, CountStock(w) PROVE TypeOK'
  <2>1. /\ worker[w].product \in Products
        /\ worker[w].figure - held[worker[w].product] \in Int
    BY <1>10, Locals, Numbers DEF CountStock, TypeOK
  <2>2. [pc |-> "post", product |-> worker[w].product,
         units |-> worker[w].figure - held[worker[w].product]] \in Worker
    BY <2>1 DEF Worker
  <2>3. QED
    BY <1>10, <2>2, WorkersTyped DEF CountStock, TypeOK, stock
<1>11. ASSUME NEW w \in Workers, StoreTill(w) PROVE TypeOK'
  BY <1>11, Locals, WorkersTyped DEF StoreTill, TypeOK, stock
<1>12. ASSUME NEW w \in Workers, CloseTill(w) PROVE TypeOK'
  <2>1. worker[w].till \in TillId
    BY <1>12, Locals DEF CloseTill
  <2>2. [till EXCEPT ![worker[w].till].status = "closed"]
          \in [TillId -> [status : {"open", "closed"}, by : SUBSET Operators]
                         \cup {NoTill}]
    BY <1>12, <2>1 DEF TypeOK, ClosingInv, CloseTill
  <2>3. QED
    BY <1>12, <2>2, WorkersTyped DEF CloseTill, TypeOK, stock
<1>13. ASSUME NEW w \in Workers, NEW p \in Products, Backfill(w, p)
       PROVE  TypeOK'
  <2>1. worker[w] \in [pc : {"backfill"}, todo : SUBSET Products]
    BY <1>13, Locals DEF Backfill
  <2>2. [worker[w] EXCEPT !.todo = @ \ {p}] \in Worker
    BY <2>1 DEF Worker
  <2>3. QED
    BY <1>13, <2>2, WorkersTyped DEF Backfill, TypeOK
<1>14. ASSUME NEW p \in Products, DeleteProduct(p) PROVE TypeOK'
  BY <1>14 DEF DeleteProduct, TypeOK, stock
<1>15. CASE UNCHANGED cvars
  BY <1>15 DEF cvars, TypeOK
<1>16. QED
  BY <1>1, <1>2, <1>3, <1>4, <1>5, <1>6, <1>7, <1>8, <1>9, <1>10, <1>11,
     <1>12, <1>13, <1>14, <1>15 DEF Next, Begin, WorkerStep

-----------------------------------------------------------------------------
(* Row locks *)

\* What an open transaction has taken is a number, and only its own step
\* changes it.
LEMMA TakenIsNat ==
  ASSUME TypeOK, NEW w \in Workers, NEW p \in Products
  PROVE  Taken(w, p) \in Nat
BY Locals DEF Taken

\* A step that leaves no transaction open for w, draws on nothing and deletes
\* nothing keeps the locks.
LEMMA Harmless ==
  ASSUME TypeOK, LocksInv, NEW w \in Workers, NEW x, x.pc # "sell",
         worker' = [worker EXCEPT ![w] = x],
         held' \in [Products -> Int],
         \A p \in Products : /\ held'[p] >= held[p]
                             /\ product'[p] \in {product[p], "live"}
  PROVE  LocksInv'
<1> SUFFICES ASSUME NEW p \in Products
             PROVE  /\ held'[p] >= 0
                    /\ \A o \in Workers : Taken(o, p)' > 0 =>
                         /\ Taken(o, p)' <= held'[p]
                         /\ product'[p] = "live"
                         /\ \A v \in Workers : Taken(v, p)' > 0 => v = o
  BY DEF LocksInv
<1>1. \A o \in Workers : Taken(o, p)' = IF o = w THEN 0 ELSE Taken(o, p)
  BY DEF Taken, TypeOK
<1>2. \A o \in Workers : Taken(o, p) \in Nat
  BY TakenIsNat
<1>3. held[p] \in Int /\ held'[p] \in Int
  BY DEF TypeOK
<1>4. QED
  BY <1>1, <1>2, <1>3 DEF LocksInv

\* The same for a step that leaves the ledger alone.
LEMMA HarmlessStill ==
  ASSUME TypeOK, LocksInv, NEW w \in Workers, NEW x, x.pc # "sell",
         worker' = [worker EXCEPT ![w] = x], held' = held,
         \A p \in Products : product'[p] \in {product[p], "live"}
  PROVE  LocksInv'
<1>1. /\ held' \in [Products -> Int]
      /\ \A p \in Products : held[p] \in Int /\ held'[p] = held[p]
  BY DEF TypeOK
<1>2. \A p \in Products : held'[p] >= held[p]
  BY <1>1
<1>3. QED
  BY <1>1, <1>2, Harmless

\* Every step keeps what the row locks of RecordMovement are for.
LEMMA NextLocks == TypeOK /\ LocksInv /\ [Next]_cvars => LocksInv'
<1> SUFFICES ASSUME TypeOK, LocksInv, [Next]_cvars PROVE LocksInv'
  OBVIOUS
<1>t. /\ held \in [Products -> Int] /\ legacy \in [Products -> Nat]
      /\ \A w \in Workers, p \in Products : Taken(w, p) \in Nat
  BY TakenIsNat DEF TypeOK
<1>1. ASSUME NEW w \in Workers,
             \/ \E p \in Products, units \in Quantities : BeginMovement(w, p, units)
             \/ \E p \in Products, figure \in Figures : BeginEdit(w, p, figure)
             \/ \E u \in Operators : BeginOpenTill(w, u)
             \/ \E t \in TillId : BeginCloseTill(w, t)
             \/ BeginBackfill(w) \/ EndBackfill(w) \/ Abort(w)
             \/ SaveProduct(w) \/ CountStock(w)
             \/ StoreTill(w) \/ CloseTill(w)
      PROVE  LocksInv'
  <2>1. \E x : x.pc # "sell" /\ worker' = [worker EXCEPT ![w] = x]
    <3>1. CASE SaveProduct(w)
      <4>1. worker[w] \in [pc : {"save", "count"}, product : Products,
                           figure : Figures]
        BY <3>1, Locals DEF SaveProduct
      <4>2. [worker[w] EXCEPT !.pc = "count"].pc = "count"
        BY <4>1
      <4>3. QED
        BY <3>1, <4>2 DEF SaveProduct, Go
    <3>2. CASE ~SaveProduct(w)
      BY <1>1, <3>2 DEF BeginMovement, BeginEdit, BeginOpenTill, BeginCloseTill,
           BeginBackfill, EndBackfill, Abort, CountStock, StoreTill, CloseTill,
           Go, Free
    <3>3. QED
      BY <3>1, <3>2
  <2>2. held' = held
    BY <1>1 DEF BeginMovement, BeginEdit, BeginOpenTill, BeginCloseTill,
         BeginBackfill, EndBackfill, Abort, SaveProduct, CountStock, StoreTill,
         CloseTill, stock
  <2>3. \A p \in Products : product'[p] \in {product[p], "live"}
    BY <1>1, Locals DEF BeginMovement, BeginEdit, BeginOpenTill, BeginCloseTill,
         BeginBackfill, EndBackfill, Abort, SaveProduct, CountStock, StoreTill,
         CloseTill, TypeOK
  <2>4. QED
    BY <2>1, <2>2, <2>3, HarmlessStill
<1>2. ASSUME NEW w \in Workers, NEW p \in Products, NEW figure \in Figures,
             CreateProduct(w, p, figure)
      PROVE  LocksInv'
  <2>1. worker[w] = Free /\ held' = held
    BY <1>2 DEF CreateProduct, stock
  <2>2. \A q \in Products : product'[q] \in {product[q], "live"}
    BY <1>2 DEF CreateProduct, TypeOK
  <2>3. \E x : x.pc # "sell" /\ worker' = [worker EXCEPT ![w] = x]
    <3>1. CASE figure > 0
      BY <1>2, <3>1 DEF CreateProduct, Go
    <3>2. CASE ~(figure > 0)
      <4>1. worker' = [worker EXCEPT ![w] = Free]
        BY <1>2, <2>1, <3>2 DEF CreateProduct, TypeOK
      <4>2. QED
        BY <4>1 DEF Free
    <3>3. QED
      BY <3>1, <3>2
  <2>4. QED
    BY <2>1, <2>2, <2>3, HarmlessStill
<1>3. ASSUME NEW w \in Workers, NEW p \in Products, Backfill(w, p)
      PROVE  LocksInv'
  <2>1. worker[w] \in [pc : {"backfill"}, todo : SUBSET Products]
    BY <1>3, Locals DEF Backfill
  <2>2. [worker[w] EXCEPT !.todo = @ \ {p}].pc = "backfill"
    BY <2>1
  <2>3. \E x : x.pc # "sell" /\ worker' = [worker EXCEPT ![w] = x]
    BY <1>3, <2>2 DEF Backfill, Go
  <2>4. held' \in [Products -> Int] /\ \A q \in Products : held'[q] >= held[q]
    BY <1>t, <1>3 DEF Backfill
  <2>5. product' = product
    BY <1>3 DEF Backfill
  <2>6. QED
    BY <2>3, <2>4, <2>5, Harmless
<1>4. ASSUME NEW w \in Workers, PostMovement(w) PROVE LocksInv'
  <2> DEFINE q == worker[w].product
             n == worker[w].units
  <2>1. q \in Products /\ n \in Int
    BY <1>4, Locals DEF PostMovement
  <2>2. \E x : x.pc # "sell" /\ worker' = [worker EXCEPT ![w] = x]
    BY <1>4 DEF PostMovement, Go, Free
  <2>3. CASE Accepts(w, q, n)
    <3>1. Taken(w, q) = 0 /\ \A o \in Workers : Taken(o, q) = 0
      BY <1>t, <1>4, <2>1 DEF PostMovement, Waits, Taken
    <3>2. /\ held' = [held EXCEPT ![q] = @ + n]
          /\ product' = product
          /\ worker' = [worker EXCEPT ![w] = Free]
      BY <1>4, <2>3 DEF PostMovement, Go
    <3>3. held[q] + n >= 0
      BY <1>t, <2>1, <2>3, <3>1 DEF Accepts
    <3>4. \A p \in Products, o \in Workers :
            Taken(o, p)' = IF o = w THEN 0 ELSE Taken(o, p)
      BY <3>2 DEF Taken, TypeOK, Free
    <3>5. ASSUME NEW p \in Products
          PROVE  /\ held'[p] >= 0
                 /\ \A o \in Workers : Taken(o, p)' > 0 =>
                      /\ Taken(o, p)' <= held'[p]
                      /\ product'[p] = "live"
                      /\ \A v \in Workers : Taken(v, p)' > 0 => v = o
      <4>1. CASE p = q
        BY <1>t, <2>1, <3>1, <3>2, <3>3, <3>4, <4>1
      <4>2. CASE p # q
        BY <1>t, <2>1, <3>2, <3>4, <4>2 DEF LocksInv
      <4>3. QED
        BY <4>1, <4>2
    <3>6. QED
      BY <3>5 DEF LocksInv
  <2>4. CASE ~Accepts(w, q, n)
    <3>1. held' = held /\ product' = product
      BY <1>4, <2>4 DEF PostMovement
    <3>2. QED
      BY <2>2, <3>1, HarmlessStill
  <2>5. QED
    BY <2>3, <2>4
<1>5. ASSUME NEW w \in Workers, NEW s \in SaleId, NEW t \in TillId,
             NEW cart \in Carts, BeginSale(w, s, t, cart)
      PROVE  LocksInv'
  <2>1. held' = held /\ product' = product
    BY <1>5 DEF BeginSale, stock
  <2>2. \A p \in Products, o \in Workers :
          Taken(o, p)' = IF o = w THEN 0 ELSE Taken(o, p)
    BY <1>5 DEF BeginSale, Go, Taken, TypeOK, Nothing
  <2>3. QED
    BY <1>t, <2>1, <2>2 DEF LocksInv
<1>6. ASSUME NEW w \in Workers, SellLine(w) PROVE LocksInv'
  <2> DEFINE t == worker[w]
             l == t.lines[t.next]
  <2>1. /\ t \in [pc : {"sell"}, sale : SaleId, till : TillId, lines : Carts,
                  next : Nat \ {0}, taken : [Products -> Nat]]
        /\ held' = held /\ product' = product
    BY <1>6, Locals DEF SellLine, stock
  <2>2. l \in [product : Products \cup {OneOff}, units : Nat \ {0}]
    BY <1>6, SellLocals DEF SellLine
  <2>3. CASE l.product = OneOff
    <3>1. worker' = [worker EXCEPT ![w] = [t EXCEPT !.next = @ + 1]]
      BY <1>6, <2>3 DEF SellLine, Go
    <3>2. /\ [t EXCEPT !.next = @ + 1].pc = t.pc
          /\ [t EXCEPT !.next = @ + 1].taken = t.taken
      BY <2>1
    <3>3. \A p \in Products, o \in Workers : Taken(o, p)' = Taken(o, p)
      BY <3>1, <3>2 DEF Taken, TypeOK
    <3>4. QED
      BY <2>1, <3>3 DEF LocksInv
  <2>4. CASE l.product # OneOff /\ ~Accepts(w, l.product, -l.units)
    <3>1. worker' = [worker EXCEPT ![w] = Free]
      BY <1>6, <2>4 DEF SellLine, Go
    <3>2. QED
      BY <2>1, <3>1, HarmlessStill DEF Free
  <2>5. CASE l.product # OneOff /\ Accepts(w, l.product, -l.units)
    <3> DEFINE q == l.product
               n == l.units
    <3>1. q \in Products /\ n \in Nat
      BY <2>2, <2>5
    <3>2. worker' = [worker EXCEPT ![w] = [t EXCEPT !.next = @ + 1,
                                                    !.taken[q] = @ + n]]
      BY <1>6, <2>5 DEF SellLine, Go
    <3>3. /\ [t EXCEPT !.next = @ + 1, !.taken[q] = @ + n].pc = "sell"
          /\ [t EXCEPT !.next = @ + 1, !.taken[q] = @ + n].taken
               = [t.taken EXCEPT ![q] = @ + n]
      BY <2>1
    <3>4. \A p \in Products, o \in Workers :
            Taken(o, p)' = IF o = w /\ p = q THEN Taken(o, p) + n
                           ELSE Taken(o, p)
      BY <2>1, <3>1, <3>2, <3>3 DEF Taken, TypeOK
    <3>5. \A o \in Workers \ {w} : Taken(o, q) = 0
      BY <1>t, <1>6, <2>5, <3>1 DEF SellLine, Waits
    <3>6. product[q] = "live" /\ Taken(w, q) + n <= held[q]
      BY <1>t, <2>5, <3>1 DEF Accepts
    <3>7. ASSUME NEW p \in Products
          PROVE  /\ held'[p] >= 0
                 /\ \A o \in Workers : Taken(o, p)' > 0 =>
                      /\ Taken(o, p)' <= held'[p]
                      /\ product'[p] = "live"
                      /\ \A v \in Workers : Taken(v, p)' > 0 => v = o
      <4>1. CASE p = q
        <5>1. \A o \in Workers : Taken(o, p)' > 0 => o = w
          BY <3>4, <3>5, <4>1
        <5>2. Taken(w, p)' = Taken(w, q) + n
          BY <3>4, <4>1
        <5>3. QED
          BY <2>1, <3>6, <4>1, <5>1, <5>2 DEF LocksInv
      <4>2. CASE p # q
        BY <2>1, <3>4, <4>2 DEF LocksInv
      <4>3. QED
        BY <4>1, <4>2
    <3>8. QED
      BY <3>7 DEF LocksInv
  <2>6. QED
    BY <2>3, <2>4, <2>5
<1>7. ASSUME NEW w \in Workers, CommitSale(w) PROVE LocksInv'
  <2>1. /\ product' = product
        /\ worker' = [worker EXCEPT ![w] = Free]
        /\ \A p \in Products : held'[p] = held[p] - Taken(w, p)
    BY <1>7 DEF CommitSale, Taken, Go
  <2>2. \A p \in Products, o \in Workers :
          Taken(o, p)' = IF o = w THEN 0 ELSE Taken(o, p)
    BY <2>1 DEF Taken, TypeOK, Free
  <2>3. ASSUME NEW p \in Products
        PROVE  /\ held'[p] >= 0
               /\ \A o \in Workers : Taken(o, p)' > 0 =>
                    /\ Taken(o, p)' <= held'[p]
                    /\ product'[p] = "live"
                    /\ \A v \in Workers : Taken(v, p)' > 0 => v = o
    <3>1. CASE Taken(w, p) = 0
      BY <1>t, <2>1, <2>2, <3>1 DEF LocksInv
    <3>2. CASE Taken(w, p) > 0
      BY <1>t, <2>1, <2>2, <3>2 DEF LocksInv
    <3>3. QED
      BY <1>t, <3>1, <3>2
  <2>4. QED
    BY <2>3 DEF LocksInv
<1>8. ASSUME NEW p \in Products, DeleteProduct(p) PROVE LocksInv'
  <2>1. /\ held' = held /\ worker' = worker
        /\ \A q \in Products : q # p => product'[q] = product[q]
    BY <1>8 DEF DeleteProduct, stock, TypeOK
  <2>2. \A q \in Products, o \in Workers : Taken(o, q)' = Taken(o, q)
    BY <2>1 DEF Taken
  <2>3. \A o \in Workers : Taken(o, p) = 0
    BY <1>8 DEF DeleteProduct
  <2>4. QED
    BY <2>1, <2>2, <2>3 DEF LocksInv
<1>9. CASE UNCHANGED cvars
  BY <1>9 DEF cvars, LocksInv, Taken
<1>10. QED
  BY <1>1, <1>2, <1>3, <1>4, <1>5, <1>6, <1>7, <1>8, <1>9
     DEF Next, Begin, WorkerStep

\* A till being closed goes on existing: rows are never removed.
LEMMA NextClosing == TypeOK /\ ClosingInv /\ [Next]_cvars => ClosingInv'
<1> SUFFICES ASSUME TypeOK, ClosingInv, [Next]_cvars, NEW o \in Workers,
                    worker'[o].pc = "close"
             PROVE  till'[worker'[o].till] # NoTill
  BY DEF ClosingInv
<1>1. \A t \in TillId : till[t] # NoTill => till'[t] # NoTill
  <2> SUFFICES ASSUME NEW t \in TillId, till[t] # NoTill, till' # till
               PROVE  till'[t] # NoTill
    OBVIOUS
  <2>1. \E w \in Workers : StoreTill(w) \/ CloseTill(w)
    BY DEF Next, Begin, WorkerStep, BeginMovement, CreateProduct, BeginEdit,
           BeginSale, BeginOpenTill, BeginCloseTill, BeginBackfill,
           PostMovement, SellLine, CommitSale, SaveProduct, CountStock,
           Backfill, EndBackfill, Abort, DeleteProduct, cvars
  <2>2. PICK w \in Workers : StoreTill(w) \/ CloseTill(w)
    BY <2>1
  <2>3. CASE StoreTill(w)
    BY <2>3 DEF StoreTill, TypeOK
  <2>4. CASE CloseTill(w)
    <3>1. /\ till[t] \in [status : {"open", "closed"}, by : SUBSET Operators]
          /\ till' = [till EXCEPT ![worker[w].till].status = "closed"]
      BY <2>4 DEF CloseTill, TypeOK
    <3>2. till'[t].status \in {"open", "closed"}
      BY <3>1 DEF TypeOK
    <3>3. QED
      BY <3>2 DEF NoTill
  <2>5. QED
    BY <2>2, <2>3, <2>4
<1>2. CASE worker'[o] = worker[o]
  <2>1. worker[o].till \in TillId
    BY <1>2, Locals
  <2>2. QED
    BY <1>1, <1>2, <2>1 DEF ClosingInv
<1>3. CASE worker'[o] # worker[o]
  <2>1. ASSUME NEW w \in Workers, NEW x, x.pc # "close",
               worker' = [worker EXCEPT ![w] = x]
        PROVE  FALSE
    BY <1>3, <2>1 DEF TypeOK
  <2>2. ASSUME NEW w \in Workers,
               \/ \E p \in Products, units \in Quantities : BeginMovement(w, p, units)
               \/ \E p \in Products, figure \in Figures : BeginEdit(w, p, figure)
               \/ \E s \in SaleId, t \in TillId, cart \in Carts :
                    BeginSale(w, s, t, cart)
               \/ \E u \in Operators : BeginOpenTill(w, u)
               \/ BeginBackfill(w)
        PROVE  FALSE
    <3>1. \E x : x.pc # "close" /\ worker' = [worker EXCEPT ![w] = x]
      BY <2>2 DEF BeginMovement, BeginEdit, BeginSale, BeginOpenTill,
                  BeginBackfill, Go
    <3>2. QED
      BY <2>1, <3>1
  <2>3. ASSUME NEW w \in Workers,
               \/ PostMovement(w) \/ CommitSale(w) \/ CountStock(w)
               \/ StoreTill(w) \/ CloseTill(w) \/ EndBackfill(w) \/ Abort(w)
        PROVE  FALSE
    <3>1. \E x : x.pc # "close" /\ worker' = [worker EXCEPT ![w] = x]
      BY <2>3 DEF PostMovement, CommitSale, CountStock, StoreTill, CloseTill,
                  EndBackfill, Abort, Go, Free
    <3>2. QED
      BY <2>1, <3>1
  <2>4. ASSUME NEW w \in Workers, NEW p \in Products, NEW figure \in Figures,
               CreateProduct(w, p, figure)
        PROVE  FALSE
    <3>1. worker' = [worker EXCEPT ![w] =
                       [pc |-> "post", product |-> p, units |-> figure]]
      BY <1>3, <2>4 DEF CreateProduct, Go
    <3>2. QED
      BY <2>1, <3>1
  <2>5. ASSUME NEW w \in Workers, SellLine(w) PROVE FALSE
    <3> DEFINE t == worker[w]
               l == t.lines[t.next]
    <3>1. t \in [pc : {"sell"}, sale : SaleId, till : TillId, lines : Carts,
                 next : Nat \ {0}, taken : [Products -> Nat]]
      BY <2>5, Locals DEF SellLine
    <3>2. /\ [t EXCEPT !.next = @ + 1].pc = "sell"
          /\ [t EXCEPT !.next = @ + 1, !.taken[l.product] = @ + l.units].pc
               = "sell"
      BY <3>1
    <3>3. \E x : x.pc # "close" /\ worker' = [worker EXCEPT ![w] = x]
      BY <2>5, <3>2 DEF SellLine, Go, Free
    <3>4. QED
      BY <2>1, <3>3
  <2>6. ASSUME NEW w \in Workers, SaveProduct(w) PROVE FALSE
    <3>1. worker[w] \in [pc : {"save", "count"}, product : Products,
                         figure : Figures]
      BY <2>6, Locals DEF SaveProduct
    <3>2. [worker[w] EXCEPT !.pc = "count"].pc = "count"
      BY <3>1
    <3>3. QED
      BY <2>1, <2>6, <3>2 DEF SaveProduct, Go
  <2>7. ASSUME NEW w \in Workers, NEW p \in Products, Backfill(w, p) PROVE FALSE
    <3>1. worker[w] \in [pc : {"backfill"}, todo : SUBSET Products]
      BY <2>7, Locals DEF Backfill
    <3>2. [worker[w] EXCEPT !.todo = @ \ {p}].pc = "backfill"
      BY <3>1
    <3>3. QED
      BY <2>1, <2>7, <3>2 DEF Backfill, Go
  <2>8. ASSUME NEW w \in Workers, NEW t \in TillId, BeginCloseTill(w, t)
        PROVE  till'[worker'[o].till] # NoTill
    <3>1. w = o
      BY <1>3, <2>8 DEF BeginCloseTill, Go, TypeOK
    <3>2. worker'[o].till = t /\ till' = till
      BY <2>8, <3>1 DEF BeginCloseTill, Go, TypeOK
    <3>3. till[t] # NoTill
      BY <2>8 DEF BeginCloseTill, NoTill
    <3>4. QED
      BY <3>2, <3>3
  <2>9. worker' # worker
    BY <1>3
  <2>10. QED
    BY <2>2, <2>3, <2>4, <2>5, <2>6, <2>7, <2>8, <2>9
       DEF Next, Begin, WorkerStep, DeleteProduct, cvars
<1>4. QED
  BY <1>2, <1>3

-----------------------------------------------------------------------------
(* What a sale takes *)

\* What the lines of a cart take of a product are numbers.
LEMMA PerLineTyped ==
  ASSUME NEW cart \in Carts, NEW p \in Products
  PROVE  /\ Len(cart) \in Nat
         /\ DOMAIN PerLine(cart, p) = 1 .. Len(cart)
         /\ IsFiniteSet(1 .. Len(cart))
         /\ \A i \in 1 .. Len(cart) : PerLine(cart, p)[i] \in Int
<1>1. cart \in Seq([product : Products \cup {OneOff}, units : Nat \ {0}])
  BY CounterBounds
<1>2. Len(cart) \in Nat /\ DOMAIN cart = 1 .. Len(cart)
  BY <1>1
<1>3. IsFiniteSet(1 .. Len(cart))
  BY <1>2, FS_Interval
<1>4. ASSUME NEW i \in 1 .. Len(cart)
      PROVE  PerLine(cart, p)[i] \in Int
  <2>1. cart[i] \in [product : Products \cup {OneOff}, units : Nat \ {0}]
    BY <1>2, Lines
  <2>2. PerLine(cart, p)[i] = IF cart[i].product = p THEN cart[i].units ELSE 0
    BY <1>2 DEF PerLine
  <2>3. QED
    BY <2>1, <2>2
<1>5. DOMAIN PerLine(cart, p) = 1 .. Len(cart)
  BY <1>2 DEF PerLine
<1>6. QED
  BY <1>2, <1>3, <1>4, <1>5

\* Before the first line nothing is taken, after the last what the cart says,
\* and each line adds its units of its own product.
LEMMA LineByLine ==
  ASSUME NEW cart \in Carts, NEW p \in Products
  PROVE  /\ UnitsBefore(cart, 1, p) = 0
         /\ UnitsBefore(cart, Len(cart) + 1, p) = Units(cart, p)
         /\ \A n \in 1 .. Len(cart) :
              UnitsBefore(cart, n + 1, p) = UnitsBefore(cart, n, p) +
                IF cart[n].product = p THEN cart[n].units ELSE 0
<1> DEFINE N == Len(cart)
           f == PerLine(cart, p)
<1>1. N \in Nat /\ DOMAIN f = 1 .. N /\ \A i \in 1 .. N : f[i] \in Int
  BY PerLineTyped
<1>2. IsFiniteSet(1 .. N)
  BY PerLineTyped
<1>3. UnitsBefore(cart, 1, p) = 0
  <2>1. 1 .. 1 - 1 = {}
    OBVIOUS
  <2>2. QED
    BY <2>1, SumEmpty DEF UnitsBefore
<1>4. UnitsBefore(cart, N + 1, p) = Units(cart, p)
  <2>1. 1 .. (N + 1) - 1 = 1 .. N
    BY <1>1
  <2>2. QED
    BY <1>1, <2>1 DEF UnitsBefore, Units, SumFunction
<1>5. ASSUME NEW n \in 1 .. N
      PROVE  UnitsBefore(cart, n + 1, p) = UnitsBefore(cart, n, p) +
                IF cart[n].product = p THEN cart[n].units ELSE 0
  <2>1. /\ 1 .. n - 1 \in SUBSET (1 .. N)
        /\ n \in (1 .. N) \ (1 .. n - 1)
        /\ (1 .. n - 1) \cup {n} = 1 .. (n + 1) - 1
    BY <1>1
  <2>2. SumFunctionOnSet(f, (1 .. n - 1) \cup {n}) =
          SumFunctionOnSet(f, 1 .. n - 1) + f[n]
    <3> HIDE DEF N, f
    <3>1. \A T \in SUBSET (1 .. N) : \A x \in (1 .. N) \ T :
            SumFunctionOnSet(f, T \cup {x}) = SumFunctionOnSet(f, T) + f[x]
      BY <1>1, <1>2, SumAdd
    <3>2. QED
      BY <2>1, <3>1
  <2>3. f[n] = IF cart[n].product = p THEN cart[n].units ELSE 0
    BY <1>1 DEF PerLine
  <2>4. QED
    BY <2>1, <2>2, <2>3 DEF UnitsBefore
<1>6. QED
  BY <1>3, <1>4, <1>5

\* A handler that is not selling, or is done with it, starts or ends.
LEMMA Aside ==
  ASSUME TypeOK, NEW w \in Workers,
         \/ \E p \in Products, units \in Quantities : BeginMovement(w, p, units)
         \/ \E p \in Products, figure \in Figures :
              CreateProduct(w, p, figure) \/ BeginEdit(w, p, figure)
         \/ \E u \in Operators : BeginOpenTill(w, u)
         \/ \E t \in TillId : BeginCloseTill(w, t)
         \/ BeginBackfill(w) \/ EndBackfill(w) \/ Abort(w)
         \/ PostMovement(w) \/ SaveProduct(w) \/ CountStock(w)
         \/ StoreTill(w) \/ CloseTill(w)
         \/ \E p \in Products : Backfill(w, p)
  PROVE  /\ sale' = sale /\ sold' = sold
         /\ \E x : x.pc # "sell" /\ worker' = [worker EXCEPT ![w] = x]
<1>1. sale' = sale /\ sold' = sold
  BY DEF BeginMovement, CreateProduct, BeginEdit, BeginOpenTill, BeginCloseTill,
         BeginBackfill, EndBackfill, Abort, PostMovement, SaveProduct,
         CountStock, StoreTill, CloseTill, Backfill, stock
<1>2. CASE SaveProduct(w)
  <2>1. worker[w] \in [pc : {"save", "count"}, product : Products,
                       figure : Figures]
    BY <1>2, Locals DEF SaveProduct
  <2>2. [worker[w] EXCEPT !.pc = "count"].pc = "count"
    BY <2>1
  <2>3. QED
    BY <1>1, <1>2, <2>2 DEF SaveProduct, Go
<1>3. ASSUME NEW p \in Products, Backfill(w, p)
      PROVE  \E x : x.pc # "sell" /\ worker' = [worker EXCEPT ![w] = x]
  <2>1. worker[w] \in [pc : {"backfill"}, todo : SUBSET Products]
    BY <1>3, Locals DEF Backfill
  <2>2. [worker[w] EXCEPT !.todo = @ \ {p}].pc = "backfill"
    BY <2>1
  <2>3. QED
    BY <1>3, <2>2 DEF Backfill, Go
<1>4. ASSUME NEW p \in Products, NEW figure \in Figures,
             CreateProduct(w, p, figure)
      PROVE  \E x : x.pc # "sell" /\ worker' = [worker EXCEPT ![w] = x]
  <2>1. CASE figure > 0
    BY <1>4, <2>1 DEF CreateProduct, Go
  <2>2. CASE ~(figure > 0)
    <3>1. worker' = [worker EXCEPT ![w] = Free]
      BY <1>4, <2>2 DEF CreateProduct, TypeOK
    <3>2. QED
      BY <3>1 DEF Free
  <2>3. QED
    BY <2>1, <2>2
<1>5. ASSUME \/ \E p \in Products, units \in Quantities : BeginMovement(w, p, units)
             \/ \E p \in Products, figure \in Figures : BeginEdit(w, p, figure)
             \/ \E u \in Operators : BeginOpenTill(w, u)
             \/ \E t \in TillId : BeginCloseTill(w, t)
             \/ BeginBackfill(w) \/ EndBackfill(w) \/ Abort(w)
             \/ PostMovement(w) \/ CountStock(w)
             \/ StoreTill(w) \/ CloseTill(w)
      PROVE  \E x : x.pc # "sell" /\ worker' = [worker EXCEPT ![w] = x]
  BY <1>5 DEF BeginMovement, BeginEdit, BeginOpenTill, BeginCloseTill,
       BeginBackfill, EndBackfill, Abort, PostMovement, CountStock, StoreTill,
       CloseTill, Go, Free
<1>6. QED
  BY <1>1, <1>2, <1>3, <1>4, <1>5

\* Every step keeps a sale and what left the shelf for it together
\* (AdminCreateCounterSale).
LEMMA NextSales ==
  TypeOK /\ SalesInv /\ SaleIsWhole /\ [Next]_cvars => SalesInv' /\ SaleIsWhole'
<1> SUFFICES ASSUME TypeOK, SalesInv, SaleIsWhole, [Next]_cvars
             PROVE  SalesInv' /\ SaleIsWhole'
  OBVIOUS
<1>0. worker \in [Workers -> Worker \cup {Free}]
  BY DEF TypeOK
<1>a. ASSUME sale' = sale, sold' = sold PROVE SaleIsWhole'
  BY <1>a DEF SaleIsWhole
<1>1. ASSUME NEW w \in Workers, NEW x, x.pc # "sell",
             worker' = [worker EXCEPT ![w] = x], sale' = sale
      PROVE  SalesInv'
  BY <1>0, <1>1 DEF SalesInv
<1>2. ASSUME NEW w \in Workers, NEW s \in SaleId, NEW t \in TillId,
             NEW cart \in Carts, BeginSale(w, s, t, cart)
      PROVE  SalesInv' /\ SaleIsWhole'
  <2> DEFINE x == [pc |-> "sell", sale |-> s, till |-> t, lines |-> cart,
                   next |-> 1, taken |-> Nothing]
  <2>1. worker' = [worker EXCEPT ![w] = x] /\ sale' = sale /\ sold' = sold
    BY <1>2 DEF BeginSale, Go, stock
  <2>2. worker[w] = Free /\ NewSale(s)
    BY <1>2 DEF BeginSale
  <2>3. SalesInv'
    <3> SUFFICES ASSUME NEW v \in Workers, worker'[v].pc = "sell"
                 PROVE  LET u == worker'[v] IN
                   /\ u.next <= Len(u.lines) + 1
                   /\ sale'[u.sale] = NoSale
                   /\ \A p \in Products : u.taken[p] = UnitsBefore(u.lines, u.next, p)
                   /\ \A o \in Workers :
                        worker'[o].pc = "sell" /\ worker'[o].sale = u.sale => o = v
      BY DEF SalesInv
    <3>1. \A o \in Workers : worker'[o] = IF o = w THEN x ELSE worker[o]
      BY <1>0, <2>1
    <3>2. CASE v = w
      <4>1. worker'[v] = x
        BY <3>1, <3>2
      <4>2. \A o \in Workers \ {w} : worker[o].pc = "sell" => worker[o].sale # s
        BY <2>2 DEF NewSale
      <4>3. \A p \in Products : x.taken[p] = UnitsBefore(x.lines, x.next, p)
        BY LineByLine DEF Nothing
      <4>4. Len(cart) \in Nat
        BY CounterBounds
      <4>5. QED
        BY <2>1, <2>2, <3>1, <3>2, <4>1, <4>2, <4>3, <4>4 DEF NewSale
    <3>3. CASE v # w
      <4>1. worker'[v] = worker[v] /\ worker[v].sale # s
        BY <2>2, <3>1, <3>3 DEF NewSale
      <4>2. QED
        BY <2>1, <3>1, <3>3, <4>1 DEF SalesInv
    <3>4. QED
      BY <3>2, <3>3
  <2>4. QED
    BY <1>a, <2>1, <2>3
<1>3. ASSUME NEW w \in Workers, SellLine(w)
      PROVE  SalesInv' /\ SaleIsWhole'
  <2> DEFINE t == worker[w]
             l == t.lines[t.next]
  <2>1. /\ t \in [pc : {"sell"}, sale : SaleId, till : TillId, lines : Carts,
                  next : Nat \ {0}, taken : [Products -> Nat]]
        /\ sale' = sale /\ sold' = sold /\ t.pc = "sell" /\ t.next <= Len(t.lines)
    BY <1>3, Locals DEF SellLine, stock
  <2>2. l \in [product : Products \cup {OneOff}, units : Nat \ {0}]
    BY <1>3, SellLocals DEF SellLine
  <2>3. ASSUME NEW x, worker' = [worker EXCEPT ![w] = x],
               x.pc = "sell", x.sale = t.sale, x.lines = t.lines,
               x.next = t.next + 1,
               \A p \in Products : x.taken[p] =
                 t.taken[p] + IF l.product = p THEN l.units ELSE 0
        PROVE  SalesInv'
    <3> SUFFICES ASSUME NEW v \in Workers, worker'[v].pc = "sell"
                 PROVE  LET u == worker'[v] IN
                   /\ u.next <= Len(u.lines) + 1
                   /\ sale'[u.sale] = NoSale
                   /\ \A p \in Products : u.taken[p] = UnitsBefore(u.lines, u.next, p)
                   /\ \A o \in Workers :
                        worker'[o].pc = "sell" /\ worker'[o].sale = u.sale => o = v
      BY DEF SalesInv
    <3>1. \A o \in Workers : worker'[o] = IF o = w THEN x ELSE worker[o]
      BY <1>0, <2>3
    <3>2. \A o \in Workers : /\ worker'[o].pc = "sell" <=> worker[o].pc = "sell"
                             /\ worker[o].pc = "sell" => worker'[o].sale = worker[o].sale
      BY <2>1, <2>3, <3>1
    <3>3. /\ sale'[worker'[v].sale] = NoSale
          /\ \A o \in Workers :
               worker'[o].pc = "sell" /\ worker'[o].sale = worker'[v].sale => o = v
      BY <2>1, <3>2 DEF SalesInv
    <3>4. CASE v = w
      <4>1. Len(t.lines) \in Nat /\ t.next \in 1 .. Len(t.lines)
        <5>1. t.lines \in Seq([product : Products \cup {OneOff}, units : Nat \ {0}])
          BY <2>1, CounterBounds
        <5>2. QED
          BY <2>1, <5>1
      <4>2. \A p \in Products : t.taken[p] = UnitsBefore(t.lines, t.next, p)
        BY <2>1 DEF SalesInv
      <4>3. \A p \in Products :
              UnitsBefore(t.lines, t.next + 1, p) = UnitsBefore(t.lines, t.next, p) +
                IF l.product = p THEN l.units ELSE 0
        BY <2>1, <4>1, LineByLine
      <4>4. \A p \in Products : x.taken[p] = UnitsBefore(x.lines, x.next, p)
        BY <2>3, <4>2, <4>3
      <4>5. x.next <= Len(x.lines) + 1
        BY <2>3, <4>1
      <4>6. worker'[v] = x
        BY <3>1, <3>4
      <4>7. QED
        BY <3>3, <4>4, <4>5, <4>6
    <3>5. CASE v # w
      <4>1. worker'[v] = worker[v]
        BY <3>1, <3>5
      <4>2. QED
        BY <3>3, <4>1 DEF SalesInv
    <3>6. QED
      BY <3>4, <3>5
  <2>4. CASE l.product = OneOff
    <3> DEFINE x == [t EXCEPT !.next = @ + 1]
    <3>1. worker' = [worker EXCEPT ![w] = x]
      BY <1>3, <2>4 DEF SellLine, Go
    <3>2. /\ x.pc = "sell" /\ x.sale = t.sale /\ x.lines = t.lines
          /\ x.next = t.next + 1 /\ x.taken = t.taken
      BY <2>1
    <3>3. \A p \in Products : x.taken[p] =
            t.taken[p] + IF l.product = p THEN l.units ELSE 0
      BY <2>1, <2>4, <3>2, CounterBounds
    <3> HIDE DEF x
    <3>4. QED
      BY <1>a, <2>1, <2>3, <3>1, <3>2, <3>3
  <2>5. CASE l.product # OneOff /\ Accepts(w, l.product, -l.units)
    <3> DEFINE x == [t EXCEPT !.next = @ + 1, !.taken[l.product] = @ + l.units]
    <3>1. worker' = [worker EXCEPT ![w] = x]
      BY <1>3, <2>5 DEF SellLine, Go
    <3>2. /\ x.pc = "sell" /\ x.sale = t.sale /\ x.lines = t.lines
          /\ x.next = t.next + 1
          /\ x.taken = [t.taken EXCEPT ![l.product] = @ + l.units]
      BY <2>1
    <3>3. \A p \in Products : x.taken[p] =
            t.taken[p] + IF l.product = p THEN l.units ELSE 0
      BY <2>1, <2>2, <2>5, <3>2
    <3> HIDE DEF x
    <3>4. QED
      BY <1>a, <2>1, <2>3, <3>1, <3>2, <3>3
  <2>6. CASE l.product # OneOff /\ ~Accepts(w, l.product, -l.units)
    <3>1. worker' = [worker EXCEPT ![w] = Free]
      BY <1>3, <2>6 DEF SellLine, Go
    <3>2. QED
      BY <1>1, <1>a, <2>1, <3>1 DEF Free
  <2>7. QED
    BY <2>4, <2>5, <2>6
<1>4. ASSUME NEW w \in Workers, CommitSale(w)
      PROVE  SalesInv' /\ SaleIsWhole'
  <2> DEFINE t == worker[w]
  <2>1. /\ t \in [pc : {"sell"}, sale : SaleId, till : TillId, lines : Carts,
                  next : Nat \ {0}, taken : [Products -> Nat]]
        /\ t.pc = "sell" /\ t.next > Len(t.lines)
        /\ worker' = [worker EXCEPT ![w] = Free]
        /\ sale' = [sale EXCEPT ![t.sale] = [till |-> t.till, lines |-> t.lines]]
        /\ sold' = [sold EXCEPT ![t.sale] =
                      [p \in Products |-> sold[t.sale][p] + t.taken[p]]]
    BY <1>4, Locals DEF CommitSale, Go
  <2>2. /\ sale \in [SaleId -> [till : TillId, lines : Carts] \cup {NoSale}]
        /\ sold \in [SaleId -> [Products -> Nat]]
    BY DEF TypeOK
  <2>3. t.next = Len(t.lines) + 1
    <3>1. t.next <= Len(t.lines) + 1
      BY <2>1 DEF SalesInv
    <3>2. t.lines \in Seq([product : Products \cup {OneOff}, units : Nat \ {0}])
      BY <2>1, CounterBounds
    <3>3. QED
      BY <2>1, <3>1, <3>2
  <2>4. \A p \in Products : t.taken[p] = Units(t.lines, p)
    <3>1. \A p \in Products : t.taken[p] = UnitsBefore(t.lines, Len(t.lines) + 1, p)
      BY <2>1, <2>3 DEF SalesInv
    <3>2. QED
      BY <2>1, <3>1, LineByLine
  <2>5. sale[t.sale] = NoSale
    BY <2>1 DEF SalesInv
  <2>6. SalesInv'
    <3>1. \A v \in Workers : worker'[v].pc = "sell" =>
            /\ v # w /\ worker'[v] = worker[v]
            /\ worker[v].sale # t.sale
      BY <1>0, <2>1 DEF SalesInv, Free
    <3>2. \A v \in Workers : worker'[v].pc = "sell" =>
            sale'[worker[v].sale] = sale[worker[v].sale]
      BY <2>1, <2>2, <3>1, Locals
    <3>3. QED
      BY <3>1, <3>2 DEF SalesInv
  <2>7. SaleIsWhole'
    <3> SUFFICES ASSUME NEW s \in SaleId, NEW p \in Products
                 PROVE  sold'[s][p] = IF sale'[s] = NoSale THEN 0
                                      ELSE Units(sale'[s].lines, p)
      BY DEF SaleIsWhole
    <3>1. CASE s = t.sale
      <4>1. sold[s][p] = 0
        BY <2>5, <3>1 DEF SaleIsWhole
      <4>2. sold'[s][p] = sold[s][p] + t.taken[p] /\ t.taken[p] \in Nat
        BY <2>1, <2>2, <3>1
      <4>3. sale'[s] = [till |-> t.till, lines |-> t.lines]
        BY <2>1, <2>2, <3>1
      <4>4. sale'[s] # NoSale /\ sale'[s].lines = t.lines
        BY <4>3 DEF NoSale
      <4>5. QED
        BY <2>4, <4>1, <4>2, <4>4
    <3>2. CASE s # t.sale
      BY <2>1, <2>2, <3>2 DEF SaleIsWhole
    <3>3. QED
      BY <3>1, <3>2
  <2>8. QED
    BY <2>6, <2>7
<1>5. ASSUME NEW p \in Products, DeleteProduct(p)
      PROVE  SalesInv' /\ SaleIsWhole'
  <2>1. sale' = sale /\ sold' = sold /\ worker' = worker
    BY <1>5 DEF DeleteProduct, stock
  <2>2. QED
    BY <1>a, <2>1 DEF SalesInv
<1>6. CASE UNCHANGED cvars
  <2>1. sale' = sale /\ sold' = sold /\ worker' = worker
    BY <1>6 DEF cvars, stock
  <2>2. QED
    BY <1>a, <2>1 DEF SalesInv
<1>7. ASSUME NEW w \in Workers,
             sale' = sale /\ sold' = sold,
             \E x : x.pc # "sell" /\ worker' = [worker EXCEPT ![w] = x]
      PROVE  SalesInv' /\ SaleIsWhole'
  BY <1>1, <1>a, <1>7
<1>8. QED
  BY <1>2, <1>3, <1>4, <1>5, <1>6, <1>7, Aside DEF Next, Begin, WorkerStep

-----------------------------------------------------------------------------
\* The invariant behind the rest: types, row locks that cover what a
\* transaction has taken, tills that exist, and sales that are whole
\* (RecordMovement, AdminCreateCounterSale).
THEOREM InductiveInvariant == Spec => []Inductive
<1>1. Init => Inductive
  <2> SUFFICES ASSUME Init PROVE Inductive
    OBVIOUS
  <2>1. TypeOK
    BY Numbers DEF Init, TypeOK, Nothing
  <2>2. LocksInv
    BY DEF Init, LocksInv, Taken, Free, Nothing
  <2>3. ClosingInv
    BY DEF Init, ClosingInv, Free
  <2>4. SalesInv
    BY DEF Init, SalesInv, Free
  <2>5. SaleIsWhole
    BY DEF Init, SaleIsWhole, Nothing
  <2>6. QED
    BY <2>1, <2>2, <2>3, <2>4, <2>5 DEF Inductive
<1>2. Inductive /\ [Next]_cvars => Inductive'
  BY NextTypeOK, NextLocks, NextClosing, NextSales DEF Inductive
<1>3. QED
  BY <1>1, <1>2, PTL DEF Spec

\* Every variable keeps its type, whatever the handlers do.
THEOREM TypeCorrect == Spec => []TypeOK
BY InductiveInvariant, PTL DEF Inductive

\* No product is ever oversold: the lock makes the check and the insert of
\* RecordMovement one (stock.go, "Overselling is the specific failure").
THEOREM NeverOversoldHolds == Spec => []NeverOversold
<1>1. Inductive => NeverOversold
  BY DEF Inductive, LocksInv, NeverOversold
<1>2. QED
  BY <1>1, InductiveInvariant, PTL

\* A sale and the stock that leaves for it are recorded together or not at all,
\* whatever its cart and whatever else is at work (AdminCreateCounterSale).
THEOREM SaleIsWholeHolds == Spec => []SaleIsWhole
BY InductiveInvariant, PTL DEF Inductive

\* A deleted product is never drawn on: deletion waits for the lock of a sale
\* that has taken it, and a movement that comes later is refused.
THEOREM DeletedIsNotSoldHolds == Spec => DeletedIsNotSold
<1> DEFINE Spared == \A p \in Products :
                       product[p] = "deleted" => held'[p] >= held[p]
<1>1. Inductive /\ [Next]_cvars => Spared
  <2> SUFFICES ASSUME Inductive, [Next]_cvars, NEW p \in Products,
                      product[p] = "deleted"
               PROVE  held'[p] >= held[p]
    OBVIOUS
  <2>t. TypeOK /\ LocksInv /\ held[p] \in Int /\ legacy[p] \in Nat
    BY DEF Inductive, TypeOK
  <2>1. CASE held'[p] = held[p]
    BY <2>t, <2>1
  <2>2. ASSUME NEW w \in Workers, PostMovement(w) PROVE held'[p] >= held[p]
    <3>1. worker[w].product \in Products /\ worker[w].units \in Int
      BY <2>t, <2>2, Locals DEF PostMovement
    <3>2. held'[p] = held[p]
      BY <2>t, <2>2, <3>1 DEF PostMovement, Accepts, TypeOK
    <3>3. QED
      BY <2>1, <3>2
  <2>3. ASSUME NEW w \in Workers, CommitSale(w) PROVE held'[p] >= held[p]
    <3>1. Taken(w, p) = 0
      BY <2>t, TakenIsNat DEF LocksInv
    <3>2. held'[p] = held[p] - Taken(w, p)
      BY <2>3 DEF CommitSale, Taken
    <3>3. QED
      BY <2>t, <3>1, <3>2
  <2>4. ASSUME NEW w \in Workers, NEW q \in Products, Backfill(w, q)
        PROVE  held'[p] >= held[p]
    BY <2>t, <2>4 DEF Backfill, TypeOK
  <2>5. CASE held' = held
    BY <2>1, <2>5
  <2>6. QED
    BY <2>2, <2>3, <2>4, <2>5 DEF Next, Begin, WorkerStep, BeginMovement,
       CreateProduct, BeginEdit, BeginSale, BeginOpenTill, BeginCloseTill,
       BeginBackfill, SellLine, SaveProduct, CountStock, StoreTill, CloseTill,
       EndBackfill, Abort, DeleteProduct, cvars, stock
<1>2. QED
  BY <1>1, InductiveInvariant, PTL DEF Spec, DeletedIsNotSold

-----------------------------------------------------------------------------
(* Counter implements ShopFloor *)

Offered == {p \in Products : product[p] = "live"}

\* A sale under way has lines.
CartsInv == \A w \in Workers : worker[w].pc = "sell" => worker[w].lines # <<>>

LEMMA FreePc == Free.pc = "free"
BY DEF Free

LEMMA NextCarts == TypeOK /\ CartsInv /\ [Next]_cvars => CartsInv'
<1> SUFFICES ASSUME TypeOK, CartsInv, [Next]_cvars, NEW o \in Workers,
                    worker'[o].pc = "sell"
             PROVE  worker'[o].lines # <<>>
  BY DEF CartsInv
<1>0. worker \in [Workers -> Worker \cup {Free}]
  BY DEF TypeOK
<1>1. CASE worker'[o] = worker[o]
  BY <1>1 DEF CartsInv
<1>2. ASSUME NEW w \in Workers, NEW x, x.pc # "sell",
             worker' = [worker EXCEPT ![w] = x]
      PROVE  worker'[o] = worker[o]
  BY <1>0, <1>2
<1>3. ASSUME NEW w \in Workers, NEW s \in SaleId, NEW t \in TillId,
             NEW cart \in Carts, BeginSale(w, s, t, cart), worker'[o] # worker[o]
      PROVE  worker'[o].lines # <<>>
  <2>1. worker'[o].lines = cart /\ Len(cart) > 0
    BY <1>0, <1>3 DEF BeginSale, Go
  <2>2. QED
    BY <2>1
<1>4. ASSUME NEW w \in Workers, SellLine(w), worker'[o] # worker[o]
      PROVE  worker'[o].lines # <<>>
  <2>1. o = w /\ worker[w].pc = "sell" /\ worker[w].lines # <<>>
    BY <1>0, <1>4 DEF SellLine, Go, CartsInv
  <2> DEFINE l == worker[w].lines[worker[w].next]
  <2>2. worker'[w] \in
          {[worker[w] EXCEPT !.next = @ + 1],
           [worker[w] EXCEPT !.next = @ + 1, !.taken[l.product] = @ + l.units], Free}
    BY <1>0, <1>4 DEF SellLine, Go
  <2>3. worker[w] \in [pc : {"sell"}, sale : SaleId, till : TillId, lines : Carts,
                       next : Nat \ {0}, taken : [Products -> Nat]]
    BY <2>1, Locals
  <2>4. QED
    BY <2>1, <2>2, <2>3, FreePc
<1>5. QED
  <2>1. \/ worker' = worker
        \/ \E w \in Workers : Begin(w) \/ WorkerStep(w) \/ Abort(w)
    BY DEF Next, DeleteProduct, cvars
  <2>2. ASSUME NEW w \in Workers, Begin(w) PROVE worker'[o].lines # <<>>
    BY <1>1, <1>2, <1>3, <2>2 DEF Begin, BeginMovement, CreateProduct, BeginEdit,
       BeginOpenTill, BeginCloseTill, BeginBackfill, Go
  <2>3. ASSUME NEW w \in Workers, WorkerStep(w) \/ Abort(w)
        PROVE  worker'[o].lines # <<>>
    <3>1. CASE SellLine(w)
      BY <1>1, <1>4, <3>1
    <3>2. CASE SaveProduct(w)
      <4>1. /\ worker[w].pc = "save"
            /\ worker' = [worker EXCEPT ![w] = [worker[w] EXCEPT !.pc = "count"]]
        BY <3>2 DEF SaveProduct, Go
      <4>2. worker[w] \in [pc : {"save", "count"}, product : Products,
                           figure : Figures]
        BY <4>1, Locals
      <4>3. [worker[w] EXCEPT !.pc = "count"].pc # "sell"
        BY <4>2
      <4>4. QED
        BY <1>1, <1>2, <4>1, <4>3
    <3>3. ASSUME NEW p \in Products, Backfill(w, p) PROVE worker'[o].lines # <<>>
      <4>1. /\ worker[w].pc = "backfill"
            /\ worker' = [worker EXCEPT ![w] = [worker[w] EXCEPT !.todo = @ \ {p}]]
        BY <3>3 DEF Backfill, Go
      <4>2. worker[w] \in [pc : {"backfill"}, todo : SUBSET Products]
        BY <4>1, Locals
      <4>3. [worker[w] EXCEPT !.todo = @ \ {p}].pc # "sell"
        BY <4>2
      <4>4. QED
        BY <1>1, <1>2, <4>1, <4>3
    <3>4. CASE CountStock(w)
      BY <1>1, <1>2, <3>4, FreePc DEF CountStock, Go
    <3>5. CASE \/ PostMovement(w) \/ CommitSale(w) \/ StoreTill(w)
               \/ CloseTill(w) \/ EndBackfill(w) \/ Abort(w)
      <4>1. worker' = [worker EXCEPT ![w] = Free]
        BY <3>5 DEF PostMovement, CommitSale, StoreTill, CloseTill, EndBackfill,
           Abort, Go
      <4>2. QED
        BY <1>1, <1>2, <4>1, FreePc
    <3>6. QED
      BY <2>3, <3>1, <3>2, <3>3, <3>4, <3>5 DEF WorkerStep
  <2>4. QED
    BY <1>1, <2>1, <2>2, <2>3

\* The shop floor adds as the counter does.
LEMMA ShopAdds == \A f : Shop!SumFunction(f) = SumFunction(f)
<1> SUFFICES ASSUME NEW f PROVE Shop!SumFunction(f) = SumFunction(f)
  OBVIOUS
<1>1. Shop!SumFunction(f) = TotalsOf(f, DOMAIN f)[DOMAIN f]
  BY DEF Shop!SumFunction, Shop!SumFunctionOnSet, Shop!FoldFunctionOnSet,
     Shop!MapThenFoldSet, TotalsOf, Totals, Some
<1>2. SumFunction(f) = TotalsOf(f, DOMAIN f)[DOMAIN f]
  BY SumIsTotal DEF SumFunction
<1>3. QED
  BY <1>1, <1>2

\* A commit is a sale rung up all at once.
LEMMA CommitRings ==
  ASSUME Inductive, CartsInv, NEW w \in Workers, CommitSale(w)
  PROVE  \E s \in SaleId, lines \in Carts : Shop!Ring(s, lines)
<1> DEFINE t == worker[w]
           lines == t.lines
           s == t.sale
<1>0. t \in [pc : {"sell"}, sale : SaleId, till : TillId, lines : Carts,
             next : Nat \ {0}, taken : [Products -> Nat]]
  BY Locals DEF Inductive, CommitSale
<1>1. lines \in Carts /\ s \in SaleId /\ lines # <<>> /\ sale[s] = NoSale
  BY <1>0 DEF Inductive, SalesInv, CartsInv, CommitSale
<1>2. t.next = Len(lines) + 1
  BY <1>0, <1>1, PerLineTyped DEF Inductive, SalesInv, CommitSale
<1>3. \A p \in Products :
        /\ t.taken[p] = Shop!Wanted(lines, p)
        /\ t.taken[p] \in Nat /\ held[p] \in Int
  <2> SUFFICES ASSUME NEW p \in Products
               PROVE  t.taken[p] = Shop!Wanted(lines, p)
    BY <1>0 DEF Inductive, TypeOK
  <2>1. t.taken[p] = UnitsBefore(lines, Len(lines) + 1, p)
    BY <1>2 DEF Inductive, SalesInv, CommitSale
  <2>2. UnitsBefore(lines, Len(lines) + 1, p) = Units(lines, p)
    BY <1>1, LineByLine
  <2>3. Units(lines, p) = Shop!Wanted(lines, p)
    BY ShopAdds DEF Units, PerLine, Shop!Wanted
  <2>4. QED
    BY <2>1, <2>2, <2>3
<1>4. \A p \in Products :
        /\ Shop!Wanted(lines, p) <= held[p]
        /\ Shop!Wanted(lines, p) > 0 => p \in Offered
  <2> SUFFICES ASSUME NEW p \in Products
               PROVE  /\ t.taken[p] <= held[p]
                      /\ t.taken[p] > 0 => product[p] = "live"
    BY <1>3 DEF Offered
  <2>1. Taken(w, p) = t.taken[p]
    BY <1>0 DEF Taken
  <2>2. QED
    BY <2>1, <1>3 DEF Inductive, LocksInv
<1>5. billBar[s] = <<>>
  BY <1>1 DEF billBar
<1>6. billBar' = [billBar EXCEPT ![s] = lines]
  <2>1. sale' = [sale EXCEPT ![s] = [till |-> t.till, lines |-> lines]]
    BY DEF CommitSale
  <2>2. sale \in [SaleId -> [till : TillId, lines : Carts] \cup {NoSale}]
    BY DEF Inductive, TypeOK
  <2>3. [till |-> t.till, lines |-> lines] # NoSale
    BY DEF NoSale
  <2>4. QED
    BY <1>1, <2>1, <2>2, <2>3 DEF billBar
<1>7. held' = [p \in Products |-> held[p] - Shop!Wanted(lines, p)]
  BY <1>3 DEF CommitSale
<1>8. Offered' = Offered
  BY DEF CommitSale, Offered
<1>9. QED
  BY <1>1, <1>4, <1>5, <1>6, <1>7, <1>8 DEF Shop!Ring, Offered

\* A movement on its own: of goods on offer, or an opening balance.
LEMMA MovementRestocks ==
  ASSUME Inductive, NEW w \in Workers, PostMovement(w), held' # held
  PROVE  \E p \in Products : Shop!Restock(p)
<1> DEFINE t == worker[w]
<1>1. PICK p \in Products : p = t.product
  BY Locals DEF Inductive, PostMovement
<1>2. t.units \in Int
  BY Locals DEF Inductive, PostMovement
<1>3. /\ Accepts(w, p, t.units)
      /\ held' = [held EXCEPT ![p] = @ + t.units]
      /\ UNCHANGED <<product, sale>>
  BY <1>1 DEF PostMovement
<1>4. Taken(w, p) = 0
  BY DEF PostMovement, Taken
<1>5. held \in [Products -> Int]
  BY DEF Inductive, TypeOK
<1>6. product[p] = "live" /\ held'[p] \in Nat
  BY <1>2, <1>3, <1>4, <1>5 DEF Accepts
<1>7. held' = [held EXCEPT ![p] = held'[p]]
  BY <1>3, <1>5
<1>8. QED
  BY <1>3, <1>6, <1>7 DEF Shop!Restock, Shop!Moves, billBar

LEMMA BackfillCarries ==
  ASSUME Inductive, NEW w \in Workers, NEW p \in Products, Backfill(w, p), held' # held
  PROVE  Shop!CarryOver(p)
<1>1. held \in [Products -> Int] /\ legacy \in [Products -> Nat]
  BY DEF Inductive, TypeOK
<1>2. held' = [held EXCEPT ![p] = @ + legacy[p]] /\ UNCHANGED <<product, sale>>
  BY DEF Backfill
<1>3. legacy[p] # 0
  BY <1>1, <1>2
<1>4. held'[p] > held[p] /\ held' = [held EXCEPT ![p] = held'[p]]
  BY <1>1, <1>2, <1>3
<1>5. QED
  BY <1>2, <1>4 DEF Shop!CarryOver, Shop!Moves, billBar

\* What handlers do to the catalogue.
LEMMA CatalogueSteps ==
  ASSUME Inductive, NEW p \in Products, UNCHANGED <<held, sale>>
  PROVE  /\ product' = [product EXCEPT ![p] = "live"] => Shop!Offer(p)
         /\ product' = [product EXCEPT ![p] = "deleted"] => Shop!Withdraw(p)
<1>1. product \in [Products -> {"none", "live", "deleted"}]
  BY DEF Inductive, TypeOK
<1>2. billBar' = billBar
  BY DEF billBar
<1>3. product' = [product EXCEPT ![p] = "live"] => Offered' = Offered \cup {p}
  BY <1>1 DEF Offered
<1>4. product' = [product EXCEPT ![p] = "deleted"] => Offered' = Offered \ {p}
  BY <1>1 DEF Offered
<1>5. QED
  BY <1>2, <1>3, <1>4 DEF Shop!Offer, Shop!Withdraw, Offered

\* Every step of the counter is a step of the shop floor, or none.
LEMMA ShopStep ==
  Inductive /\ CartsInv /\ [Next]_cvars => [Shop!SFNext]_(Shop!sfvars)
<1> SUFFICES ASSUME Inductive, CartsInv, [Next]_cvars
             PROVE  Shop!SFNext \/ UNCHANGED Shop!sfvars
  OBVIOUS
<1>1. CASE UNCHANGED <<product, held, sale>>
  BY <1>1 DEF Shop!sfvars, billBar
<1>2. CASE ~UNCHANGED <<product, held, sale>>
  <2>1. \/ \E w \in Workers : \/ PostMovement(w) \/ CommitSale(w) \/ SaveProduct(w)
                              \/ \E p \in Products : Backfill(w, p)
                              \/ \E p \in Products, f \in Figures : CreateProduct(w, p, f)
        \/ \E p \in Products : DeleteProduct(p)
    BY <1>2 DEF Next, Begin, WorkerStep, BeginMovement, BeginEdit, BeginSale,
       BeginOpenTill, BeginCloseTill, BeginBackfill, SellLine, CountStock,
       StoreTill, CloseTill, EndBackfill, Abort, stock, cvars
  <2>2. ASSUME NEW w \in Workers, PostMovement(w) PROVE Shop!SFNext
    <3>1. held' # held
      BY <1>2, <2>2 DEF PostMovement
    <3>2. QED
      BY <2>2, <3>1, MovementRestocks DEF Shop!SFNext
  <2>3. ASSUME NEW w \in Workers, CommitSale(w) PROVE Shop!SFNext
    BY <2>3, CommitRings DEF Shop!SFNext
  <2>4. ASSUME NEW w \in Workers, SaveProduct(w) PROVE Shop!SFNext
    <3>1. PICK p \in Products : p = worker[w].product
      BY <2>4, Locals DEF SaveProduct, Inductive
    <3>2. product' = [product EXCEPT ![p] = "live"] /\ UNCHANGED <<held, sale>>
      BY <2>4, <3>1 DEF SaveProduct, stock
    <3>3. Shop!Offer(p)
      BY <3>2, CatalogueSteps
    <3>4. QED
      BY <3>3 DEF Shop!SFNext
  <2>5. ASSUME NEW w \in Workers, NEW p \in Products, Backfill(w, p)
        PROVE  Shop!SFNext
    <3>1. held' # held
      BY <1>2, <2>5 DEF Backfill
    <3>2. QED
      BY <2>5, <3>1, BackfillCarries DEF Shop!SFNext
  <2>6. ASSUME NEW w \in Workers, NEW p \in Products, NEW f \in Figures,
               CreateProduct(w, p, f)
        PROVE  Shop!SFNext
    <3>1. Shop!Offer(p)
      BY <2>6, CatalogueSteps DEF CreateProduct, stock
    <3>2. QED
      BY <3>1 DEF Shop!SFNext
  <2>7. ASSUME NEW p \in Products, DeleteProduct(p) PROVE Shop!SFNext
    <3>1. Shop!Withdraw(p)
      BY <2>7, CatalogueSteps DEF DeleteProduct, stock
    <3>2. QED
      BY <3>1 DEF Shop!SFNext
  <2>8. QED
    BY <2>1, <2>2, <2>3, <2>4, <2>5, <2>6, <2>7
<1>3. QED
  BY <1>1, <1>2

\* Transactions that move several products, hold row locks, wait for one another
\* and are rolled back amount to sales that happen whole or not at all, one after
\* another, for any number of them (AdminCreateCounterSale, RecordMovement).
THEOREM ShopIsKept == Spec => KeepsShop
<1>1. Init => Shop!SFInit
  BY DEF Init, Shop!SFInit, billBar, Nothing, NoSale
<1>2. Init => CartsInv
  BY FreePc DEF Init, CartsInv
<1>3. Inductive /\ CartsInv /\ [Next]_cvars => CartsInv'
  BY NextCarts DEF Inductive
<1>4. QED
  BY <1>1, <1>2, <1>3, ShopStep, InductiveInvariant, PTL
  DEF Spec, KeepsShop, Shop!SFSpec
=============================================================================
