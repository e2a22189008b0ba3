------------------------------- MODULE Counter -------------------------------
(***************************************************************************)
(* The shop counter and the stock ledger behind it: tills, counter sales,  *)
(* stock movements, product edits and the opening-balance backfill         *)
(* (src/internal/services/stock.go, handlers/stock.go, handlers/counter.go *)
(* and the product handlers of handlers/handlers.go).                      *)
(*                                                                         *)
(* A counter sale is one transaction of several movements; it holds the    *)
(* row lock of every product it has moved until it commits.  The other     *)
(* handlers take one autocommitted statement, or one RecordMovement, per   *)
(* step.  The ledger is kept as what the code reads of it: the SUM of a    *)
(* product's committed rows, and whether it has any.                       *)
(***************************************************************************)
EXTENDS Integers, Sequences, Functions

CONSTANTS
  Products,    \* the catalogue
  OneOff,      \* stands for the product of a line that has none
  Operators,   \* staff at the counter
  Carts,       \* the lines a sale may have
  Quantities,  \* movements a clerk may post, signed
  Figures,     \* quantities a clerk may count or open a product with
  Workers,     \* slots for handlers running at once
  MaxSales,    \* bound: counter_sales rows ever created
  MaxTills,    \* bound: till_sessions rows ever created
  MaxHeld      \* bound: on hand of one product

ASSUME CounterBounds ==
  /\ OneOff \notin Products
  /\ Carts \subseteq Seq([product : Products \cup {OneOff}, units : Nat \ {0}])
  /\ Quantities \subseteq Int /\ Figures \subseteq Nat
  /\ MaxSales \in Nat /\ MaxTills \in Nat /\ MaxHeld \in Nat

VARIABLES
  product,  \* product[p]: none, live, or soft-deleted
  legacy,   \* legacy[p]: the products.stock column from before the ledger
  held,     \* held[p]: SUM(quantity) over p's committed movements
  entered,  \* entered[p]: p has a committed movement
  sale,     \* sale[s]: counter_sales row with its lines
  sold,     \* sold[s][p]: units out by movements that name sale s
  till,     \* till[t]: till_sessions row, and whom it names as its operator, if anybody
  worker    \* worker[w]: locals of a handler

cvars == <<product, legacy, held, entered, sale, sold, till, worker>>
stock == <<held, entered, sale, sold>>

SaleId == 1 .. MaxSales
TillId == 1 .. MaxTills
NoSale == <<>>
NoTill == [status |-> "none"]
Nothing == [p \in Products |-> 0]

Worker ==
  [pc : {"sell"}, sale : SaleId, till : TillId, lines : Carts, next : Nat \ {0},
   taken : [Products -> Nat]]           \* moved so far, not yet committed
  \cup [pc : {"post"}, product : Products, units : Int]
  \cup [pc : {"save", "count"}, product : Products, figure : Figures]
  \cup [pc : {"backfill"}, todo : SUBSET Products]
  \cup [pc : {"open"}, by : Operators]
  \cup [pc : {"close"}, till : TillId]
Free == [pc |-> "free"]

TypeOK ==
  /\ product \in [Products -> {"none", "live", "deleted"}]
  /\ legacy \in [Products -> Nat]
  /\ held \in [Products -> Int]
  /\ entered \in [Products -> BOOLEAN]
  /\ sale \in [SaleId -> [till : TillId, lines : Carts] \cup {NoSale}]
  /\ sold \in [SaleId -> [Products -> Nat]]
  /\ till \in [TillId -> [status : {"open", "closed"}, by : SUBSET Operators]
                         \cup {NoTill}]
  /\ worker \in [Workers -> Worker \cup {Free}]

\* A database that has just got its ledger: products may carry a figure in the
\* old column, and no movement yet.
Init ==
  /\ product \in [Products -> {"none", "live"}]
  /\ legacy \in [Products -> Figures]
  /\ \A p \in Products : product[p] = "none" => legacy[p] = 0
  /\ held = Nothing
  /\ entered = [p \in Products |-> FALSE]
  /\ sale = [s \in SaleId |-> NoSale]
  /\ sold = [s \in SaleId |-> Nothing]
  /\ till = [t \in TillId |-> NoTill]
  /\ worker = [w \in Workers |-> Free]

Go(w, next) == worker' = [worker EXCEPT ![w] = next]

-----------------------------------------------------------------------------
(* RecordMovement *)

Taken(w, p) == IF worker[w].pc = "sell" THEN worker[w].taken[p] ELSE 0

\* Mutant of Waits: the product is read without FOR UPDATE.
WaitsNever(w, p) == FALSE

\* Another transaction holds p's row lock, because it has moved p.
Waits(w, p) == \E o \in Workers \ {w} : Taken(o, p) > 0

\* Mutant of Accepts: a soft-deleted product is found as well.
AcceptsDeleted(w, p, units) == held[p] - Taken(w, p) + units >= 0

\* The locked row is live, and the sum as this transaction sees it, its own
\* rows included, does not go below zero.
Accepts(w, p, units) ==
  product[p] = "live" /\ held[p] - Taken(w, p) + units >= 0

\* ValidateMovement and the first reads of AdminCreateStockMovement.  Every
\* sign has a kind, an opening excepted.
BeginMovement(w, p, units) ==
  /\ worker[w] = Free
  /\ product[p] = "live" /\ units # 0
  /\ Go(w, [pc |-> "post", product |-> p, units |-> units])
  /\ UNCHANGED <<product, legacy, stock, till>>

\* A transaction of its own: lock, sum, insert; or refuse.
PostMovement(w) ==
  LET t == worker[w] IN
  /\ t.pc = "post"
  /\ ~Waits(w, t.product)
  /\ held[t.product] + t.units <= MaxHeld
  /\ IF Accepts(w, t.product, t.units)
     THEN /\ held' = [held EXCEPT ![t.product] = @ + t.units]
          /\ entered' = [entered EXCEPT ![t.product] = TRUE]
     ELSE UNCHANGED <<held, entered>>
  /\ Go(w, Free)
  /\ UNCHANGED <<product, legacy, sale, sold, till>>

-----------------------------------------------------------------------------
(* AdminCreateCounterSale *)

NewSale(s) ==
  /\ sale[s] = NoSale /\ sold[s] = Nothing
  /\ \A o \in Workers : worker[o].pc = "sell" => worker[o].sale # s

\* resolveSession reads an open till, the caller's own or a named one, before
\* the transaction.
BeginSale(w, s, t, cart) ==
  /\ worker[w] = Free
  /\ NewSale(s)
  /\ till[t].status = "open"
  /\ Len(cart) > 0
  /\ Go(w, [pc |-> "sell", sale |-> s, till |-> t, lines |-> cart, next |-> 1,
            taken |-> Nothing])
  /\ UNCHANGED <<product, legacy, stock, till>>

\* Mutant of SellLine: the movement is recorded outside the transaction.
SellLineOutside(w) ==
  LET t == worker[w]
      l == t.lines[t.next]
  IN
  /\ t.pc = "sell" /\ t.next <= Len(t.lines)
  /\ \/ /\ l.product = OneOff
        /\ Go(w, [t EXCEPT !.next = @ + 1])
        /\ UNCHANGED stock
     \/ /\ l.product # OneOff
        /\ ~Waits(w, l.product)
        /\ IF Accepts(w, l.product, -l.units)
           THEN /\ held' = [held EXCEPT ![l.product] = @ - l.units]
                /\ sold' = [sold EXCEPT ![t.sale][l.product] = @ + l.units]
                /\ Go(w, [t EXCEPT !.next = @ + 1])
                /\ UNCHANGED <<entered, sale>>
           ELSE Go(w, Free) /\ UNCHANGED stock
  /\ UNCHANGED <<product, legacy, till>>

\* One line: RecordMovement inside the sale's transaction.  A refusal rolls
\* the whole sale back.
SellLine(w) ==
  LET t == worker[w]
      l == t.lines[t.next]
  IN
  /\ t.pc = "sell" /\ t.next <= Len(t.lines)
  /\ \/ /\ l.product = OneOff
        /\ Go(w, [t EXCEPT !.next = @ + 1])
     \/ /\ l.product # OneOff
        /\ ~Waits(w, l.product)
        /\ IF Accepts(w, l.product, -l.units)
           THEN Go(w, [t EXCEPT !.next = @ + 1,
                                !.taken[l.product] = @ + l.units])
           ELSE Go(w, Free)
  /\ UNCHANGED <<product, legacy, stock, till>>

CommitSale(w) ==
  LET t == worker[w] IN
  /\ t.pc = "sell" /\ t.next > Len(t.lines)
  /\ sale' = [sale EXCEPT ![t.sale] = [till |-> t.till, lines |-> t.lines]]
  /\ sold' = [sold EXCEPT ![t.sale] =
                [p \in Products |-> sold[t.sale][p] + t.taken[p]]]
  /\ held' = [p \in Products |-> held[p] - t.taken[p]]
  /\ entered' = [p \in Products |-> entered[p] \/ t.taken[p] > 0]
  /\ Go(w, Free)
  /\ UNCHANGED <<product, legacy, till>>

-----------------------------------------------------------------------------
(* Products *)

\* AdminCreateProduct: the row, and then its opening balance if it has one.
CreateProduct(w, p, figure) ==
  /\ worker[w] = Free
  /\ product[p] = "none"
  /\ product' = [product EXCEPT ![p] = "live"]
  /\ IF figure > 0
     THEN Go(w, [pc |-> "post", product |-> p, units |-> figure])
     ELSE UNCHANGED worker
  /\ UNCHANGED <<legacy, stock, till>>

\* AdminUpdateProduct with a stock figure, up to Save.  An edit without one is
\* an edit that ends after Save.
BeginEdit(w, p, figure) ==
  /\ worker[w] = Free
  /\ product[p] = "live"
  /\ Go(w, [pc |-> "save", product |-> p, figure |-> figure])
  /\ UNCHANGED <<product, legacy, stock, till>>

\* Save waits for the row lock.  When its UPDATE finds no live row it falls
\* back to an upsert of every column, deleted_at included.
SaveProduct(w) ==
  LET t == worker[w] IN
  /\ t.pc = "save"
  /\ ~Waits(w, t.product)
  /\ product' = [product EXCEPT ![t.product] = "live"]
  /\ Go(w, [t EXCEPT !.pc = "count"])
  /\ UNCHANGED <<legacy, stock, till>>

\* The on-hand figure the adjustment is computed from, read outside the
\* movement's transaction.
CountStock(w) ==
  LET t == worker[w]
      delta == t.figure - held[t.product]
  IN
  /\ t.pc = "count"
  /\ Go(w, IF delta = 0 THEN Free
           ELSE [pc |-> "post", product |-> t.product, units |-> delta])
  /\ UNCHANGED <<product, legacy, stock, till>>

\* AdminDeleteProduct; its UPDATE waits for the row lock.
DeleteProduct(p) ==
  /\ product[p] = "live"
  /\ \A w \in Workers : Taken(w, p) = 0
  /\ product' = [product EXCEPT ![p] = "deleted"]
  /\ UNCHANGED <<legacy, stock, till, worker>>

-----------------------------------------------------------------------------
(* BackfillStockOpeningBalances, at boot *)

BeginBackfill(w) ==
  /\ worker[w] = Free
  /\ Go(w, [pc |-> "backfill", todo |-> {p \in Products :
              product[p] = "live" /\ ~entered[p] /\ legacy[p] # 0}])
  /\ UNCHANGED <<product, legacy, stock, till>>

\* A plain insert: neither the lock nor the ledger is looked at again.
Backfill(w, p) ==
  LET t == worker[w] IN
  /\ t.pc = "backfill" /\ p \in t.todo
  /\ held[p] + legacy[p] <= MaxHeld
  /\ held' = [held EXCEPT ![p] = @ + legacy[p]]
  /\ entered' = [entered EXCEPT ![p] = TRUE]
  /\ Go(w, [t EXCEPT !.todo = @ \ {p}])
  /\ UNCHANGED <<product, legacy, sale, sold, till>>

EndBackfill(w) ==
  /\ worker[w].pc = "backfill" /\ worker[w].todo = {}
  /\ Go(w, Free)
  /\ UNCHANGED <<product, legacy, stock, till>>

-----------------------------------------------------------------------------
(* Tills *)

OpenTills(u) == {t \in TillId : till[t].status = "open" /\ u \in till[t].by}

\* AdminOpenTill: openSessionFor finds none.
BeginOpenTill(w, u) ==
  /\ worker[w] = Free
  /\ OpenTills(u) = {}
  /\ Go(w, [pc |-> "open", by |-> u])
  /\ UNCHANGED <<product, legacy, stock, till>>

\* Where looking the operator up fails, the row names nobody.
StoreTill(w) ==
  /\ worker[w].pc = "open"
  /\ \E t \in TillId, by \in {{}, {worker[w].by}} :
       /\ till[t] = NoTill /\ \A o \in TillId : o < t => till[o] # NoTill
       /\ till' = [till EXCEPT ![t] = [status |-> "open", by |-> by]]
  /\ Go(w, Free)
  /\ UNCHANGED <<product, legacy, stock>>

\* Mutant of BeginCloseTill: a till that is not found is not refused.
BeginCloseTillUnfound(w, t) ==
  /\ worker[w] = Free
  /\ till[t].status # "closed"
  /\ Go(w, [pc |-> "close", till |-> t])
  /\ UNCHANGED <<product, legacy, stock, till>>

\* AdminCloseTill: anybody's till, when it is read open.
BeginCloseTill(w, t) ==
  /\ worker[w] = Free
  /\ till[t].status = "open"
  /\ Go(w, [pc |-> "close", till |-> t])
  /\ UNCHANGED <<product, legacy, stock, till>>

\* The UPDATE does not ask whether the till is still open.
CloseTill(w) ==
  /\ worker[w].pc = "close"
  /\ till' = [till EXCEPT ![worker[w].till].status = "closed"]
  /\ Go(w, Free)
  /\ UNCHANGED <<product, legacy, stock>>

-----------------------------------------------------------------------------
\* A statement fails, the replica dies, or the database breaks a cycle of lock
\* waits: an open transaction is rolled back.
Abort(w) ==
  /\ worker[w] # Free
  /\ Go(w, Free)
  /\ UNCHANGED <<product, legacy, stock, till>>

Begin(w) ==
  \/ \E p \in Products :
       \/ \E units \in Quantities : BeginMovement(w, p, units)
       \/ \E figure \in Figures :
            CreateProduct(w, p, figure) \/ BeginEdit(w, p, figure)
  \/ \E s \in SaleId, t \in TillId, cart \in Carts : BeginSale(w, s, t, cart)
  \/ \E u \in Operators : BeginOpenTill(w, u)
  \/ \E t \in TillId : BeginCloseTill(w, t)
  \/ BeginBackfill(w)

WorkerStep(w) ==
  \/ PostMovement(w) \/ SellLine(w) \/ CommitSale(w) \/ SaveProduct(w)
  \/ CountStock(w) \/ StoreTill(w) \/ CloseTill(w)
  \/ \E p \in Products : Backfill(w, p)
  \/ EndBackfill(w)

Next ==
  \/ \E w \in Workers : Begin(w) \/ WorkerStep(w) \/ Abort(w)
  \/ \E p \in Products : DeleteProduct(p)

Spec == Init /\ [][Next]_cvars

-----------------------------------------------------------------------------
\* "Overselling is the specific failure this exists to prevent": no order of
\* sales, counts, deletions and backfills takes a product below zero
\* (RecordMovement).
NeverOversold == \A p \in Products : held[p] >= 0

PerLine(lines, p) ==
  [i \in DOMAIN lines |-> IF lines[i].product = p THEN lines[i].units ELSE 0]

Units(lines, p) == SumFunction(PerLine(lines, p))

\* "Either half alone is worse than failing outright": what left the shelf in a
\* sale's name is what its lines say, and nothing left in the name of a sale
\* that was never recorded (AdminCreateCounterSale).
SaleIsWhole ==
  \A s \in SaleId, p \in Products :
    sold[s][p] = IF sale[s] = NoSale THEN 0 ELSE Units(sale[s].lines, p)

\* Stock of a deleted product is never drawn on, though a sale may be half way
\* through its lines when the product is deleted (AdminDeleteProduct, and
\* RecordMovement's lock on a live row).
DeletedIsNotSold ==
  [][\A p \in Products : product[p] = "deleted" => held'[p] >= held[p]]_cvars

-----------------------------------------------------------------------------
(* Counter implements ShopFloor *)

billBar == [s \in SaleId |-> IF sale[s] = NoSale THEN <<>> ELSE sale[s].lines]

Shop == INSTANCE ShopFloor WITH
  Goods <- Products, Bills <- Carts, Slots <- SaleId,
  offered <- {p \in Products : product[p] = "live"}, onHand <- held, bill <- billBar

\* However the statements of sales, counts, edits and deletions interleave, and
\* whatever is rolled back, what reaches the tables are whole sales, one at a time,
\* of goods that were there and on offer (AdminCreateCounterSale, RecordMovement).
KeepsShop == Shop!SFSpec

-----------------------------------------------------------------------------
\* A product has been moved by one open transaction at most, which has taken no
\* more of it than there is, and of a live one.
LocksInv ==
  \A p \in Products :
    /\ held[p] >= 0
    /\ \A w \in Workers : Taken(w, p) > 0 =>
         /\ Taken(w, p) <= held[p]
         /\ product[p] = "live"
         /\ \A o \in Workers : Taken(o, p) > 0 => o = w

\* A till that is being closed exists.
ClosingInv ==
  \A w \in Workers : worker[w].pc = "close" => till[worker[w].till] # NoTill

\* A sale that is being made is nobody else's and not recorded yet, and has
\* taken what the lines it has been through say.
UnitsBefore(lines, n, p) == SumFunctionOnSet(PerLine(lines, p), 1 .. n - 1)

SalesInv ==
  \A w \in Workers : worker[w].pc = "sell" =>
    LET t == worker[w] IN
    /\ t.next <= Len(t.lines) + 1
    /\ sale[t.sale] = NoSale
    /\ \A p \in Products : t.taken[p] = UnitsBefore(t.lines, t.next, p)
    /\ \A o \in Workers : worker[o].pc = "sell" /\ worker[o].sale = t.sale => o = w

Inductive == TypeOK /\ LocksInv /\ ClosingInv /\ SalesInv /\ SaleIsWhole
=============================================================================
