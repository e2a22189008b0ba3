# Arcus Invest backend: a TLA+ model

The backend (`src/`) is a Go REST API (Echo, GORM) over PostgreSQL. It runs an
innovation hub (enrolment, student milestones, events) and a trading company
(sales pipeline, contracts, purchasing, stock, a shop counter, receivables and
payables) behind one permission matrix and one maker-checker control.

This directory models the parts whose correctness depends on what concurrent
requests, crashes and retries do to the database. TLC checks the models on
small instances, and TLAPS proves every safety property that the runs check and
find to hold, for all instances.

## How the code runs, and what that means for a model

* One request is one goroutine. Replicas share nothing but the database
  (`cmd/api/main.go`, `docs/SECURITY.md`), so two requests may be anywhere in
  their handlers at once.
* PostgreSQL runs at READ COMMITTED. Outside `DB.Transaction` **each GORM call
  is a transaction of its own**. So a handler is modelled as a process with a
  program counter and locals, and each of its database calls is one action.
* A conditional `UPDATE ... WHERE status = ...` re-evaluates its condition on
  the current row: in the model, guard and assignment are in one action. A read
  followed by an unconditional write is two actions.
* Inside `DB.Transaction` the writes become visible together. `SELECT ... FOR
  UPDATE` holds its row until commit, so a transaction that takes several row
  locks is several actions with explicit lock waits (`Counter`, `Purchasing`). A
  transaction sees its own writes and, at READ COMMITTED, those of others that
  have committed when its statement starts.
* Unique indexes refuse an insert: they are guards of the inserting action.
* A call may fail and a replica may die between two calls. The handler is then
  gone and what it wrote stays (`FailAttempt`, `FailBallot`, `Fail`, `Abort`).
* Some handlers do not look at the error of a read and go on with the zero value.
  These are outcomes of the read and not the end of the handler: a till without
  the name of its operator (`Tills`, `Counter`), a count of nobody or of nothing
  (`Roles`, `Events`, `Contracts`), a signing without an original version
  (`Contracts`). So is a backfill that fails, which `main` logs before it serves.

## Inventory

| component | state | operations | what is hard | what makes it correct |
|---|---|---|---|---|
| Approvals (`handlers/approvals.go`) | rules, requests, decisions, notices | gate, consume, raise, resubmit, approve, reject, rule edits | voters racing, retries racing, crash between vote and status, rules edited under way | N distinct others of the right role; one open request; one write per approval; a request's terms never move |
| Sessions (`services/refresh.go`, `password_reset.go`, `handlers/session.go`) | refresh tokens in families, `token_version`, reset links | login, rotate, logout, logout everywhere, forgot, reset | concurrent rotation, revocation racing an insert, crash after the claim | a chain does not fork; an ended family stays ended; a reset ends every session |
| Stock ledger (`services/stock.go`, `handlers/stock.go`) | signed movements; on-hand is their sum | record movement, backfill | check-then-insert under concurrency, deleted products | never below zero |
| Counter (`handlers/counter.go`) | tills, sales, sale lines | open, sell, close | a transaction over several locks, deadlock, rollback; a till read before a sale joins it | a sale and its movements are whole or absent; no sale of a deleted product; a counted drawer stays reconciled |
| Purchasing (`handlers/purchasing.go`) | orders, lines, receipts | draft, issue, cancel, receive, recost | status and outstanding read outside the transaction | goods come in only for issued orders; the status follows the quantities; an issued order is frozen and approved for what it is worth |
| Landed cost (`services/landedcost.go`, `handlers/purchasing.go`) | charges and shares of a receipt | apportion, book a late charge | rounding, zero weights, ties, two bookings at once | shares sum to the charges, each near its proportion |
| Payables (`handlers/payables.go`) | expenses, settlements | record, edit, delete, settle | settlements racing, an edit or deletion beside a payment | a paid invoice stays, with its total, and is not overpaid |
| Receivables (`handlers/receivables.go`, `handlers.go`) | invoiced deals, payments | mark invoiced, record and remove a payment | the billed total is recomputed from line items that an edit replaces | a debt is on the report until it is paid |
| Contracts and documents (`handlers/signatures.go`, `documents.go`) | contract files with versions and hashes | upload, sign | version = MAX + 1, signing racing an edit | what is signed is what was approved |
| Pipeline (`handlers/handlers.go`) | deals with line items, quotes | create, edit, close, delete, convert | the value the gate sees and the value that is written | a deal is won at a value that was approved |
| Enrolment (`handlers/handlers.go`, `services/auth.go`) | enrolments, invitations, users | enrol, invite, claim | two claims at once, a re-invitation or a deletion beside a claim, expiry | account and enrolment point at each other, or neither exists |
| Milestones and submissions (`handlers/handlers.go`) | milestones, progress, submissions, reports, extensions | upload, review, sign off, reopen | a gate read before the write, an answer taken back, progress counted and written apart | each step follows an accepted one; completion is a mentor's; progress is the share signed off |
| Events (`handlers/handlers.go`, `services/resend.go`, `mail.go`) | events, reservations, broadcasts | reserve, confirm, broadcast | batches that fail or die half way | sent means that everybody got it, once |
| Permissions (`authz/authz.go`, `seed/roles.go`) | role rows; one cached matrix per replica | seed, check, edit role, assign, refresh | half-seeded roles, stale caches, late reloads | nobody is locked out; every cache settles on the rows; a user's role exists |
| Notifications (`services/notify.go`, `handlers/notifications.go`) | notices with dedupe keys, preferences | raise, sweep, e-mail, mark, read | two workers, a crash or error after an e-mail, an address that refuses everything | what is due gets out; marked means mailed; a repeat has a cause |

How they meet: eight handlers (closing and deleting opportunities, recording
payments, deleting and signing contracts, creating and settling expenses,
issuing purchase orders) ask `gate` before they write, and `gate` answers with
a pending request until its approval is spent. Approvals raises notices, as
does the reminder worker's sweep, which every replica runs. A claim creates a
profile with its milestones. A
counter sale, a goods receipt and a product edit all reach stock through
`RecordMovement`. The middleware compares every access token's version with the
users row, which is how a reset or a logout everywhere reaches other replicas.

## Modules

| module | what it is |
|---|---|
| `MakerChecker` | abstract: what an approvals control promises, with no handlers at all |
| `Approvals` | the tables and handlers of `approvals.go` |
| `MCApprovals` | its instances for TLC |
| `ApprovalsProofs` | inductive invariant and safety theorems, and that `Approvals` implements `MakerChecker` |
| `Sums` | what a sum over a finite set comes to: lemmas by induction over its elements |
| `Relay` | abstract: what the sessions of an account promise, with no handlers and no rows |
| `Sessions`, `MCSessions`, `SessionsProofs` | one account's sessions, links and versions; they implement `Relay` |
| `ShopFloor` | abstract: a shop whose sales happen at once or not at all |
| `Counter`, `MCCounter`, `CounterProofs` | stock ledger, counter sales, tills, product edits; they implement `ShopFloor` |
| `Receiving` | abstract: deliveries that come in at once, for orders that were issued |
| `Purchasing`, `MCPurchasing`, `PurchasingProofs` | purchase orders and goods receipts; they implement `Receiving` |
| `LandedCost` | apportioning charges over the lines of a receipt |
| `Contracts` | a contract's files, versions, signing and the evidence of it |
| `Onboarding` | enrolments, invitations, and the accounts claimed from them |
| `Payables` | a supplier invoice and the payments against it |
| `Deals` | deals of the pipeline, and closing them as won |
| `Hub` | a student's milestones, progress, submissions, reports and extensions |
| `Tills` | shifts at the counter and the count of the drawer |
| `Events` | an event, its reservations, and broadcasts in batches |
| `MCBackOffice` | instances of the eight components from `LandedCost` to `Events`, one after the other |
| `TradeProofs` | theorems about `Payables`, `Tills`, `Deals`, `Contracts` and `LandedCost` |
| `PeopleProofs` | theorems about `Hub`, `Events`, `Onboarding` and `Notifications`, and the types of all eight components of `MCBackOffice` together |
| `Notifications`, `MCNotifications` | the reminder worker of every replica, the inbox and the e-mail |
| `Roles`, `MCRoles`, `RolesProofs` | role rows, the matrix every replica caches, seeding, editing and assigning roles |

### Approvals

`rules`, `req`, `decisions` and `notices` are the tables. `attempt[c]` holds the
locals of a handler that asks the gate or resubmits, `ballot[b]` those of a
handler that decides. A requester's path is `BeginAttempt` (match a rule),
`FindLive` (the caller's newest live request), then `Consume` and `Execute`, or
`Raise` and `Announce`; a resubmission ends with `LinkResubmission`. An
approver's path is `BeginDecision` (eligibility as read), `RecordDecision`,
`CountApprovals`, `Finalise`, `Tell`. `Execute` stands for the write of whichever
handler was gated; `uses[i]` counts these writes for request *i*. It is a
history variable, everything else is stored by the program.

A row's id is its place in creation order, so "newest" is the largest id.
`keyed` says that `pending_key` is not NULL; the key itself is the triple
(requester, action, record). Reasons, names and JSON shapes are left out.

`MakerChecker` has one status and one set of assenting people per request and
four acts: ask, assent, settle, spend and perform. The mapping at the end of
`Approvals` reads it off the tables; handlers' locals do not appear in it.

### Sessions

One account, because no statement touches two. `token[i]` is the i-th
`refresh_tokens` row, a family is named after its first token. `worker[w]` is a
handler between two calls: `BeginRefresh`, `Claim`, `ReadOwner`, `Append` is
`RotateRefreshToken`. `access` is the set of versions some access token carries;
such a token passes the middleware while it is the current version. `Redeem` is
the one transaction (claim link, set password, revoke all, bump). An expired row
is refused when it is read and leaves no trace, so there is no clock.

`Relay` sees a family as a baton. The mapping (`batonBar`) says that its live token
carries it, that it is passing while a rotation is between `Claim` and `Append`,
and that with neither it is dropped, which is final. Revocations and resets take
what is carried; they do not reach a baton that is passing, because its next row
does not exist yet (see `SessionsRevoke`).

### Counter

`held[p]` is the sum over a product's committed movements, which is all the code
ever reads of the ledger besides whether there are any (`entered[p]`). A sale's
transaction keeps what it has moved in `worker[w].taken`: those products' rows
are locked (`Waits`) and its own rows are visible to it (`Accepts`). `CommitSale`
publishes; `Abort` and a refusal forget. `sold[s]` is the sum of the movements
that name sale `s`. `Abort` is also what the database does to one of two sales
that wait for each other, which is why no reachable state is stuck: the run
checks deadlock. GORM's `Save` on a row that has been soft-deleted meanwhile
falls back to an upsert that writes `deleted_at` too, so `SaveProduct` makes the
product live again.

`ShopFloor` has no transactions. A sale is one step that takes all of its goods, of
products on offer, or is not made; in the mapping it happens at `CommitSale`.
Everything that a sale does before, and all that is rolled back, is a stutter.

### Purchasing

`order`, `drafts`, `got`, `shelf`, `product` and `asks` are the tables;
`worker[w]` is a handler between two statements. An edit deletes an order's
lines and inserts new ones, so `drafts[o]` keeps every version and a line is
named by its draft and its place in it. Only the last draft is stored; earlier
ones matter because a receipt that was under way may still refer to their lines.

Issuing is `BeginIssue` (the row), `Value` (the lines), `Gate`, `Number` and
`Issue`, or `Mark` when the gate stops it. The gate is the control
`MakerChecker` describes, for one requester: how approvals come about is the
subject of `Approvals`. Receiving is `BeginReceive`, `ReadLines` and
`CheckOutstanding` before the transaction, then one `PostLine` per line (which
takes the product's row lock), `Reload`, `Reread` and `Recount` for the status,
and `CommitReceipt`, which publishes. `Seen` adds a transaction's own receipt to
what has been committed. Numbers are those of one calendar year.

`serial` is a history variable: no two handlers have overlapped so far.
Properties named `...InTurn` are conditional on it, because the code reads the
status, the lines and the count of numbers in statements of their own and
promises nothing for overlapping requests; the ones without it hold always.
They still range over every order of edits, refusals, resubmissions, failures
and part deliveries.

What the comments say of orders without a condition does not survive overlapping
handlers, and one of them not even a single request: a receipt holds each line
against what is outstanding by itself, so one that names a line twice brings in
more than was ordered. `ReceivedWithinOrder`, `NumbersUnbroken`, `CancelledIsEmpty`,
`NothingIsOrphaned` and `PartlyReceivedIsPartly` are those sentences, and each has
a run or a configuration that refutes it (see Runs).

`Receiving` is the dock without transactions: a delivery comes in whole, for an
issued order, against one version of its lines, and what it brings goes onto the
shelf of products still kept. In the mapping it happens at `CommitReceipt`, though
the lines and the status were read long before, and the catalogue may have changed
since. How much may come in is not promised.

### LandedCost

`Apportion` is `ApportionNgwee` in whole ngwee: floor shares, and what is left
goes to the largest remainders, earlier lines first. `Before` is the sort's
order and `HandedOut` says which lines come first in it, so no sort is written
down. Around it stand the two ways charges reach a receipt: with the goods
(`Arrive`) and later (`BeginBooking`, `ReadCharges`, `CommitBooking`, one
transaction that overwrites every share). `orderly` is to bookings what `serial`
is to orders. `LandedBounds` leaves out figures whose product exceeds an int64,
where the code would wrap around.

Two late charges booked at once are each spread without the other, and the later
commit overwrites the shares; so "the shares always add back" (USER-MANUAL.md)
is violated as it stands (`LandedLostCharge`). `SharesStand` has it for bookings in
turn (`SharesAddBack` while `orderly`), and for overlapping ones what is left of
it (`SharesOfOneView`), with the fairness of each share.

### Contracts

One contract, because versions, evidence and numbering are per contract.
`bytes` is what storage has under each key; a file's bytes stand for their hash
too, and `Missing` for an unreadable file and the empty hash. `contract` is the
row with its pointer at the current file, `versions` and `evidence` are the rows
in creation order, `image` is one signer's row of saved images.

A boot runs `BackfillDocumentVersions` (`BeginBackfill`, `CountVersions`,
`RecordLegacy`, `AdoptLegacy`) and then serves; another replica may boot later,
beside handlers. An upload is `SaveFile` (the bytes under a fresh key, and the
next number), `StoreVersion`, `MovePointer`; signing finds the newest version
first and ends with `RecordSignature`, `MarkSigned` and the image. Nothing is a
transaction, so the number, the pointer and the version a record names can be
stale when handlers overlap, or when an upload fails after its version is
stored (`VersionsAgreeInTurn`); what cannot go wrong is `EvidenceStands`. The
approvals gate is passed or not; `Approvals` is the model of it. Titles,
values and dates are left out.

The error paths that go on are there. `main` logs a backfill that fails and serves
all the same (`BackfillFails`; `skipped` remembers it), so that a contract from
before versions may have a file and no version; that file may have no hash
either. A signing that finds no version, or whose query fails, goes on with none
(`FindNewest`), and one whose scan of the numbers fails stores number 1 again
(`SaveFile`). The old image's file may stay in storage (`ForgetImage`). `VersionsStand` and
`EvidenceSurvives` say what holds all the same: after a failed backfill the bytes
that were signed are still in storage, but no version need name them, which is
what `ContractsUnversioned` shows against SECURITY.md.

`docs/SECURITY.md` says that `signed` is reachable only by signing. Updating a
contract refuses the status, creating one takes it, and such a contract has no
record: `born` remembers it, and `EvidenceStands` asks for a record of every other
signed contract.

### Onboarding

`enrolments` and `users` are the rows in creation order; `invitations[e]` is the
one row the unique index leaves room for, and its number stands for its token.
Inviting is `BeginInvite`, `DropInvitation` (the hard delete), `InsertInvitation`.
A claim is `BeginClaim` (the pending row, and its age), `CountExisting`, and one
transaction, `CreateStudent`; of an old invitation it is `MarkExpired`, whose
`Save` may insert the row again when an administrator has just dropped it
(`Saves`). `DeleteUser` is one transaction. An administrator sets any status of
an enrolment, and `GenerateInvitation` does not look at it, although the comment
on `GenerateInvite` speaks of an accepted enrolment.

### Payables

One invoice. `paid` and `payments` are the sum and the number of its settlements,
which is all the code reads of them. Each handler reads the row with its
settlements (`ReadAs`), decides, and writes in a later statement, so two payments
that each fit can together exceed the invoice, and a payment may meet an invoice
that has been deleted; `inTurn` is to these requests what `serial` is to orders.
Each payment may exceed what is owed by half a ngwee, again and again, so the
bound in `PaidInvoiceStandsInTurn` grows with the number of payments.

### Deals

`deals` are the rows with the lists of line items stored for them. An edit is
`BeginEdit` (the row as read, and the gate's answer for what the deal will be
worth), `WriteDeal`, and two statements whose errors nobody looks at (`ClearLines`,
`AddLines`). `granted` are the approvals for closing a deal: how one comes about
is the subject of `Approvals`, and here the approvers may grant any amount. All
open stages are one, and the buying committee is not told apart from the line
items. The gate is asked when a deal becomes won: raising the value of one that
is won already asks nobody.

### Hub

One student's rows. `UpdateMilestone` and `AdminUpdateMilestone` read the row
(`BeginMilestone`, or `BeginRecount` when no status is sent), write it, count the
completed ones and write the percentage, each in a statement of its own whose
error nobody looks at (`Overlook`). `signedOff` remembers what mentors have
decided. An upload is `BeginSubmission` (not once its step is accepted),
`CheckPrevious` (the gate), `StoreUpload`, `InsertSubmission`; a review is one
UPDATE that looks at nothing, so an acceptance can be taken back under an upload
that has passed the gate. `StepsInOrder` therefore speaks of rows that were
accepted at some time (`admitted`), and of earlier ones.

### Tills

A till is opened, named by sales, and closed with a count; closing answers with
the variance in a statement after the UPDATE (`TotalTill`). A sale resolves its
till before its transaction, which `Counter` models; here it is one step that is
taken or not. `shown` remembers the answers, `queued` is to these requests what
`serial` is to orders: overlapping ones can open two tills for one operator, and
can add a sale to a drawer that has been counted.

`AdminOpenTill` does not look at the error of finding its caller and stores a till
without `opened_by_id`. Such a till is open and can be sold into and closed by its
number, but is nobody's own (`named`, `OpenAs`): its operator can open another,
one request after the other (`TillsOpener`). `DrawerReconcilesInTurn` therefore
says of tills that are named that no two open ones have one operator.

### Events

One event. `cap` is what one request to the mail service may name, including the
visible To, so a batch takes one recipient fewer (`PerBatch`); SMTP is the
service that takes any number. A broadcast is stored as queued with its number
of recipients, goes out batch by batch (`SendBatch`, `BatchFails`), and is marked.
`reached` counts what arrived. The list that a batch is cut from is the one read
at the start. A reservation is refused when as many are confirmed as fit;
confirming asks nothing, so more can be confirmed than fit, and no document of
the repository says otherwise. A count or a list of recipients whose query fails
reads as nobody (`Found`): a broadcast to nobody is stored and never sent.

### Notifications

What a sweep selects (windows, ages, roles) is the situation it finds: `renewal`,
`waiting`, `week`. A notice is a user, a matter and a mark, the three parts of a
dedupe key. `task[i]` is where the worker of replica `i` is: `BeginSweep`, one
`Raise` per row, `ReadPending`, then per user `Address` (active, and how they want
e-mail), `Mail` once or per notice, `Mark` and, at the end, `EndPass`. The pass
takes users in no particular order, as a Go map does. An e-mail that fails may
have gone out (`MailFails`), marking may fail, and a replica may die anywhere
(`Crash`); `faults` counts these. `mails` and `muted` are history.

`MarkedWasMailed` and `RepeatsAreAccountedFor` pull in opposite directions: a pass
that marked first would break the one, a pass that never marked the other. A
notice can reach its user once per running replica and once more per fault, and not
more often; that every replica may send it is what `docs/SECURITY.md` warns of.

### Roles

`roleId` and `grant` are the rows of roles and of their permissions; a row's id
is the stamp of the transaction that wrote it, and all rows that the code seeds
have the first, which is enough to tell a row from one that replaced it.
`matrix[i]` is what replica `i` answers from. `task[x]` is a replica's own
goroutine (boot, then the ticker) or a handler that runs on a replica.

`SeedRole`, `SeedWipe` and `SeedGrant` are `seed.Roles`, in the order of a Go
map. A second row for one grant is refused and ends that boot (`Restart`). A
load is `ReadNames`, `ReadPerms` (GORM's preload is a second query) and
`Publish`, so what it publishes may be older than what another reload has
published meanwhile, on the same replica too. `UpdateRole`'s transaction is `ClearRole` and
`ReplaceGrants`: its DELETE removes the rows that it saw, not those another
editor commits while it waits. `solo` is to handlers what `serial` is to orders.

An account here is a role somebody has. `Assignable` is `roleAssignable`, and
staff accounts are those a super admin manages. `DeleteRole` does not look at the
error of counting a role's users: a count that fails reads as nobody and the role
is deleted under them (`CountFails`; `miscounted` remembers it). So
`AssignedRolesExistInTurn` is about handlers in turn whose counts were answered.

## Runs

Each run is `tlc -config <name>.cfg <module>`.

| run | module | checks | expected |
|---|---|---|---|
| `ApprovalsVote` | `MCApprovals` | `FourEyes`, `RequestsHold`, `DecisionIsTold` | holds |
| `ApprovalsSpend` | `MCApprovals` | `TypeOK`, `OneOpenRequest`, `SpentOnce`, refinement `KeepsPromise` | holds |
| `ApprovalsRejectRace` | `MCApprovals` | `RejectionIsDecisive` | violated |
| `Sessions` | `MCSessions` | `TypeOK`, `ChainNeverForks`, `ResetEvicts`, refinement `KeepsRelay` | holds |
| `SessionsRevoke` | `MCSessions` | `FamilyRevokedWhole` | violated |
| `Counter` | `MCCounter` | `TypeOK`, `NeverOversold`, `SaleIsWhole`, refinement `KeepsShop`, no deadlock | holds |
| `Roles` | `MCRoles` | `RolesTypeOK`, `SuperAdminStays`, `SeedingHeals`, `AssignedRolesExistInTurn`, `CachesConverge` | holds |
| `Purchasing` | `MCPurchasing` | `TypeOK`, `OrdersAgreeInTurn`, `ApprovedAsIssuedInTurn`, `ShelfHoldsReceipts`, refinement `KeepsDock` | holds |
| `PurchasingStatus` | `MCPurchasing` | `PartlyReceivedIsPartly` | violated |
| `BackOffice` | `MCBackOffice` | `BackOfficeTypeOK`; `SharesStand`; `EvidenceStands`, `VersionsAgreeInTurn`; `ClaimIsWhole`; `PaidInvoiceStandsInTurn`; `WonAsApprovedInTurn`; `StepsInOrder`, `ProgressIsSignedOffInTurn`; `DrawerReconcilesInTurn`; `SentReachedAll` | holds |
| `ContractsResave` | `MCBackOffice` | `ResavingReplaces` | violated |
| `Notifications` | `MCNotifications` | `NoticesTypeOK`, `MarkedWasMailed`, `RepeatsAreAccountedFor`, `NoticesGetOut` | holds |

Three properties are proved and not run, because a refinement that is run has them
in it: `EndedStaysEnded` (a dropped baton is final in `Relay`), `DeletedIsNotSold` (`Ring`
takes what is on offer) and `GoodsWereOrdered` (`Receive` asks for an issued order).

A property named `...InTurn` says nothing of overlapping requests. It is there for
what a sequence of complete requests may lead to, with failures between and
inside them; what overlapping requests can break is either covered by a property
without the name or shown by a violated run or one of the further configurations.

The largest is `Counter` with 1 637 216 distinct states, then `Sessions` with 724 535 and
`BackOffice` with 649 496, each in under five minutes with two workers;
`Notifications` is the smallest of the passing runs with 78 000.

### Bounds, and why they are enough

* `ApprovalsVote`: one rule, one request that needs two approvals, two approvers
  and two decision slots. Two approvers at once are what every voting race
  needs; a third person is the requester, who tries to vote too. One approver
  may lose the role between reading it and voting.
* `ApprovalsSpend`: two requests, two attempts at once, amounts on either side
  of what was approved, one failure. Two attempts are enough to race for one
  approval or one key; the second request is what a loser raises or a
  resubmission creates.
* `Sessions`: two handlers at once, three tokens (a login and two rotations, or
  two families), one link, one version bump, one failure.
* `Counter`: two handlers, two products so that locks can be taken in opposite
  orders, a cart that names one product twice, two sales, at most two units held. Tills
  without a name are followed up to the first sale (`Explored`): a sale names the
  till it was resolved to, and how that was found makes no difference afterwards.
* `Purchasing`: an order whose worth may grow past the approval threshold by an
  edit, two drafts, and deliveries that bring a line in parts, twice in one
  request, or two lines of which the second may fail. The constraint `Explored`
  keeps two overlapping handlers to one order without failures, and two orders
  (which the numbering needs) to handlers that take turns: no statement but the
  count of numbers reads another order. `PurchasingStatus` needs one order, two
  lines and two receipts.
* `BackOffice`, landed cost: every weight vector of up to three lines with weights up to
  two: all zero, ties, a zero among positive ones, and remainders that leave
  one or two ngwee over. Three charges from {0, 1, 5}, two clerks.
* `Roles`: two replicas, because one alone cannot interfere with another's
  seeding; one built-in role with two grants, so that it can be loaded with half
  of them; one custom role and one account to assign it to; one failure,
  death or count that goes unanswered. `Explored` lets two handlers run only without failures, and at once
  only without a reload beside them: what a reload reads late is explored with
  one handler, what two handlers do to the rows with two.
* `BackOffice`, contracts: two documents of which one can be signed, three files
  and versions, so that a signing can overlap the upload of a replacement; a
  contract made now, or an old one whose file can or cannot be read. Failures and
  saved images are explored while handlers take turns (`Explored`): for safety a
  handler that fails beside another is one that never goes on. Drafts are not
  followed: they do what contracts that were sent do, but sign.
* `BackOffice`, onboarding: two enrolments of one address (the public form takes
  it twice), two invitations, two accounts and two requests at once: enough for
  two claims of one invitation, of two invitations of one person, and for a claim
  beside a re-invitation, an expiry or a deletion. An acceptance that an
  administrator enters is not followed, since no handler reads it.
* `BackOffice`, payables: totals of two to six half ngwee, payments of one (the
  slack), two and five, four of them, by two clerks at once.
* `BackOffice`, deals: one deal with a value below the threshold, at it and above
  it, so that an approval may fall short. Two overlapping edits are where the run
  stops following them (`Explored`), since its property is about requests that
  take turns.
* `BackOffice`, hub: one milestone of each kind (completed by orientation, open),
  two students' requests and a mentor's at once, three papers, so that a row of
  each step can follow one of the step before. Milestones and papers share no
  statement, so `Explored` follows one or the other, and reports and extension
  requests, which nothing reads, one at a time.
* `BackOffice`, tills: two operators, two tills, two sales, up to where two
  requests overlap, since the property is about requests that take turns;
  each till may lack its operator's name.
* `BackOffice`, events: three reservations and services that take three or four
  names: a broadcast of two batches, of which the first is full, and one that
  fits, which is SMTP as well.
* `BackOffice` as a whole: the parts share no state and one moves at a time, so
  they use the same two slots for requests, which are symmetric, and so are the
  two operators, whom nothing tells apart. All values that
  properties order or add up are numbers and are not permuted.
* `Notifications`: one replica with two users, of whom one refuses every e-mail
  and does not look into the app either, a contract and a deal, and one change
  of anything (a date, a week, a preference, an account); or two replicas at one
  user's renewal. One fault each, which may be a crash anywhere. Work that waits
  for mentors is raised like a quiet deal without its week, and is left out.
  Two replicas are what duplicates need; the theorems are for any number.
* The violated runs and the further configurations have only what their
  counterexample needs: one order (two for the numbers), or one component of
  `MCBackOffice` with the others empty.
* `CHECK_DEADLOCK FALSE` where the tables have a bounded number of rows and the
  system may stop at the bound. `Counter` leaves it on: `Abort` is always
  possible for a busy handler, deletions and closings for idle ones, so a stuck
  state would be a handler waiting for a lock nobody can release.

### Fairness

`ApprovalsVote`, `Roles` and `Notifications` use it. In `Notifications` the worker
of every replica is weakly fair: its ticker never stops, a pass has finitely many
rows, and a statement or an e-mail that fails is an outcome too. Nothing is asked
of users, who need not read anything, and a crash is not fair; the worker of a
replica that comes up again starts from `rest`. In `Roles` a replica's
goroutine and a handler that has started are weakly fair: the ticker of
`StartCacheRefresher` never stops, and an edit, a death or a failure is nobody's
duty. In `ApprovalsVote` a handler that has started is
weakly fair, because a goroutine that is not killed reaches its return and none
of its calls waits for another request. Starting a handler is never fair:
nobody is obliged to vote or to retry. A dying replica ends a handler
(`FailBallot`), which is why that run has no failures: a crash between the last
needed vote and the count leaves a signed-off request pending, and its approvers
cannot vote again.

### What the violated runs show

1. `ApprovalsRejectRace`: SECURITY.md and the comment on `AdminRejectRequest`
   say one rejection is decisive. Its vote is stored in one statement and its
   effect in another, and an approval may finalise in between.
2. `SessionsRevoke`: "the entire family is revoked" holds of the rows that exist.
   A rotation that has claimed its token stores a live successor afterwards.
3. `PurchasingStatus`: the status is "derived from the ledger", but by each
   receipt's transaction without the rows of the other. Two receipts of the last
   two lines both write partly received; nothing is outstanding, so no further
   receipt can correct it.
4. `ContractsResave`: "re-saving replaces the previous one". The old image is
   soft-deleted, its row keeps its place in the unique index on the user, and the
   new row is refused, with the error only logged: a signer who saves an image
   twice has none, and can never save one again. No failure and no second
   request is needed.

### Further configurations

These are not among the runs of `PROJECT.json`. Each refutes one more sentence of the
repository in a few seconds, `tlc -config <name>.cfg <module>`: the first three with
one request after the other, the rest with two at once.

| configuration | module | property | what happens |
|---|---|---|---|
| `ContractsUnversioned` | `MCBackOffice` | `OriginalIsKept` | "The unsigned original survives byte-for-byte as its own version" (SECURITY.md). The backfill fails at boot, the replica serves, and a contract from before versions is signed with no version of the original. |
| `TillsOpener` | `MCBackOffice` | `OneTillPerOperatorInTurn` | "One open session per operator" (`counter.go`). The operator's row cannot be read, the till is stored without a name, and the next request opens a second one. |
| `PurchasingOverReceipt` | `MCPurchasing` | `ReceivedWithinOrder` | Every receipt line is checked not to exceed "what is still outstanding". One receipt names a line twice. |
| `PurchasingNumbers` | `MCPurchasing` | `NumbersUnbroken` | Numbers are "a sequence an auditor expects to run unbroken". Two requests issue at once, and count plus one gives two orders the same number or leaves a gap. |
| `PurchasingCancelled` | `MCPurchasing` | `CancelledIsEmpty` | Goods "cannot be un-received by cancelling the paperwork". A receipt commits between the look at what came in and the UPDATE. |
| `PurchasingOrphans` | `MCPurchasing` | `NothingIsOrphaned` | Replacing a draft's lines "can orphan nothing". The order is issued, and its goods are being received, between the look at the status and the edit's transaction. |
| `LandedLostCharge` | `MCBackOffice` | `SharesAddBack` | The shares "always add back to exactly what you were charged" (USER-MANUAL.md). Two bookings each read the charges without the other's. |
| `PayablesOverpaid` | `MCBackOffice` | `PaidWithinTotal` | A test says that a supplier is never paid more than is owed. Two payments each fit. |
| `HubLocked` | `MCBackOffice` | `SignedOffStays` | A milestone completed by a mentor is "locked" for the student. The lock is a look at the row before an UPDATE by id. |

## Proofs

Run `tlapm <module>.tla`. Every obligation is proved; nothing is assumed beyond
the named assumption on the constants that each component's module states
(`BoundsAssumption` in `Approvals`, `SessionBounds`, `CounterBounds`, and so on).
They say that bounds are naturals, that orders, milestones and replicas are
finitely many, amounts and values numbers, carts, orders and deliveries sequences
of positive lines, that the names that stand for "nobody" or "no role" are not
names of anything, that there is room for at least one contract file, that a mail
service takes at least two names, and that super admins are granted the reading of
users. `LandedBounds` asks that a total times a
weight fits an int64, since the code multiplies before it divides. They hold of
any deployment within the bounds on the number of rows.

An invariant of a component says what is true of the rows, and what the handler
at each program counter knows. Where handlers overlap, it knows only what no
other handler can make untrue; where a property is about handlers that take
turns, the invariant adds, under that condition, that at most one is at work and
that what it has read is still so.

**Approvals.** `FourEyes` is not inductive: that a request about to be granted
has its signatures is known only to the handler that counted them. `Inductive`
is `TypeOK` with
- `RowsInv`: a row holds its key exactly while it is pending, no two rows share
  a key, a granted row is signed off, only a consumed row was acted on;
- `VotesInv`: a vote is by somebody else, of the role asked for, and once;
- `AttemptsInv`: a handler about to execute owns its consumed row alone;
- `BallotsInv`: a handler about to grant has counted enough votes, and that
  stays true because votes are never deleted and the count asked for is frozen.

From it follow `TypeCorrect`, `FourEyesHolds`, `OneOpenRequestHolds`,
`SpentOnceHolds` and `RequestsHoldAlways`. `Refinement` maps every action either
to an act of `MakerChecker` or to a stutter: `RecordDecision` of an approval is
an assent, `Raise` asks, `Finalise` grants only what is signed off, `Consume`
spends, `Execute` performs.

**Sessions.** `ChainInv` adds to `ChainNeverForks` that at most one rotation per
family is between claim and insert, and none while a token of it is live. A
claim moves the one live token into the one rotation; an insert moves it back.
`EndedForGood` follows: with neither, nothing creates either. `AccessInv` says that
no access token, stored or about to be handed out by a rotation, is ahead of the
account, so the version that a reset takes is in nobody's token
(`ResetEvictsHolds`).

`RelayIsKept` takes every action to an act of `Relay` or a stutter. `ChainInv` keeps the
baton in one place, and `RotatesTokens` says that a family under rotation has tokens, so
that its baton is not one that nobody has started. A claim is `LetGo` or, if the token
has just gone, a stutter; an insert is `PassTo`; a failure after the claim is `Drop`. A
login, which hands out its access token and stores its row in two statements, is
`Enter` and `Start`.

**Sums.** Stock, sales and landed costs are sums over lines, and the community
modules define a sum by recursion over a set. The library's induction theorems
take a predicate, which these provers cannot instantiate; `ReachesAll` says the
same of a set of numbers, from the well-foundedness of `<`, and `GrowsToAll` of a
set of subsets. With them `Sums` proves what the proofs cite: a sum with one
element more or changed, of a union, of two functions, scaled, bounded, and
zero.

**Counter.** `LocksInv`: what open transactions have taken of a product is taken
by one of them, no more than is held, and of a live product. Then no commit can
go below zero (`NeverOversoldHolds`), and none draws on a deleted product.
`SalesInv` says that an open sale has taken what the lines before `next` come
to, product by product. At its last line that is the whole cart, and the commit
publishes both (`SaleIsWholeHolds`), for carts of any length that name a product
any number of times.

`ShopIsKept` shows `CommitSale` to be one `Ring` of the whole cart. `SalesInv` gives
what was taken, and `LocksInv` that it is there and on offer at the commit, however
long ago each line was checked: nobody else could have moved or deleted what this
transaction had locked. `CartsInv` adds that a sale at work has lines, without which
its commit would be no sale.

**Purchasing.** `PurchasingInv` is
- `RowsInv`: shapes, and what a handler works on exists;
- `ReceiptsInv`: an order open for goods has its number, and so has the order of
  any handler between `BeginReceive` and its commit. No step takes a number
  away, so what the handler read about the order cannot become untrue in the
  one respect that matters, and `GoodsWereOrderedHolds` needs no turns;
- `TurnsInv`: while handlers take turns only one is at work, the status and the
  worth it has read are still so (`Current`), and an order with a number is past
  editing and approved for its worth (`Settled`).

`ApprovedAsIssuedHolds` and `IssuedIsFrozenHolds` follow: a step that touches
lines or a number is an edit or an issue, and its order has none yet.

`ShelfInv` is the ledger's side: an open receipt has moved, of every product, what
the lines of its request so far bring in, and it names lines of a draft that was
stored. A commit then adds the same to `shelf` and to `got`, and
`ShelfHoldsReceiptsHolds` needs no turns either: an edit that replaces the lines
under an open receipt leaves the earlier draft's lines to be counted. `AgreeInv`
adds what a handler in turn has read: the draft, the number that is next, and,
before the commit, that the status it will write is the one its own quantities
call for (`OrdersAgreeHolds`).

`DockIsKept` shows `CommitReceipt` to be one `Receive`. Besides `PurchasingInv` and
`ShelfInv` it needs `ArrivesInv`: an order without a row has no lines, the lines that an
edit is about to insert are ones that may be written, and what an open receipt has
moved is of products still live. `SumAlong` in `Sums` identifies the sum over lines
that `Receive` has in one step with what `PostLine` has added up line by line.

**Landed cost.** That shares add up is a fact about `Apportion`: the floors leave
over no more ngwee than there are lines with a remainder, and `HandedOut` picks
exactly as many lines as are left over, because the order by remainder and place
is total and so the lines are ranked from 0 upwards. `LandedInv` then follows
bookings: the lines bear the apportionment of some set of the charges that has
the latest in it, and, while bookings take turns, of all of them
(`SharesStandHolds`). For any number of lines, weights and charges.

**Payables.** `PayablesInv`: there is money on an invoice exactly if there are
payments, and in turn what a request has found out is still so: an edit keeps
the total of an invoice that was paid in part, a deletion is of one that was not,
and a payment fits what is owed (`PaidInvoiceStandsHolds`).

**Tills.** `TillsInv`: while requests are `queued`, one that is about to open a
till knows that the operator has no named one open, one that is about to sell or to
close has an open till, and one that is about to total has a closed one.
`DrawersStand` is part of it: open tills with a name have operators of their own. The
variance that was shown is then still the difference of the count and the sales
(`DrawerReconcilesHolds`).

**Deals.** `DealsInv`: in turn, a request about to write a won deal at a value
of the threshold or above has an approval for it (`WonAsApprovedHolds`).

**Contracts.** `ContractsInv` is `ContractStands` (rows, and a record for every
contract signed since) with what each desk knows: the bytes that a signing has
stamped are those of a stored version, and the version its record will name is
stored with the hash of what was stamped; or it has found no version, after a
backfill that failed or a query that did. Rows and bytes are only appended. No
turns are needed, as a stale number is still the number of a stored version
(`EvidenceStandsHolds`). `BootsFirst` is there for the backfill: before a
replica serves, a legacy file is the only one, and once one has served without
its backfill (`skipped`) the file's bytes stay under their key. `AgreeInv` is the version in
turn, without failures: where the handler at work is between storing a version
and moving the pointer, and that else the pointer is at the latest
(`VersionsAgreeHolds`).

**Onboarding.** `OnboardingInv` is `Linked`: account and enrolment point at each
other, and a live account holds the address of its enrolment. The last part is what
makes it inductive: a second claim of one enrolment would need the address
again, and the unique index on addresses refuses it. Requests know nothing that
matters (`ClaimIsWholeHolds`).

**Hub.** `HubInv` says that every paper handed in for a step has its stored
file and an earlier admitted paper of the step before, and the same of every
request past the gate, which stays true because rows are only appended and
`admitted` only grows. For progress `ProgressInv` follows one request through
its statements while requests are `smooth`: what it has yet to write, has
written, or has counted.

**Events.** `CastInv`: while a broadcast is being sent, exactly the recipients
before `start` have been reached, once; it has one sender; a queued one without a
sender has reached nobody twice. With `PerBatch >= 1` the batches meet without a
gap or an overlap, for every capacity and number of recipients.

**Notifications.** `NoticesInv` counts. Until a notice is marked, its e-mails
are at most the faults plus the replicas that have sent it and not yet marked
it. Once it is marked, its e-mails and the replicas that still owe it an e-mail
from an older read are at most the faults plus the running replicas. Marking
turns the first into the second, because every replica has either done it or
may owe it. `MarkedWasMailedHolds` and `RepeatsAreAccountedForHolds` follow,
for any number of replicas, users and faults.

**Roles.** `RolesInv` adds to the types
- `SuperAdminStays` itself, which holds of the matrix a replica starts with and of
  every one it loads, because a load without the grant is not published;
- `SeedingInv`: a row that a replica is seeding exists, a built-in role never has a
  grant that the code does not list, and what it lacks some replica that has
  not come through its boot has still to write (`PendingOrDone`). A boot that fails
  on a duplicate is run again, so the duty is never lost (`SeedingHealsHolds`);
- `InTurnInv`: in turn, and while no count of users has failed, a role about to be
  given can be looked up, and nobody has one that is about to be dropped
  (`AssignedRolesExistHolds`). Without the second condition it is false.

**Types.** `BackOfficeTypesHold` joins the types of eight components. `PartsRun` says that
a behaviour of the run is one of each component, since every step is a step of one
part and leaves the variables of the others alone; then each component's own
theorem applies. Three of the types take an argument. `ShapeInv` (`Contracts`) rests on
the number of a new version never being above its place (`NextVersionThere`), `SheetInv`
(`Hub`) on every percentage coming from a count of the milestones, and `GuestInv`
(`Events`) on no broadcast having more recipients than there are reservations, so the
types bound what is stored. One attempt failed
for a reason: a contract may start with a file, so with room for none the type was
false, and `ContractBounds` now asks for room for one.

Only model-checked: the three leads-to properties (`DecisionIsTold`,
`CachesConverge`, `NoticesGetOut`; liveness is outside the prover) and the violated
properties.

## Plan

Order, most important first:

1. `Approvals` with `MakerChecker`: done, proved, refinement proved.
2. `Sessions`: done, proved.
3. `Counter`: done, proved.
4. `Purchasing` and `LandedCost`: done, proved.
5. `Payables` and `Deals`: done, proved.
6. `Contracts`: done, proved.
7. `Onboarding`, `Hub` and `Events`: done, proved.
8. `Roles`: done, its safety proved.
9. `Notifications`: done, its safety proved.
10. `Tills`: done, proved.

11. `ShopFloor`, `Receiving` and `Relay`, and that `Counter`, `Purchasing` and `Sessions`
    implement them: done, proved.
12. The types of every component: done, proved.

What is left: `Approvals` with one concrete gated handler in place of `Execute` (signing,
or issuing an order in place of `Purchasing`'s own gate).

## Not modelled, and why

* Receivables: marking a deal as invoiced and recording or removing a payment
  are single statements that no other handler's control depends on; the aged
  report and the outstanding amount are computed when read, from dates and
  floating-point sums.
* Sourcing policy and job costing: sums and thresholds over quotes and
  movements, computed when read.
* Organisations, grades, probabilities and the engagement log of the pipeline,
  profiles, comments, and the public site: rows written by one statement and
  read by nobody else's guard.
* The audit trail, which appends one row after a mutation; mail, AI and storage
  adapters, and stamping PDFs: I/O or rendering. What a failing e-mail or upload
  does to the tables is in `Notifications`, `Events`, `Hub` and `Contracts`.
* Routing, configuration and migrations are wiring; what boot does to data is in
  `Counter` (the stock backfill), `Contracts` (the version backfill) and `Roles`.
* Authentication of a request (signatures, hashing, rate limits): a handler runs
  for a caller who was let in.
