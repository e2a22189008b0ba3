------------------------------ MODULE Approvals ------------------------------
(***************************************************************************)
(* Maker-checker approvals (src/internal/handlers/approvals.go).           *)
(*                                                                         *)
(* A gated handler asks the gate before it writes.  The gate matches a     *)
(* rule, looks for the caller's live request, spends it when approved, or  *)
(* raises a fresh one.  Approvers vote on requests; the requester retries. *)
(* Every database statement commits by itself, so each statement of a      *)
(* handler is one action here and handlers interleave between them.        *)
(* A statement may fail, and a replica may die, between any two of them.   *)
(***************************************************************************)
EXTENDS Integers, FiniteSets

CONSTANTS
  Users,          \* staff accounts
  Roles,          \* their roles
  DeciderRoles,   \* roles authz lets update approvals
  Actions,        \* gated actions
  Entities,       \* records the actions are taken on
  Amounts,        \* values of an attempted action
  Floors,         \* min_amount values an administrator sends
  Counts,         \* required_count values an administrator sends
  Movable,        \* users whose role an administrator may change
  Attempts,       \* slots for requester handlers running at once
  Ballots,        \* slots for approver handlers running at once
  MaxRules,       \* bound: rules ever created
  MaxRequests,    \* bound: requests ever raised
  MaxFaults       \* bound: failing statements and dying replicas

ASSUME BoundsAssumption ==
  /\ MaxRules \in Nat /\ MaxRequests \in Nat /\ MaxFaults \in Nat
  /\ Amounts \subseteq Nat /\ Floors \subseteq Nat /\ Counts \subseteq Nat
  /\ DeciderRoles \subseteq Roles /\ Movable \subseteq Users

VARIABLES
  rules,      \* approval_rules rows
  role,       \* role[u]: the role column of user u
  req,        \* req[i]: the i-th approval_requests row, in created_at order
  decisions,  \* approval_decisions rows
  notices,    \* notifications rows about approvals
  attempt,    \* attempt[c]: locals of a handler calling gate or resubmitting
  ballot,     \* ballot[b]: locals of a handler approving or rejecting
  uses,       \* uses[i]: how often a gated write ran on request i's approval
  faults      \* failures so far

vars == <<rules, role, req, decisions, notices, attempt, ballot, uses, faults>>

ReqId == 1 .. MaxRequests
NoReq == 0
Verdicts == {"approved", "rejected"}
Required == (Counts \ {0}) \cup {1}
LiveStatuses == {"pending", "approved", "rejected"}

Rule == [id : 1 .. MaxRules, action : Actions, floor : Floors,
         required : Required, role : Roles, active : BOOLEAN]

Request == [action : Actions, entity : Entities, requester : Users,
            amount : Amounts, required : Required, role : Roles,
            status : LiveStatuses \cup {"consumed"},
            keyed : BOOLEAN,            \* pending_key is not NULL
            supersedes : ReqId \cup {NoReq}]
NoRequest == [status |-> "none"]

Decision == [req : ReqId, approver : Users, role : Roles, verdict : Verdicts]

Notice == [to : Users, req : ReqId, kind : {"asked"} \cup Verdicts]

Attempt == [pc : {"find", "consume", "raise", "announce", "link", "execute"},
            user : Users, action : Actions, entity : Entities,
            amount : Amounts, required : Required, role : Roles,
            req : ReqId \cup {NoReq},   \* request found, or raised
            prev : ReqId \cup {NoReq}]  \* request being resubmitted
Ballot == [pc : {"vote", "count", "finalise", "tell"},
           user : Users, role : Roles, req : ReqId, verdict : Verdicts]
Idle == [pc |-> "idle"]

TypeOK ==
  /\ rules \subseteq Rule
  /\ role \in [Users -> Roles]
  /\ req \in [ReqId -> Request \cup {NoRequest}]
  /\ decisions \subseteq Decision
  /\ notices \subseteq Notice
  /\ attempt \in [Attempts -> Attempt \cup {Idle}]
  /\ ballot \in [Ballots -> Ballot \cup {Idle}]
  /\ uses \in [ReqId -> Nat]
  /\ faults \in 0 .. MaxFaults

Init ==
  /\ rules = {}
  /\ role \in [Users -> Roles]
  /\ req = [i \in ReqId |-> NoRequest]
  /\ decisions = {}
  /\ notices = {}
  /\ attempt = [c \in Attempts |-> Idle]
  /\ ballot = [b \in Ballots |-> Idle]
  /\ uses = [i \in ReqId |-> 0]
  /\ faults = 0

-----------------------------------------------------------------------------
(* Reading the tables *)

Raised(i) == req[i] # NoRequest

\* Active rules for the action whose floor the amount clears.
Covering(a, m) == {r \in rules : r.active /\ r.action = a /\ r.floor <= m}

\* matchRule: the highest floor wins, then the smaller primary key.
MatchRule(a, m) ==
  {r \in Covering(a, m) : \A s \in Covering(a, m) :
      s.floor < r.floor \/ (s.floor = r.floor /\ r.id <= s.id)}

SameKey(i, u, a, e) ==
  /\ Raised(i)
  /\ req[i].requester = u /\ req[i].action = a /\ req[i].entity = e

Live(u, a, e) ==
  {i \in ReqId : SameKey(i, u, a, e) /\ req[i].status \in LiveStatuses}

\* The first row of Live by created_at, newest first.
Latest(i, u, a, e) ==
  i \in Live(u, a, e) /\ \A j \in Live(u, a, e) : j <= i

\* Mutant of KeyTaken: no unique index on pending_key.
KeyNeverTaken(u, a, e) == FALSE

\* The unique index on pending_key would refuse this composite.
KeyTaken(u, a, e) == \E i \in ReqId : SameKey(i, u, a, e) /\ req[i].keyed

Votes(i) == {d \in decisions : d.req = i}
Approvals(i) == {d \in Votes(i) : d.verdict = "approved"}

-----------------------------------------------------------------------------
(* Rule administration and role changes *)

\* Mutant of CreateRule: an omitted count is stored as sent.
CreateRuleAsSent(id, a, floor, n, r) ==
  /\ r \in DeciderRoles
  /\ \A s \in rules : s.id # id
  /\ rules' = rules \cup
       {[id |-> id, action |-> a, floor |-> floor, required |-> n,
         role |-> r, active |-> TRUE]}
  /\ UNCHANGED <<role, req, decisions, notices, attempt, ballot, uses, faults>>

\* AdminCreateApprovalRule; an omitted count means one.
CreateRule(id, a, floor, n, r) ==
  /\ r \in DeciderRoles
  /\ \A s \in rules : s.id # id
  /\ rules' = rules \cup
       {[id |-> id, action |-> a, floor |-> floor,
         required |-> IF n = 0 THEN 1 ELSE n, role |-> r, active |-> TRUE]}
  /\ UNCHANGED <<role, req, decisions, notices, attempt, ballot, uses, faults>>

\* AdminUpdateApprovalRule: the action of a rule never changes.
UpdateRule(old, floor, n, r, active) ==
  /\ old \in rules
  /\ n >= 1
  /\ r \in DeciderRoles
  /\ rules' = (rules \ {old}) \cup
       {[old EXCEPT !.floor = floor, !.required = n, !.role = r,
                    !.active = active]}
  /\ UNCHANGED <<role, req, decisions, notices, attempt, ballot, uses, faults>>

\* AdminUpdateUser, as far as approvals see it: the role column.
ChangeRole(u, r) ==
  /\ role' = [role EXCEPT ![u] = r]
  /\ UNCHANGED <<rules, req, decisions, notices, attempt, ballot, uses, faults>>

-----------------------------------------------------------------------------
(* The gate, as the requester's handler runs it *)

Step(c, next) == attempt' = [attempt EXCEPT ![c] = next]
GoTo(c, pc) == Step(c, [attempt[c] EXCEPT !.pc = pc])

\* gate up to matchRule.  An action no rule covers runs ungated and leaves
\* no trace in these tables.
BeginAttempt(c, u, a, e, m) ==
  /\ attempt[c] = Idle
  /\ \E r \in MatchRule(a, m) :
       Step(c, [pc |-> "find", user |-> u, action |-> a, entity |-> e,
                amount |-> m, required |-> r.required, role |-> r.role,
                req |-> NoReq, prev |-> NoReq])
  /\ UNCHANGED <<rules, role, req, decisions, notices, ballot, uses, faults>>

\* Mutant of FindLive: an approval that is found is not spent.
FindLiveUnspent(c) ==
  LET t == attempt[c] IN
  /\ t.pc = "find"
  /\ \/ /\ Live(t.user, t.action, t.entity) = {}
        /\ GoTo(c, "raise")
     \/ \E i \in ReqId :
          /\ Latest(i, t.user, t.action, t.entity)
          /\ IF req[i].status = "approved"
             THEN Step(c, [t EXCEPT !.pc = "execute", !.req = i])
             ELSE Step(c, Idle)
  /\ UNCHANGED <<rules, role, req, decisions, notices, ballot, uses, faults>>

\* gate: the newest live request of this caller decides.  A pending or a
\* rejected one blocks: the handler answers 409 and ends.
FindLive(c) ==
  LET t == attempt[c] IN
  /\ t.pc = "find"
  /\ \/ /\ Live(t.user, t.action, t.entity) = {}
        /\ GoTo(c, "raise")
     \/ \E i \in ReqId :
          /\ Latest(i, t.user, t.action, t.entity)
          /\ IF req[i].status = "approved"
             THEN Step(c, [t EXCEPT !.pc = "consume", !.req = i])
             ELSE Step(c, Idle)
  /\ UNCHANGED <<rules, role, req, decisions, notices, ballot, uses, faults>>

\* Mutant of Consume: the UPDATE trusts the status that was read.
ConsumeAsRead(c) ==
  LET t == attempt[c] IN
  /\ t.pc = "consume"
  /\ req' = [req EXCEPT ![t.req].status = "consumed"]
  /\ GoTo(c, "execute")
  /\ UNCHANGED <<rules, role, decisions, notices, ballot, uses, faults>>

\* consume: one conditional UPDATE, on the status and the amount of the row
\* as they are now.  A loser falls through to raise.
Consume(c) ==
  LET t == attempt[c] IN
  /\ t.pc = "consume"
  /\ IF req[t.req].status = "approved" /\ req[t.req].amount >= t.amount
     THEN /\ req' = [req EXCEPT ![t.req].status = "consumed"]
          /\ GoTo(c, "execute")
     ELSE /\ Step(c, [t EXCEPT !.pc = "raise", !.req = NoReq])
          /\ UNCHANGED req
  /\ UNCHANGED <<rules, role, decisions, notices, ballot, uses, faults>>

\* raise: the row carries its own copy of the rule's count and role.  The
\* unique pending_key refuses a second open row, which ends the handler.
Raise(c) ==
  LET t == attempt[c] IN
  /\ t.pc = "raise"
  /\ \/ /\ KeyTaken(t.user, t.action, t.entity)
        /\ Step(c, Idle)
        /\ UNCHANGED req
     \/ /\ ~KeyTaken(t.user, t.action, t.entity)
        /\ \E i \in ReqId :
             /\ ~Raised(i) /\ \A j \in ReqId : j < i => Raised(j)
             /\ req' = [req EXCEPT ![i] =
                  [action |-> t.action, entity |-> t.entity,
                   requester |-> t.user, amount |-> t.amount,
                   required |-> IF t.required < 1 THEN 1 ELSE t.required,
                   role |-> t.role, status |-> "pending", keyed |-> TRUE,
                   supersedes |-> NoReq]]
             /\ Step(c, [t EXCEPT !.pc = "announce", !.req = i])
  /\ UNCHANGED <<rules, role, decisions, notices, ballot, uses, faults>>

\* NotifyApprovalPending: everyone who could decide, never the requester.
\* A failing insert is only logged, so some may go untold.
Announce(c) ==
  LET t == attempt[c]
      eligible == {u \in Users : role[u] = t.role /\ u # t.user}
  IN
  /\ t.pc = "announce"
  /\ \E told \in SUBSET eligible :
       /\ told # eligible => faults < MaxFaults
       /\ faults' = faults + (IF told = eligible THEN 0 ELSE 1)
       /\ notices' = notices \cup
            {[to |-> u, req |-> t.req, kind |-> "asked"] : u \in told}
  /\ IF t.prev = NoReq THEN Step(c, Idle) ELSE GoTo(c, "link")
  /\ UNCHANGED <<rules, role, req, decisions, ballot, uses>>

\* The gated handler's own write, allowed by the gate.
Execute(c) ==
  LET t == attempt[c] IN
  /\ t.pc = "execute"
  /\ uses' = [uses EXCEPT ![t.req] = @ + 1]
  /\ Step(c, Idle)
  /\ UNCHANGED <<rules, role, req, decisions, notices, ballot, faults>>

\* AdminResubmitRequest up to matchRule: the rule is matched anew.
BeginResubmit(c, u, i) ==
  /\ attempt[c] = Idle
  /\ Raised(i)
  /\ req[i].requester = u
  /\ req[i].status = "rejected"
  /\ \E r \in MatchRule(req[i].action, req[i].amount) :
       Step(c, [pc |-> "raise", user |-> u, action |-> req[i].action,
                entity |-> req[i].entity, amount |-> req[i].amount,
                required |-> r.required, role |-> r.role,
                req |-> NoReq, prev |-> i])
  /\ UNCHANGED <<rules, role, req, decisions, notices, ballot, uses, faults>>

\* AdminResubmitRequest: supersedes_id is a separate UPDATE.
LinkResubmission(c) ==
  LET t == attempt[c] IN
  /\ t.pc = "link"
  /\ req' = [req EXCEPT ![t.req].supersedes = t.prev]
  /\ Step(c, Idle)
  /\ UNCHANGED <<rules, role, decisions, notices, ballot, uses, faults>>

-----------------------------------------------------------------------------
(* Deciding, as the approver's handler runs it *)

Move(b, next) == ballot' = [ballot EXCEPT ![b] = next]

\* Mutant of Eligible: one's own request is not excluded.
EligibleOwn(u, i) ==
  Raised(i) /\ req[i].status = "pending" /\ req[i].role = role[u]

\* eligibleToDecide, on the row and the role as read: pending, not one's own,
\* and the role the request names.
Eligible(u, i) ==
  /\ Raised(i)
  /\ req[i].status = "pending"
  /\ req[i].requester # u
  /\ req[i].role = role[u]

BeginDecision(b, u, i, v) ==
  /\ ballot[b] = Idle
  /\ Eligible(u, i)
  /\ Move(b, [pc |-> "vote", user |-> u, role |-> role[u], req |-> i,
              verdict |-> v])
  /\ UNCHANGED <<rules, role, req, decisions, notices, attempt, uses, faults>>

HasVoted(u, i) == \E d \in decisions : d.req = i /\ d.approver = u

\* recordDecision: the unique index on (request, approver) refuses a second
\* vote.  The status of the row is not looked at again.
RecordDecision(b) ==
  LET t == ballot[b] IN
  /\ t.pc = "vote"
  /\ IF HasVoted(t.user, t.req)
     THEN Move(b, Idle) /\ UNCHANGED decisions
     ELSE /\ decisions' = decisions \cup
               {[req |-> t.req, approver |-> t.user, role |-> t.role,
                 verdict |-> t.verdict]}
          /\ Move(b, [t EXCEPT !.pc =
               IF t.verdict = "approved" THEN "count" ELSE "finalise"])
  /\ UNCHANGED <<rules, role, req, notices, attempt, uses, faults>>

\* AdminApproveRequest: the count against the request's own required_count.
CountApprovals(b) ==
  LET t == ballot[b] IN
  /\ t.pc = "count"
  /\ IF Cardinality(Approvals(t.req)) >= req[t.req].required
     THEN Move(b, [t EXCEPT !.pc = "finalise"])
     ELSE Move(b, Idle)
  /\ UNCHANGED <<rules, role, req, decisions, notices, attempt, uses, faults>>

\* Mutant of Finalise: the UPDATE does not ask for a pending row.
FinaliseAnyway(b) ==
  LET t == ballot[b] IN
  /\ t.pc = "finalise"
  /\ req' = [req EXCEPT ![t.req].status = t.verdict, ![t.req].keyed = FALSE]
  /\ Move(b, [t EXCEPT !.pc = "tell"])
  /\ UNCHANGED <<rules, role, decisions, notices, attempt, uses, faults>>

\* Mutant of Finalise: the winner of the UPDATE tells nobody.
FinaliseUntold(b) ==
  LET t == ballot[b] IN
  /\ t.pc = "finalise"
  /\ IF req[t.req].status = "pending"
     THEN /\ req' = [req EXCEPT ![t.req].status = t.verdict,
                                ![t.req].keyed = FALSE]
          /\ Move(b, Idle)
     ELSE /\ UNCHANGED req
          /\ Move(b, [t EXCEPT !.pc = "tell"])
  /\ UNCHANGED <<rules, role, decisions, notices, attempt, uses, faults>>

\* finalise: a conditional UPDATE that also frees the pending_key.  A handler
\* whose UPDATE touched no row goes on to notify all the same.
Finalise(b) ==
  LET t == ballot[b] IN
  /\ t.pc = "finalise"
  /\ IF req[t.req].status = "pending"
     THEN req' = [req EXCEPT ![t.req].status = t.verdict,
                             ![t.req].keyed = FALSE]
     ELSE UNCHANGED req
  /\ Move(b, [t EXCEPT !.pc = "tell"])
  /\ UNCHANGED <<rules, role, decisions, notices, attempt, uses, faults>>

Told(i) == \E n \in notices : n.req = i /\ n.kind \in Verdicts

\* NotifyApprovalDecided: one notice per request whatever the verdict, since
\* the dedupe key does not name it.
Tell(b) ==
  LET t == ballot[b] IN
  /\ t.pc = "tell"
  /\ notices' = IF Told(t.req) THEN notices ELSE notices \cup
       {[to |-> req[t.req].requester, req |-> t.req, kind |-> t.verdict]}
  /\ Move(b, Idle)
  /\ UNCHANGED <<rules, role, req, decisions, attempt, uses, faults>>

-----------------------------------------------------------------------------
(* A statement fails or the replica dies: the handler is gone, what it has *)
(* written stays.                                                          *)

Fault == faults < MaxFaults /\ faults' = faults + 1

FailAttempt(c) ==
  /\ attempt[c] # Idle
  /\ Fault
  /\ Step(c, Idle)
  /\ UNCHANGED <<rules, role, req, decisions, notices, ballot, uses>>

FailBallot(b) ==
  /\ ballot[b] # Idle
  /\ Fault
  /\ Move(b, Idle)
  /\ UNCHANGED <<rules, role, req, decisions, notices, attempt, uses>>

-----------------------------------------------------------------------------
Administer ==
  \/ \E id \in 1 .. MaxRules, a \in Actions, floor \in Floors, n \in Counts,
        r \in Roles : CreateRule(id, a, floor, n, r)
  \/ \E old \in rules, floor \in Floors, n \in Counts, r \in Roles,
        active \in BOOLEAN : UpdateRule(old, floor, n, r, active)
  \/ \E u \in Movable, r \in Roles : ChangeRole(u, r)

AttemptStep(c) ==
  \/ FindLive(c) \/ Consume(c) \/ Raise(c) \/ Announce(c)
  \/ Execute(c) \/ LinkResubmission(c)

BallotStep(b) ==
  RecordDecision(b) \/ CountApprovals(b) \/ Finalise(b) \/ Tell(b)

Next ==
  \/ Administer
  \/ \E c \in Attempts :
       \/ \E u \in Users, a \in Actions, e \in Entities, m \in Amounts :
            BeginAttempt(c, u, a, e, m)
       \/ \E u \in Users, i \in ReqId : BeginResubmit(c, u, i)
       \/ AttemptStep(c)
       \/ FailAttempt(c)
  \/ \E b \in Ballots :
       \/ \E u \in Users, i \in ReqId, v \in Verdicts :
            BeginDecision(b, u, i, v)
       \/ BallotStep(b)
       \/ FailBallot(b)

Spec == Init /\ [][Next]_vars

\* A handler that has started runs to its end unless it fails; nobody is
\* obliged to start one.
FairSpec ==
  /\ Spec
  /\ \A c \in Attempts : WF_vars(AttemptStep(c))
  /\ \A b \in Ballots : WF_vars(BallotStep(b))

-----------------------------------------------------------------------------
(* What the control promises *)

Granted(i) == Raised(i) /\ req[i].status \in {"approved", "consumed"}
Decided(i) == Raised(i) /\ req[i].status # "pending"
Signers(i) == {d.approver : d \in Approvals(i)}
SignedOff(i) ==
  /\ Raised(i)
  /\ Cardinality(Approvals(i)) >= req[i].required

\* "RequiredCount means N distinct people", none of them the requester, each
\* holding the role the request was addressed to when they voted; whatever
\* became of rules, roles and handlers meanwhile (eligibleToDecide, the unique
\* decision index, finalise).
FourEyes ==
  \A i \in ReqId : Granted(i) =>
    /\ Cardinality(Signers(i)) >= req[i].required
    /\ req[i].required >= 1
    /\ req[i].requester \notin Signers(i)
    /\ \A d \in Approvals(i) : d.role = req[i].role

\* A requester has one open request per action and record, although raise is
\* reached by gate, by the loser of a race in consume, and by resubmission.
OneOpenRequest ==
  \A i, j \in ReqId :
    /\ Raised(i) /\ Raised(j)
    /\ req[i].status = "pending" /\ req[j].status = "pending"
    /\ req[i].requester = req[j].requester
    /\ req[i].action = req[j].action /\ req[i].entity = req[j].entity
    => i = j

\* One approval admits one write, by whom it was granted to, on the record it
\* was granted for, for no larger amount (consume's conditional UPDATE).
SpentOnce ==
  /\ \A i \in ReqId : uses[i] <= 1 /\ (uses[i] = 1 => Granted(i))
  /\ \A c \in Attempts : attempt[c].pc = "execute" =>
       LET t == attempt[c] IN
       /\ SameKey(t.req, t.user, t.action, t.entity)
       /\ t.amount <= req[t.req].amount
       /\ req[t.req].status = "consumed"
       /\ uses[t.req] = 0
       /\ \A o \in Attempts : attempt[o].pc = "execute"
                              /\ attempt[o].req = t.req => o = c

\* What a raised request asks for never changes, rule edits included, and its
\* status only moves pending -> approved -> consumed or pending -> rejected.
Frozen(i) ==
  /\ req'[i].action = req[i].action
  /\ req'[i].entity = req[i].entity
  /\ req'[i].requester = req[i].requester
  /\ req'[i].amount = req[i].amount
  /\ req'[i].required = req[i].required
  /\ req'[i].role = req[i].role
StatusMoves ==
  {<<"pending", "approved">>, <<"pending", "rejected">>,
   <<"approved", "consumed">>}
Holds(i) ==
  Raised(i) =>
    /\ Raised(i)'
    /\ Frozen(i)
    /\ \/ req'[i].status = req[i].status
       \/ <<req[i].status, req'[i].status>> \in StatusMoves
RequestsHold == [][\A i \in ReqId : Holds(i)]_vars

\* "Once RequiredCount distinct approvers have signed off, marks the request
\* approved" (AdminApproveRequest), which "closes the loop back to whoever raised
\* the request" (NotifyApprovalDecided): what is signed off does not stay open, nor
\* what is decided unannounced.
DecisionIsTold ==
  \A i \in ReqId : (SignedOff(i) ~> Decided(i)) /\ (Decided(i) ~> Told(i))

\* "One rejection is decisive even when RequiredCount is higher"
\* (AdminRejectRequest): no request with a recorded rejection is approved.
RejectionIsDecisive ==
  [][\A i \in ReqId :
       (\E d \in Votes(i) : d.verdict = "rejected") /\ ~Granted(i)
       => ~Granted(i)']_vars

-----------------------------------------------------------------------------
(* Approvals implements MakerChecker *)

intentBar ==
  [i \in ReqId |->
     IF Raised(i)
     THEN [maker |-> req[i].requester,
           matter |-> <<req[i].action, req[i].entity>>,
           size |-> req[i].amount, quorum |-> req[i].required]
     ELSE [quorum |-> 0]]
assentBar == [i \in ReqId |-> Signers(i)]
Fate == [none |-> "unasked", pending |-> "open", approved |-> "granted",
         rejected |-> "refused", consumed |-> "spent"]
fateBar == [i \in ReqId |-> Fate[req[i].status]]

Promise == INSTANCE MakerChecker WITH
  People <- Users, Matters <- Actions \X Entities, Sizes <- Amounts, Quorums <- Required,
  Ids <- ReqId, intent <- intentBar, assent <- assentBar, fate <- fateBar,
  performed <- uses

\* Whatever the handlers do, in whatever order, what reaches the tables is a
\* maker-checker control: asked, assented to by enough others, granted, spent
\* once, acted on once (gate, raise, recordDecision, finalise, consume).
KeepsPromise == Promise!MCSpec

-----------------------------------------------------------------------------
(* The inductive invariant behind the safety properties *)

\* Rows: open ones, and only they, hold their key; decided ones were signed
\* off; only a consumed one has been acted on.
RowsInv ==
  /\ \A i \in ReqId : Raised(i) =>
       /\ req[i].required >= 1
       /\ req[i].keyed <=> req[i].status = "pending"
  /\ \A i, j \in ReqId :
       /\ Raised(i) /\ Raised(j)
       /\ req[i].keyed /\ req[j].keyed
       /\ req[i].requester = req[j].requester
       /\ req[i].action = req[j].action /\ req[i].entity = req[j].entity
       => i = j
  /\ \A i \in ReqId : Granted(i) => SignedOff(i)
  /\ \A i \in ReqId :
       uses[i] = 0 \/ (uses[i] = 1 /\ Raised(i) /\ req[i].status = "consumed")

\* Votes: cast by an eligible approver, once each.
VotesInv ==
  /\ IsFiniteSet(decisions)
  /\ \A d \in decisions :
       /\ Raised(d.req)
       /\ d.approver # req[d.req].requester
       /\ d.role = req[d.req].role
  /\ \A d, e \in decisions : d.req = e.req /\ d.approver = e.approver => d = e

\* Handlers: what a step relies on that an earlier step has read.
AttemptsInv ==
  \A c \in Attempts :
    LET t == attempt[c] IN
    /\ t.pc = "consume" =>
         t.req \in ReqId /\ SameKey(t.req, t.user, t.action, t.entity)
    /\ t.pc \in {"announce", "link"} => t.req \in ReqId /\ Raised(t.req)
    /\ t.pc = "execute" =>
         /\ t.req \in ReqId
         /\ SameKey(t.req, t.user, t.action, t.entity)
         /\ t.amount <= req[t.req].amount
         /\ req[t.req].status = "consumed"
         /\ uses[t.req] = 0
         /\ \A o \in Attempts : attempt[o].pc = "execute"
                                /\ attempt[o].req = t.req => o = c

BallotsInv ==
  \A b \in Ballots : ballot[b] # Idle =>
    LET t == ballot[b] IN
    /\ Raised(t.req)
    /\ t.user # req[t.req].requester
    /\ t.role = req[t.req].role
    /\ t.pc = "count" => t.verdict = "approved"
    /\ t.pc = "finalise" /\ t.verdict = "approved" => SignedOff(t.req)

\* Its parts rest on one another: no two handlers hold one grant because a
\* spent row stays spent, and a finalising ballot's count stands because votes
\* are never taken back.
Inductive ==
  TypeOK /\ RowsInv /\ VotesInv /\ AttemptsInv /\ BallotsInv
=============================================================================
