--------------------------- MODULE ApprovalsProofs ---------------------------
(***************************************************************************)
(* The approvals control is safe for every number of users, rules,         *)
(* requests, handlers and faults.                                          *)
(***************************************************************************)
EXTENDS Approvals, FiniteSetTheorems, TLAPS

\* The initial tables have their types (Init of Approvals).
LEMMA InitTypeOK == Init => TypeOK
BY BoundsAssumption DEF Init, TypeOK, ReqId

\* A free slot is told from a handler's locals by its pc.
LEMMA IdleHasNoLocals == Idle \notin Ballot /\ Idle \notin Attempt
BY DEF Idle, Ballot, Attempt

\* A stored required_count is a positive number (validateRule, raise).
LEMMA RequiredPositive == \A n \in Required : n \in Nat /\ n >= 1
BY BoundsAssumption DEF Required

\* A handler that has a program counter has locals.
LEMMA Busy ==
  ASSUME TypeOK
  PROVE  /\ \A c \in Attempts : attempt[c].pc # "idle" => attempt[c] \in Attempt
         /\ \A b \in Ballots : ballot[b].pc # "idle" => ballot[b] \in Ballot
         /\ \A i \in ReqId : Raised(i) => req[i] \in Request
BY DEF TypeOK, Idle, Raised

\* What the handlers store in their locals is well shaped.
LEMMA LocalsTyped ==
  /\ \A t \in Attempt : \A pc \in {"find", "consume", "raise", "announce",
                                   "link", "execute"}, i \in ReqId \cup {NoReq} :
       /\ [t EXCEPT !.pc = pc] \in Attempt
       /\ [t EXCEPT !.pc = pc, !.req = i] \in Attempt
  /\ \A t \in Ballot : \A pc \in {"vote", "count", "finalise", "tell"} :
       [t EXCEPT !.pc = pc] \in Ballot
BY DEF Attempt, Ballot

\* What the handlers store in the rows is well shaped.
LEMMA RowsTyped ==
  \A r \in Request :
    /\ \A s \in LiveStatuses \cup {"consumed"}, k \in BOOLEAN :
         /\ [r EXCEPT !.status = s] \in Request
         /\ [r EXCEPT !.status = s, !.keyed = k] \in Request
    /\ \A i \in ReqId \cup {NoReq} : [r EXCEPT !.supersedes = i] \in Request
BY DEF Request

\* Creating or editing a rule stores a well-formed row (validateRule).
LEMMA RulesTyped ==
  ASSUME NEW r \in Rule, NEW f \in Floors, NEW n \in Required,
         NEW o \in Roles, NEW on \in BOOLEAN
  PROVE  [r EXCEPT !.floor = f, !.required = n, !.role = o, !.active = on]
           \in Rule
BY DEF Rule

\* Every handler step writes rows and locals of their declared shape.
LEMMA NextTypeOK == Inductive /\ [Next]_vars => TypeOK'
<1> SUFFICES ASSUME Inductive, [Next]_vars PROVE TypeOK'
  OBVIOUS
<1> USE BoundsAssumption
<1>a. TypeOK
  BY DEF Inductive
<1>1. ASSUME NEW id \in 1 .. MaxRules, NEW a \in Actions, NEW f \in Floors,
             NEW n \in Counts, NEW r \in Roles, CreateRule(id, a, f, n, r)
      PROVE TypeOK'
  <2>1. (IF n = 0 THEN 1 ELSE n) \in Required
    BY DEF Required
  <2>2. [id |-> id, action |-> a, floor |-> f,
         required |-> IF n = 0 THEN 1 ELSE n, role |-> r, active |-> TRUE]
          \in Rule
    BY <2>1 DEF Rule
  <2>3. QED
    BY <1>a, <1>1, <2>2 DEF CreateRule, TypeOK
<1>2. ASSUME NEW old \in rules, NEW f \in Floors, NEW n \in Counts,
             NEW r \in Roles, NEW on \in BOOLEAN, UpdateRule(old, f, n, r, on)
      PROVE TypeOK'
  <2>1. n \in Required /\ old \in Rule
    BY <1>a, <1>2 DEF UpdateRule, TypeOK, Required
  <2>2. [old EXCEPT !.floor = f, !.required = n, !.role = r, !.active = on]
          \in Rule
    BY <2>1, RulesTyped
  <2>3. QED
    BY <1>a, <1>2, <2>2 DEF UpdateRule, TypeOK
<1>3. ASSUME NEW u \in Movable, NEW r \in Roles, ChangeRole(u, r)
      PROVE TypeOK'
  BY <1>a, <1>3 DEF ChangeRole, TypeOK
<1>4. ASSUME NEW c \in Attempts, NEW u \in Users, NEW a \in Actions,
             NEW e \in Entities, NEW m \in Amounts, BeginAttempt(c, u, a, e, m)
      PROVE TypeOK'
  BY <1>a, <1>4
     DEF BeginAttempt, MatchRule, Covering, Rule, Attempt, TypeOK, Step
<1>5. ASSUME NEW c \in Attempts, FindLive(c) PROVE TypeOK'
  <2>1. attempt[c] \in Attempt
    BY <1>a, <1>5, Busy DEF FindLive
  <2>2. \/ attempt' = [attempt EXCEPT ![c] = [attempt[c] EXCEPT !.pc = "raise"]]
        \/ \E i \in ReqId : attempt' = [attempt EXCEPT ![c] =
             [attempt[c] EXCEPT !.pc = "consume", !.req = i]]
        \/ attempt' = [attempt EXCEPT ![c] = Idle]
    BY <1>5 DEF FindLive, GoTo, Step
  <2>3. /\ [attempt[c] EXCEPT !.pc = "raise"] \in Attempt
        /\ \A i \in ReqId :
             [attempt[c] EXCEPT !.pc = "consume", !.req = i] \in Attempt
    BY <2>1, LocalsTyped
  <2>4. \E x \in Attempt \cup {Idle} : attempt' = [attempt EXCEPT ![c] = x]
    BY <2>2, <2>3
  <2>5. attempt' \in [Attempts -> Attempt \cup {Idle}]
    BY <1>a, <2>4 DEF TypeOK
  <2>6. QED
    BY <1>a, <1>5, <2>5 DEF FindLive, TypeOK
<1>6. ASSUME NEW c \in Attempts, Consume(c) PROVE TypeOK'
  <2>1. attempt[c] \in Attempt /\ attempt[c].req \in ReqId
        /\ req[attempt[c].req] \in Request
    BY <1>a, <1>6, Busy DEF Consume, Inductive, AttemptsInv, SameKey
  <2>2. attempt' \in [Attempts -> Attempt \cup {Idle}]
    <3>1. \/ attempt' = [attempt EXCEPT ![c] =
               [attempt[c] EXCEPT !.pc = "execute"]]
          \/ attempt' = [attempt EXCEPT ![c] =
               [attempt[c] EXCEPT !.pc = "raise", !.req = NoReq]]
      BY <1>6 DEF Consume, GoTo, Step
    <3>2. /\ [attempt[c] EXCEPT !.pc = "execute"] \in Attempt
          /\ [attempt[c] EXCEPT !.pc = "raise", !.req = NoReq] \in Attempt
      BY <2>1, LocalsTyped
    <3>3. \E x \in Attempt : attempt' = [attempt EXCEPT ![c] = x]
      BY <3>1, <3>2
    <3>4. QED
      BY <1>a, <3>3 DEF TypeOK
  <2>3. req' \in [ReqId -> Request \cup {NoRequest}]
    <3>1. \/ req' = req
          \/ req' = [req EXCEPT ![attempt[c].req] =
                       [req[attempt[c].req] EXCEPT !.status = "consumed"]]
      BY <1>6 DEF Consume
    <3>2. [req[attempt[c].req] EXCEPT !.status = "consumed"] \in Request
      BY <2>1, RowsTyped
    <3>3. QED
      BY <1>a, <3>1, <3>2 DEF TypeOK
  <2>4. QED
    BY <1>a, <1>6, <2>2, <2>3 DEF Consume, TypeOK
<1>7. ASSUME NEW c \in Attempts, Raise(c) PROVE TypeOK'
  <2>1. attempt[c] \in Attempt
    BY <1>a, <1>7, Busy DEF Raise
  <2>2. attempt' \in [Attempts -> Attempt \cup {Idle}]
    <3>1. \/ attempt' = [attempt EXCEPT ![c] = Idle]
          \/ \E i \in ReqId : attempt' = [attempt EXCEPT ![c] =
               [attempt[c] EXCEPT !.pc = "announce", !.req = i]]
      BY <1>7 DEF Raise, Step
    <3>2. \A i \in ReqId :
            [attempt[c] EXCEPT !.pc = "announce", !.req = i] \in Attempt
      BY <2>1, LocalsTyped
    <3>3. \E x \in Attempt \cup {Idle} : attempt' = [attempt EXCEPT ![c] = x]
      BY <3>1, <3>2
    <3>4. QED
      BY <1>a, <3>3 DEF TypeOK
  <2>3. req' \in [ReqId -> Request \cup {NoRequest}]
    <3> DEFINE t == attempt[c]
               new == [action |-> t.action, entity |-> t.entity,
                 requester |-> t.user, amount |-> t.amount,
                 required |-> IF t.required < 1 THEN 1 ELSE t.required,
                 role |-> t.role, status |-> "pending", keyed |-> TRUE,
                 supersedes |-> NoReq]
    <3>1. (IF t.required < 1 THEN 1 ELSE t.required) \in Required
      BY <2>1 DEF Attempt, Required
    <3>2. new \in Request
      BY <2>1, <3>1 DEF Attempt, Request, LiveStatuses
    <3>3. req' = req \/ \E i \in ReqId : req' = [req EXCEPT ![i] = new]
      BY <1>7 DEF Raise
    <3> HIDE DEF new
    <3>4. QED
      BY <1>a, <3>2, <3>3 DEF TypeOK
  <2>4. QED
    BY <1>a, <1>7, <2>2, <2>3 DEF Raise, TypeOK
<1>8. ASSUME NEW c \in Attempts, Announce(c) PROVE TypeOK'
  <2>1. attempt[c] \in Attempt /\ attempt[c].req \in ReqId
    BY <1>a, <1>8, Busy DEF Announce, Inductive, AttemptsInv
  <2>2. attempt' \in [Attempts -> Attempt \cup {Idle}]
    <3>1. \/ attempt' = [attempt EXCEPT ![c] = Idle]
          \/ attempt' = [attempt EXCEPT ![c] =
               [attempt[c] EXCEPT !.pc = "link"]]
      BY <1>8 DEF Announce, GoTo, Step
    <3>2. QED
      BY <1>a, <2>1, <3>1, LocalsTyped DEF TypeOK
  <2>3. notices' \subseteq Notice
    <3>1. PICK told \in SUBSET Users : notices' = notices \cup
            {[to |-> u, req |-> attempt[c].req, kind |-> "asked"] : u \in told}
      BY <1>8 DEF Announce
    <3>2. QED
      BY <1>a, <2>1, <3>1 DEF TypeOK, Notice
  <2>4. faults' \in 0 .. MaxFaults
    BY <1>a, <1>8 DEF Announce, TypeOK
  <2>5. QED
    BY <1>a, <1>8, <2>2, <2>3, <2>4 DEF Announce, TypeOK
<1>9. ASSUME NEW c \in Attempts, Execute(c) PROVE TypeOK'
  <2>1. attempt' \in [Attempts -> Attempt \cup {Idle}]
    BY <1>a, <1>9 DEF Execute, Step, TypeOK
  <2>2. attempt[c].req \in ReqId
    BY <1>9 DEF Execute, Inductive, AttemptsInv
  <2>3. uses' \in [ReqId -> Nat]
    BY <1>a, <1>9, <2>2 DEF Execute, TypeOK
  <2>4. QED
    BY <1>a, <1>9, <2>1, <2>3 DEF Execute, TypeOK
<1>10. ASSUME NEW c \in Attempts, NEW u \in Users, NEW i \in ReqId,
              BeginResubmit(c, u, i)
       PROVE TypeOK'
  <2>1. req[i] \in Request
    BY <1>a, <1>10, Busy DEF BeginResubmit
  <2>2. QED
    BY <1>a, <1>10, <2>1
       DEF BeginResubmit, MatchRule, Covering, Rule, Attempt, Request, TypeOK,
           Step
<1>11. ASSUME NEW c \in Attempts, LinkResubmission(c) PROVE TypeOK'
  <2>1. /\ attempt[c] \in Attempt /\ attempt[c].req \in ReqId
        /\ req[attempt[c].req] \in Request
        /\ attempt[c].prev \in ReqId \cup {NoReq}
    BY <1>a, <1>11, Busy DEF LinkResubmission, Inductive, AttemptsInv, Attempt
  <2>2. req' = [req EXCEPT ![attempt[c].req] =
                  [req[attempt[c].req] EXCEPT !.supersedes = attempt[c].prev]]
    BY <1>11 DEF LinkResubmission
  <2>3. req' \in [ReqId -> Request \cup {NoRequest}]
    BY <1>a, <2>1, <2>2, RowsTyped DEF TypeOK
  <2>4. QED
    BY <1>a, <1>11, <2>3 DEF LinkResubmission, TypeOK, Step
<1>12. ASSUME NEW b \in Ballots, NEW u \in Users, NEW i \in ReqId,
              NEW v \in Verdicts, BeginDecision(b, u, i, v)
       PROVE TypeOK'
  BY <1>a, <1>12 DEF BeginDecision, Ballot, TypeOK, Move
<1>13. ASSUME NEW b \in Ballots, RecordDecision(b) PROVE TypeOK'
  BY <1>a, <1>13 DEF RecordDecision, Ballot, Idle, Decision, TypeOK, Move
<1>14. ASSUME NEW b \in Ballots, CountApprovals(b) PROVE TypeOK'
  BY <1>a, <1>14 DEF CountApprovals, Ballot, Idle, TypeOK, Move
<1>15. ASSUME NEW b \in Ballots, Finalise(b) PROVE TypeOK'
  BY <1>a, <1>15 DEF Finalise, Ballot, Idle, Request, NoRequest, LiveStatuses,
              Verdicts, TypeOK, Move
<1>16. ASSUME NEW b \in Ballots, Tell(b) PROVE TypeOK'
  <2>1. /\ ballot[b] \in Ballot
        /\ req[ballot[b].req] \in Request
    BY <1>a, <1>16, Busy DEF Tell, Inductive, BallotsInv, Idle, Ballot
  <2>2. [to |-> req[ballot[b].req].requester, req |-> ballot[b].req,
         kind |-> ballot[b].verdict] \in Notice
    BY <2>1 DEF Ballot, Request, Notice
  <2>3. QED
    BY <1>a, <1>16, <2>2 DEF Tell, TypeOK, Move
<1>17. ASSUME NEW c \in Attempts, FailAttempt(c) PROVE TypeOK'
  BY <1>a, <1>17 DEF FailAttempt, Fault, TypeOK, Step
<1>18. ASSUME NEW b \in Ballots, FailBallot(b) PROVE TypeOK'
  BY <1>a, <1>18 DEF FailBallot, Fault, TypeOK, Move
<1>19. CASE UNCHANGED vars
  BY <1>a, <1>19 DEF vars, TypeOK
<1>20. QED
  BY <1>1, <1>2, <1>3, <1>4, <1>5, <1>6, <1>7, <1>8, <1>9, <1>10, <1>11,
     <1>12, <1>13, <1>14, <1>15, <1>16, <1>17, <1>18, <1>19
     DEF Next, Administer, AttemptStep, BallotStep

-----------------------------------------------------------------------------
(* What a step leaves alone *)

\* The four statements that write approval_requests, and what they write.
LEMMA RowWrites ==
  ASSUME Inductive, [Next]_vars
  PROVE  \/ req' = req
         \/ \E c \in Attempts : Consume(c) \/ Raise(c) \/ LinkResubmission(c)
         \/ \E b \in Ballots : Finalise(b)
BY DEF Next, Administer, AttemptStep, BallotStep, CreateRule, UpdateRule,
       ChangeRole, BeginAttempt, FindLive, Announce, Execute, BeginResubmit,
       BeginDecision, RecordDecision, CountApprovals, Tell, FailAttempt,
       FailBallot, vars

\* A raised request keeps its terms, and its status only moves forward.
LEMMA StepHolds ==
  ASSUME Inductive, [Next]_vars, NEW i \in ReqId
  PROVE  Holds(i)
<1> SUFFICES ASSUME Raised(i)
             PROVE  /\ Raised(i)'
                    /\ Frozen(i)
                    /\ \/ req'[i].status = req[i].status
                       \/ <<req[i].status, req'[i].status>> \in StatusMoves
  BY DEF Holds
<1>a. req \in [ReqId -> Request \cup {NoRequest}] /\ req[i] \in Request
  BY Busy DEF Inductive, TypeOK
<1>1. CASE req' = req
  BY <1>1 DEF Frozen, Raised
<1>2. ASSUME NEW c \in Attempts, Consume(c) PROVE Holds(i)
  <2>1. \/ req' = req
        \/ /\ req[attempt[c].req].status = "approved"
           /\ req' = [req EXCEPT ![attempt[c].req].status = "consumed"]
    BY <1>2 DEF Consume
  <2>2. QED
    BY <1>a, <2>1 DEF Frozen, Raised, StatusMoves, Holds, Request, NoRequest
<1>3. ASSUME NEW c \in Attempts, Raise(c) PROVE Holds(i)
  <2>1. req'[i] = req[i]
    BY <1>a, <1>3 DEF Raise
  <2>2. QED
    BY <2>1 DEF Frozen, Raised, Holds
<1>4. ASSUME NEW c \in Attempts, LinkResubmission(c) PROVE Holds(i)
  BY <1>a, <1>4
     DEF LinkResubmission, Frozen, Raised, Holds, Request, NoRequest
<1>5. ASSUME NEW b \in Ballots, Finalise(b) PROVE Holds(i)
  <2>1. \/ req' = req
        \/ /\ req[ballot[b].req].status = "pending"
           /\ req' = [req EXCEPT ![ballot[b].req].status = ballot[b].verdict,
                                 ![ballot[b].req].keyed = FALSE]
           /\ ballot[b].verdict \in Verdicts
    BY <1>5 DEF Finalise, Inductive, TypeOK, Ballot, Idle
  <2>2. QED
    BY <1>a, <2>1
       DEF Frozen, Raised, StatusMoves, Holds, Request, NoRequest, Verdicts
<1>6. QED
  BY <1>1, <1>2, <1>3, <1>4, <1>5, RowWrites DEF Holds

\* Votes are only ever added, one at a time.
LEMMA VoteWrites ==
  ASSUME Inductive, [Next]_vars
  PROVE  \/ decisions' = decisions
         \/ \E b \in Ballots : RecordDecision(b)
BY DEF Next, Administer, AttemptStep, BallotStep, CreateRule, UpdateRule,
       ChangeRole, BeginAttempt, FindLive, Consume, Raise, Announce, Execute,
       LinkResubmission, BeginResubmit, BeginDecision, CountApprovals,
       Finalise, Tell, FailAttempt, FailBallot, vars

\* Votes are never taken back, so a count once reached stays reached
\* (recordDecision only inserts).
LEMMA VotesGrow ==
  ASSUME Inductive, [Next]_vars
  PROVE  decisions \subseteq decisions' /\ IsFiniteSet(decisions')
<1>1. IsFiniteSet(decisions)
  BY DEF Inductive, VotesInv
<1>2. ASSUME NEW b \in Ballots, RecordDecision(b)
      PROVE  decisions \subseteq decisions' /\ IsFiniteSet(decisions')
  BY <1>1, <1>2, FS_AddElement DEF RecordDecision
<1>3. QED
  BY <1>1, <1>2, VoteWrites

\* A signed-off request stays signed off.
LEMMA SignOffLasts ==
  ASSUME Inductive, [Next]_vars, NEW i \in ReqId, SignedOff(i)
  PROVE  SignedOff(i)'
<1>1. Approvals(i) \subseteq Approvals(i)' /\ IsFiniteSet(Approvals(i)')
  <2>1. Approvals(i) \subseteq Approvals(i)'
    BY VotesGrow DEF Approvals, Votes
  <2>2. Approvals(i)' \subseteq decisions'
    BY DEF Approvals, Votes
  <2>3. QED
    BY <2>1, <2>2, VotesGrow, FS_Subset
<1>2. /\ Cardinality(Approvals(i)) \in Nat
      /\ Cardinality(Approvals(i)') \in Nat
      /\ Cardinality(Approvals(i)) <= Cardinality(Approvals(i)')
  BY <1>1, FS_Subset, FS_CardinalityType
<1>3. Raised(i)
  BY DEF SignedOff
<1>4. Raised(i)' /\ req'[i].required = req[i].required
  BY <1>3, StepHolds DEF Holds, Frozen
<1>5. req[i] \in Request
  BY <1>3, Busy DEF Inductive
<1>6. req[i].required \in Nat
  BY <1>5, RequiredPositive DEF Request
<1>7. QED
  BY <1>2, <1>4, <1>6 DEF SignedOff

-----------------------------------------------------------------------------
(* Rows *)

\* How one row changes when a statement writes the table.
LEMMA RowChange ==
  ASSUME Inductive, [Next]_vars, NEW i \in ReqId
  PROVE  \/ req'[i] = req[i]
         \/ /\ Raised(i) /\ req[i].status = "approved"
            /\ req'[i] = [req[i] EXCEPT !.status = "consumed"]
         \/ /\ Raised(i)
            /\ \E k \in ReqId \cup {NoReq} :
                 req'[i] = [req[i] EXCEPT !.supersedes = k]
         \/ /\ Raised(i) /\ req[i].status = "pending"
            /\ \E v \in Verdicts : 
                 /\ req'[i] = [req[i] EXCEPT !.status = v, !.keyed = FALSE]
                 /\ v = "approved" => SignedOff(i)
         \/ /\ ~Raised(i)
            /\ req'[i] \in Request
            /\ req'[i].status = "pending" /\ req'[i].keyed
            /\ ~KeyTaken(req'[i].requester, req'[i].action, req'[i].entity)
            /\ \A j \in ReqId : j # i => req'[j] = req[j]
<1>a. req \in [ReqId -> Request \cup {NoRequest}]
      /\ req' \in [ReqId -> Request \cup {NoRequest}]
  BY NextTypeOK DEF Inductive, TypeOK
<1>1. ASSUME NEW c \in Attempts, Consume(c), req'[i] # req[i]
      PROVE  /\ Raised(i) /\ req[i].status = "approved"
             /\ req'[i] = [req[i] EXCEPT !.status = "consumed"]
  <2>1. /\ i = attempt[c].req
        /\ req[i].status = "approved"
        /\ req' = [req EXCEPT ![i].status = "consumed"]
    BY <1>a, <1>1 DEF Consume
  <2>2. QED
    BY <1>a, <2>1 DEF Raised, NoRequest
<1>2. ASSUME NEW c \in Attempts, Raise(c), req'[i] # req[i]
      PROVE  /\ ~Raised(i)
             /\ req'[i] \in Request
             /\ req'[i].status = "pending" /\ req'[i].keyed
             /\ ~KeyTaken(req'[i].requester, req'[i].action, req'[i].entity)
             /\ \A j \in ReqId : j # i => req'[j] = req[j]
  <2> DEFINE t == attempt[c]
             new == [action |-> t.action, entity |-> t.entity,
                 requester |-> t.user, amount |-> t.amount,
                 required |-> IF t.required < 1 THEN 1 ELSE t.required,
                 role |-> t.role, status |-> "pending", keyed |-> TRUE,
                 supersedes |-> NoReq]
  <2>1. /\ ~KeyTaken(t.user, t.action, t.entity)
        /\ ~Raised(i)
        /\ req' = [req EXCEPT ![i] = new]
    BY <1>a, <1>2 DEF Raise
  <2>2. req'[i] = new
    BY <1>a, <2>1
  <2>3. /\ new.status = "pending" /\ new.keyed /\ new # NoRequest
        /\ new.requester = t.user /\ new.action = t.action
        /\ new.entity = t.entity
    BY DEF NoRequest
  <2> HIDE DEF new
  <2>4. req'[i] \in Request
    BY <1>a, <2>2, <2>3
  <2>5. QED
    BY <1>a, <2>1, <2>2, <2>3, <2>4
<1>3. ASSUME NEW c \in Attempts, LinkResubmission(c), req'[i] # req[i]
      PROVE  /\ Raised(i)
             /\ \E k \in ReqId \cup {NoReq} :
                  req'[i] = [req[i] EXCEPT !.supersedes = k]
  <2>1. /\ i = attempt[c].req
        /\ req' = [req EXCEPT ![i].supersedes = attempt[c].prev]
    BY <1>a, <1>3 DEF LinkResubmission
  <2>2. Raised(i)
    BY <1>3, <2>1 DEF LinkResubmission, Inductive, AttemptsInv
  <2>3. attempt[c] \in Attempt
    BY <1>3, Busy DEF LinkResubmission, Inductive
  <2>4. attempt[c].prev \in ReqId \cup {NoReq}
    BY <2>3 DEF Attempt
  <2>5. QED
    BY <1>a, <2>1, <2>2, <2>4
<1>4. ASSUME NEW b \in Ballots, Finalise(b), req'[i] # req[i]
      PROVE  /\ Raised(i) /\ req[i].status = "pending"
             /\ \E v \in Verdicts : 
                  /\ req'[i] = [req[i] EXCEPT !.status = v, !.keyed = FALSE]
                  /\ v = "approved" => SignedOff(i)
  <2> DEFINE v == ballot[b].verdict
  <2>1. /\ i = ballot[b].req
        /\ req[i].status = "pending"
        /\ req' = [req EXCEPT ![i].status = v, ![i].keyed = FALSE]
    BY <1>a, <1>4 DEF Finalise
  <2>2. ballot[b] \in Ballot
    BY <1>4, Busy DEF Finalise, Inductive
  <2>3. Raised(i) /\ (v = "approved" => SignedOff(i))
    BY <1>4, <2>1 DEF Finalise, Inductive, BallotsInv, Idle
  <2>4. v \in Verdicts
    BY <2>2 DEF Ballot
  <2>5. req'[i] = [req[i] EXCEPT !.status = v, !.keyed = FALSE]
    BY <1>a, <2>1
  <2>6. QED
    BY <2>1, <2>3, <2>4, <2>5
<1>5. QED
  BY <1>1, <1>2, <1>3, <1>4, RowWrites

\* Open rows hold their key and no others do.
LEMMA NextKeys ==
  ASSUME Inductive, [Next]_vars, NEW i \in ReqId, Raised(i)'
  PROVE  req'[i].required >= 1 /\ (req'[i].keyed <=> req'[i].status = "pending")
<1>1. req'[i] \in Request
  BY NextTypeOK DEF TypeOK, Raised
<1>2. req'[i].required >= 1
  BY <1>1, RequiredPositive DEF Request
<1>3. Raised(i) => /\ req[i] \in Request
                   /\ req[i].keyed <=> req[i].status = "pending"
  BY Busy DEF Inductive, RowsInv
<1>4. req'[i].keyed <=> req'[i].status = "pending"
  <2>1. CASE req'[i] = req[i]
    BY <1>3, <2>1 DEF Raised
  <2>2. CASE Raised(i) /\ req[i].status = "approved"
             /\ req'[i] = [req[i] EXCEPT !.status = "consumed"]
    BY <1>3, <2>2 DEF Request
  <2>3. ASSUME Raised(i), NEW k \in ReqId \cup {NoReq},
               req'[i] = [req[i] EXCEPT !.supersedes = k]
        PROVE  req'[i].keyed <=> req'[i].status = "pending"
    BY <1>3, <2>3 DEF Request
  <2>4. ASSUME Raised(i), NEW v \in Verdicts,
               req'[i] = [req[i] EXCEPT !.status = v, !.keyed = FALSE]
        PROVE  req'[i].keyed <=> req'[i].status = "pending"
    BY <1>3, <2>4 DEF Request, Verdicts
  <2>5. QED
    BY <2>1, <2>2, <2>3, <2>4, RowChange
<1>5. QED
  BY <1>2, <1>4

\* A row that holds its key after a step held it before, or was just raised
\* past the unique index.
LEMMA KeyHolders ==
  ASSUME Inductive, [Next]_vars, NEW i \in ReqId, Raised(i)', req'[i].keyed
  PROVE  \/ Raised(i) /\ req[i].keyed
         \/ /\ ~KeyTaken(req'[i].requester, req'[i].action, req'[i].entity)
            /\ \A j \in ReqId : j # i => req'[j] = req[j]
<1>1. Raised(i) => req[i] \in Request
  BY Busy DEF Inductive
<1>2. CASE req'[i] = req[i]
  BY <1>2 DEF Raised
<1>3. CASE Raised(i) /\ req'[i] = [req[i] EXCEPT !.status = "consumed"]
  BY <1>1, <1>3 DEF Request
<1>4. ASSUME Raised(i), NEW k \in ReqId \cup {NoReq},
             req'[i] = [req[i] EXCEPT !.supersedes = k]
      PROVE  Raised(i) /\ req[i].keyed
  BY <1>1, <1>4 DEF Request
<1>5. ASSUME Raised(i), NEW v \in Verdicts,
             req'[i] = [req[i] EXCEPT !.status = v, !.keyed = FALSE]
      PROVE  FALSE
  BY <1>1, <1>5 DEF Request
<1>6. QED
  BY <1>2, <1>3, <1>4, <1>5, RowChange

\* No step gives two rows the same pending_key (its unique index).
LEMMA NextOneKey ==
  ASSUME Inductive, [Next]_vars, NEW i \in ReqId, NEW j \in ReqId,
         Raised(i)', Raised(j)', req'[i].keyed, req'[j].keyed,
         req'[i].requester = req'[j].requester,
         req'[i].action = req'[j].action, req'[i].entity = req'[j].entity
  PROVE  i = j
<1>1. CASE Raised(i) /\ req[i].keyed /\ Raised(j) /\ req[j].keyed
  <2>1. Frozen(i) /\ Frozen(j)
    BY <1>1, StepHolds DEF Holds
  <2>2. QED
    BY <1>1, <2>1 DEF Inductive, RowsInv, Frozen
<1>2. ASSUME NEW k \in ReqId, NEW l \in ReqId, k # l,
             ~KeyTaken(req'[k].requester, req'[k].action, req'[k].entity),
             \A m \in ReqId : m # k => req'[m] = req[m],
             req'[k].requester = req'[l].requester,
             req'[k].action = req'[l].action, req'[k].entity = req'[l].entity,
             Raised(l)', req'[l].keyed
      PROVE  FALSE
  BY <1>2 DEF KeyTaken, SameKey, Raised
<1>3. QED
  BY <1>1, <1>2, KeyHolders

\* A request granted by a step was signed off, and stays so.
LEMMA NextGranted ==
  ASSUME Inductive, [Next]_vars, NEW i \in ReqId, Granted(i)'
  PROVE  SignedOff(i)'
<1>1. Raised(i) => req[i] \in Request
  BY Busy DEF Inductive
<1>2. Granted(i) => SignedOff(i)
  BY DEF Inductive, RowsInv
<1>3. SignedOff(i)
  <2>1. CASE req'[i] = req[i]
    BY <1>2, <2>1 DEF Granted, Raised
  <2>2. CASE Raised(i) /\ req[i].status = "approved"
    BY <1>2, <2>2 DEF Granted
  <2>3. ASSUME Raised(i), NEW k \in ReqId \cup {NoReq},
               req'[i] = [req[i] EXCEPT !.supersedes = k]
        PROVE  SignedOff(i)
    BY <1>1, <1>2, <2>3 DEF Request, Granted
  <2>4. ASSUME Raised(i), NEW v \in Verdicts,
               req'[i] = [req[i] EXCEPT !.status = v, !.keyed = FALSE],
               v = "approved" => SignedOff(i)
        PROVE  SignedOff(i)
    BY <1>1, <2>4 DEF Request, Granted, Verdicts
  <2>5. CASE req'[i].status = "pending"
    BY <2>5 DEF Granted
  <2>6. CASE Raised(i) /\ \E k \in ReqId \cup {NoReq} :
                 req'[i] = [req[i] EXCEPT !.supersedes = k]
    BY <2>3, <2>6
  <2>7. CASE Raised(i) /\ \E v \in Verdicts :
                 /\ req'[i] = [req[i] EXCEPT !.status = v, !.keyed = FALSE]
                 /\ v = "approved" => SignedOff(i)
    BY <2>4, <2>7
  <2>8. QED
    BY <2>1, <2>2, <2>5, <2>6, <2>7, RowChange
<1>4. QED
  BY <1>3, SignOffLasts

\* Only the handler that spent an approval acts on it.
LEMMA NextUses ==
  ASSUME Inductive, [Next]_vars, NEW i \in ReqId
  PROVE  uses'[i] = 0
         \/ (uses'[i] = 1 /\ Raised(i)' /\ req'[i].status = "consumed")
<1>1. uses[i] = 0 \/ (uses[i] = 1 /\ Raised(i) /\ req[i].status = "consumed")
  BY DEF Inductive, RowsInv
<1>2. Raised(i) /\ req[i].status = "consumed"
      => Raised(i)' /\ req'[i].status = "consumed"
  BY StepHolds DEF Holds, StatusMoves
<1>3. \/ uses' = uses
      \/ \E c \in Attempts : Execute(c)
  BY DEF Next, Administer, AttemptStep, BallotStep, CreateRule, UpdateRule,
       ChangeRole, BeginAttempt, FindLive, Consume, Raise, Announce,
       LinkResubmission, BeginResubmit, BeginDecision, RecordDecision,
       CountApprovals, Finalise, Tell, FailAttempt, FailBallot, vars
<1>4. CASE uses' = uses
  BY <1>1, <1>2, <1>4
<1>5. ASSUME NEW c \in Attempts, Execute(c)
      PROVE  uses'[i] = 0
             \/ (uses'[i] = 1 /\ Raised(i) /\ req[i].status = "consumed")
  <2>1. /\ attempt[c].req \in ReqId /\ Raised(attempt[c].req)
        /\ req[attempt[c].req].status = "consumed"
        /\ uses[attempt[c].req] = 0
    BY <1>5 DEF Execute, Inductive, AttemptsInv, SameKey
  <2>2. uses \in [ReqId -> Nat]
        /\ uses' = [uses EXCEPT ![attempt[c].req] = @ + 1]
    BY <1>5 DEF Execute, Inductive, TypeOK
  <2>3. QED
    BY <1>1, <2>1, <2>2
<1>6. QED
  BY <1>2, <1>3, <1>4, <1>5

\* Every step keeps the rows in order: keys, counts, single use.
LEMMA NextRowsInv == Inductive /\ [Next]_vars => RowsInv'
<1> SUFFICES ASSUME Inductive, [Next]_vars PROVE RowsInv'
  OBVIOUS
<1>1. \A i \in ReqId : Raised(i)' =>
        req'[i].required >= 1 /\ (req'[i].keyed <=> req'[i].status = "pending")
  BY NextKeys
<1>2. \A i, j \in ReqId :
        /\ Raised(i)' /\ Raised(j)'
        /\ req'[i].keyed /\ req'[j].keyed
        /\ req'[i].requester = req'[j].requester
        /\ req'[i].action = req'[j].action /\ req'[i].entity = req'[j].entity
        => i = j
  BY NextOneKey
<1>3. \A i \in ReqId : Granted(i)' => SignedOff(i)'
  BY NextGranted
<1>4. \A i \in ReqId : uses'[i] = 0
         \/ (uses'[i] = 1 /\ Raised(i)' /\ req'[i].status = "consumed")
  BY NextUses
<1>5. QED
  BY <1>1, <1>2, <1>3, <1>4 DEF RowsInv

-----------------------------------------------------------------------------
(* Votes *)

LEMMA NextVotesInv == Inductive /\ [Next]_vars => VotesInv'
<1> SUFFICES ASSUME Inductive, [Next]_vars PROVE VotesInv'
  OBVIOUS
<1>1. IsFiniteSet(decisions')
  BY VotesGrow
<1>2. ASSUME NEW d \in decisions
      PROVE  /\ Raised(d.req)'
             /\ d.approver # req'[d.req].requester
             /\ d.role = req'[d.req].role
  <2>1. d.req \in ReqId
    BY DEF Inductive, TypeOK, Decision
  <2>2. /\ Raised(d.req)
        /\ d.approver # req[d.req].requester
        /\ d.role = req[d.req].role
    BY DEF Inductive, VotesInv
  <2>3. Raised(d.req)' /\ Frozen(d.req)
    BY <2>1, <2>2, StepHolds DEF Holds
  <2>4. QED
    BY <2>2, <2>3 DEF Frozen
<1>3. CASE decisions' = decisions
  BY <1>1, <1>2, <1>3 DEF VotesInv, Inductive
<1>4. ASSUME NEW b \in Ballots, RecordDecision(b), decisions' # decisions
      PROVE  VotesInv'
  <2> DEFINE t == ballot[b]
             new == [req |-> t.req, approver |-> t.user, role |-> t.role,
                     verdict |-> t.verdict]
  <2>1. /\ ballot[b] # Idle
        /\ ~HasVoted(t.user, t.req)
        /\ decisions' = decisions \cup {new}
        /\ req' = req
    BY <1>4 DEF RecordDecision, Idle
  <2>2. Raised(t.req) /\ t.user # req[t.req].requester
        /\ t.role = req[t.req].role
    BY <2>1 DEF Inductive, BallotsInv
  <2>3. /\ new.req = t.req /\ new.approver = t.user /\ new.role = t.role
    OBVIOUS
  <2> HIDE DEF new
  <2>4. \A d \in decisions' : /\ Raised(d.req)'
                              /\ d.approver # req'[d.req].requester
                              /\ d.role = req'[d.req].role
    BY <1>2, <2>1, <2>2, <2>3 DEF Raised
  <2>5. \A d, e \in decisions' :
          d.req = e.req /\ d.approver = e.approver => d = e
    BY <2>1, <2>3 DEF HasVoted, Inductive, VotesInv
  <2>6. QED
    BY <1>1, <2>4, <2>5 DEF VotesInv
<1>5. QED
  BY <1>3, <1>4, VoteWrites

-----------------------------------------------------------------------------
(* Approvers' handlers *)

LEMMA NextBallotsInv == Inductive /\ [Next]_vars => BallotsInv'
<1> SUFFICES ASSUME Inductive, [Next]_vars, NEW b \in Ballots,
                    NEW i \in ReqId, ballot'[b] \in Ballot, ballot'[b].req = i
             PROVE  /\ Raised(i)'
                    /\ ballot'[b].user # req'[i].requester
                    /\ ballot'[b].role = req'[i].role
                    /\ ballot'[b].pc = "count" => ballot'[b].verdict = "approved"
                    /\ ballot'[b].pc = "finalise"
                       /\ ballot'[b].verdict = "approved" => SignedOff(i)'
  <2>1. SUFFICES ASSUME Inductive, [Next]_vars, NEW b \in Ballots,
                        ballot'[b] # Idle
                 PROVE  /\ req'[ballot'[b].req] # NoRequest
                        /\ ballot'[b].user # req'[ballot'[b].req].requester
                        /\ ballot'[b].role = req'[ballot'[b].req].role
                        /\ ballot'[b].pc = "count"
                           => ballot'[b].verdict = "approved"
                        /\ ballot'[b].pc = "finalise"
                           /\ ballot'[b].verdict = "approved"
                           => Cardinality({d \in decisions' :
                                /\ d.req = ballot'[b].req
                                /\ d.verdict = "approved"})
                              >= req'[ballot'[b].req].required
    BY DEF BallotsInv, SignedOff, Raised, Approvals, Votes
  <2>2. ballot'[b] \in Ballot
    BY <2>1, NextTypeOK DEF TypeOK
  <2>3. PICK i \in ReqId : i = ballot'[b].req
    BY <2>2 DEF Ballot
  <2>4. SignedOff(i)' => Cardinality({d \in decisions' :
                           d.req = i /\ d.verdict = "approved"})
                         >= req'[i].required
    <3>1. Approvals(i)' = {d \in decisions' : d.req = i /\ d.verdict = "approved"}
      BY DEF Approvals, Votes
    <3>2. QED
      BY <3>1 DEF SignedOff
  <2>5. QED
    BY <2>1, <2>2, <2>3, <2>4 DEF Raised
<1> DEFINE t == ballot'[b]
<1>a. ballot \in [Ballots -> Ballot \cup {Idle}] /\ t \in Ballot
  BY DEF Inductive, TypeOK
<1>1. \* enough to look at the request before the step
  ASSUME Raised(i), t.user # req[i].requester, t.role = req[i].role,
         t.pc = "count" => t.verdict = "approved",
         t.pc = "finalise" /\ t.verdict = "approved" => SignedOff(i)
  PROVE  /\ Raised(i)'
         /\ t.user # req'[i].requester
         /\ t.role = req'[i].role
         /\ t.pc = "count" => t.verdict = "approved"
         /\ t.pc = "finalise" /\ t.verdict = "approved" => SignedOff(i)'
  <2>1. Raised(i)' /\ Frozen(i)
    BY <1>1, StepHolds DEF Holds
  <2>2. SignedOff(i) => SignedOff(i)'
    BY SignOffLasts
  <2>3. QED
    BY <1>1, <2>1, <2>2 DEF Frozen
<1>2. CASE t = ballot[b]
  BY <1>1, <1>2, <1>a DEF Inductive, BallotsInv, Idle, Ballot
<1>3. ASSUME NEW u \in Users, NEW k \in ReqId, NEW v \in Verdicts,
             BeginDecision(b, u, k, v)
      PROVE  Raised(i) /\ t.user # req[i].requester
             /\ t.role = req[i].role /\ t.pc = "vote"
  BY <1>a, <1>3 DEF BeginDecision, Eligible, Move
<1>4. ASSUME BallotStep(b)
      PROVE  /\ ballot[b].req = i /\ t.user = ballot[b].user
             /\ t.role = ballot[b].role /\ t.verdict = ballot[b].verdict
             /\ ballot[b] # Idle
             /\ t.pc = "count" => t.verdict = "approved"
             /\ t.pc = "finalise" /\ t.verdict = "approved" => SignedOff(i)
  <2>1. ballot[b] \in Ballot /\ ballot[b] # Idle
    BY <1>4, Busy DEF BallotStep, RecordDecision, CountApprovals, Finalise,
       Tell, Inductive, Idle
  <2>2. CASE RecordDecision(b)
    <3>1. \/ t = Idle
          \/ t = [ballot[b] EXCEPT !.pc =
                   IF ballot[b].verdict = "approved" THEN "count" ELSE "finalise"]
      BY <1>a, <2>2 DEF RecordDecision, Move
    <3>2. t = [ballot[b] EXCEPT !.pc =
                   IF ballot[b].verdict = "approved" THEN "count" ELSE "finalise"]
      BY <1>a, <3>1, IdleHasNoLocals
    <3>3. QED
      BY <2>1, <3>2 DEF Ballot
  <2>3. CASE CountApprovals(b)
    <3>0. \/ t = Idle
          \/ /\ t = [ballot[b] EXCEPT !.pc = "finalise"]
             /\ Cardinality(Approvals(ballot[b].req))
                  >= req[ballot[b].req].required
      BY <1>a, <2>3 DEF CountApprovals, Move
    <3>1. /\ t = [ballot[b] EXCEPT !.pc = "finalise"]
          /\ Cardinality(Approvals(ballot[b].req)) >= req[ballot[b].req].required
      BY <1>a, <3>0, IdleHasNoLocals
    <3>2. Raised(ballot[b].req)
      BY <2>1 DEF Inductive, BallotsInv
    <3>3. QED
      BY <2>1, <3>1, <3>2 DEF SignedOff, Ballot
  <2>4. CASE Finalise(b)
    BY <1>a, <2>1, <2>4 DEF Finalise, Move, Ballot
  <2>5. CASE Tell(b)
    BY <1>a, <2>5, IdleHasNoLocals DEF Tell, Move
  <2>6. QED
    BY <1>4, <2>2, <2>3, <2>4, <2>5 DEF BallotStep
<1>5. \/ t = ballot[b]
      \/ \E u \in Users, k \in ReqId, v \in Verdicts : BeginDecision(b, u, k, v)
      \/ BallotStep(b)
  <2>1. \/ ballot' = ballot
        \/ \E d \in Ballots :
             \/ \E u \in Users, k \in ReqId, v \in Verdicts :
                  BeginDecision(d, u, k, v)
             \/ BallotStep(d)
             \/ FailBallot(d)
    BY DEF Next, Administer, AttemptStep, CreateRule, UpdateRule, ChangeRole,
           BeginAttempt, FindLive, Consume, Raise, Announce, Execute,
           LinkResubmission, BeginResubmit, FailAttempt, vars
  <2>2. ASSUME NEW d \in Ballots, d # b,
               \/ \E u \in Users, k \in ReqId, v \in Verdicts :
                    BeginDecision(d, u, k, v)
               \/ BallotStep(d)
               \/ FailBallot(d)
        PROVE  t = ballot[b]
    BY <1>a, <2>2 DEF BeginDecision, BallotStep, RecordDecision,
       CountApprovals, Finalise, Tell, FailBallot, Move
  <2>3. ~FailBallot(b)
    BY <1>a, IdleHasNoLocals DEF FailBallot, Move
  <2>4. QED
    BY <2>1, <2>2, <2>3
<1>6. CASE \E u \in Users, k \in ReqId, v \in Verdicts : BeginDecision(b, u, k, v)
  BY <1>1, <1>3, <1>6
<1>7. CASE BallotStep(b)
  <2>1. Raised(ballot[b].req) /\ ballot[b].user # req[ballot[b].req].requester
        /\ ballot[b].role = req[ballot[b].req].role
    BY <1>4, <1>7 DEF Inductive, BallotsInv
  <2>2. QED
    BY <1>1, <1>4, <1>7, <2>1
<1>8. QED
  BY <1>1, <1>2, <1>5, <1>6, <1>7

-----------------------------------------------------------------------------
(* Requesters' handlers *)

\* A handler's locals change only by its own steps.
LEMMA OwnStep ==
  ASSUME Inductive, [Next]_vars, NEW c \in Attempts, attempt'[c] # attempt[c]
  PROVE  \/ \E u \in Users, a \in Actions, e \in Entities, m \in Amounts :
              BeginAttempt(c, u, a, e, m)
         \/ \E u \in Users, k \in ReqId : BeginResubmit(c, u, k)
         \/ AttemptStep(c)
         \/ FailAttempt(c)
<1>1. \/ attempt' = attempt
      \/ \E d \in Attempts :
           \/ \E u \in Users, a \in Actions, e \in Entities, m \in Amounts :
                BeginAttempt(d, u, a, e, m)
           \/ \E u \in Users, k \in ReqId : BeginResubmit(d, u, k)
           \/ AttemptStep(d)
           \/ FailAttempt(d)
  BY DEF Next, Administer, CreateRule, UpdateRule, ChangeRole, BeginDecision,
         BallotStep, RecordDecision, CountApprovals, Finalise, Tell,
         FailBallot, vars
<1>2. ASSUME NEW d \in Attempts,
             \/ \E u \in Users, a \in Actions, e \in Entities, m \in Amounts :
                  BeginAttempt(d, u, a, e, m)
             \/ \E u \in Users, k \in ReqId : BeginResubmit(d, u, k)
             \/ AttemptStep(d)
             \/ FailAttempt(d)
      PROVE  c = d
  <2>1. \E x : attempt' = [attempt EXCEPT ![d] = x]
    BY <1>2 DEF BeginAttempt, BeginResubmit, AttemptStep, FindLive, Consume,
       Raise, Announce, Execute, LinkResubmission, FailAttempt, GoTo, Step
  <2>2. QED
    BY <2>1 DEF Inductive, TypeOK
<1>3. QED
  BY <1>1, <1>2

\* How a handler comes to hold a program counter it did not hold.
LEMMA Arrival ==
  ASSUME Inductive, [Next]_vars, NEW c \in Attempts, attempt'[c] # attempt[c]
  PROVE  /\ attempt'[c].pc = "consume" =>
              /\ FindLive(c)
              /\ attempt'[c].req \in ReqId
              /\ SameKey(attempt'[c].req, attempt'[c].user,
                         attempt'[c].action, attempt'[c].entity)
         /\ attempt'[c].pc = "announce" =>
              attempt'[c].req \in ReqId /\ req'[attempt'[c].req] # NoRequest
         /\ attempt'[c].pc = "link" =>
              Announce(c) /\ attempt'[c].req = attempt[c].req
         /\ attempt'[c].pc = "execute" =>
              /\ Consume(c)
              /\ attempt'[c].req = attempt[c].req
              /\ attempt'[c].user = attempt[c].user
              /\ attempt'[c].action = attempt[c].action
              /\ attempt'[c].entity = attempt[c].entity
              /\ attempt'[c].amount = attempt[c].amount
              /\ req[attempt[c].req].status = "approved"
              /\ req[attempt[c].req].amount >= attempt[c].amount
              /\ req' = [req EXCEPT ![attempt[c].req].status = "consumed"]
<1> DEFINE t == attempt'[c]
           Goal == /\ t.pc = "consume" =>
                        /\ FindLive(c)
                        /\ t.req \in ReqId
                        /\ SameKey(t.req, t.user, t.action, t.entity)
                   /\ t.pc = "announce" =>
                        t.req \in ReqId /\ req'[t.req] # NoRequest
                   /\ t.pc = "link" => Announce(c) /\ t.req = attempt[c].req
                   /\ t.pc = "execute" =>
                        /\ Consume(c)
                        /\ t.req = attempt[c].req
                        /\ t.user = attempt[c].user
                        /\ t.action = attempt[c].action
                        /\ t.entity = attempt[c].entity
                        /\ t.amount = attempt[c].amount
                        /\ req[attempt[c].req].status = "approved"
                        /\ req[attempt[c].req].amount >= attempt[c].amount
                        /\ req' = [req EXCEPT ![attempt[c].req].status
                                                = "consumed"]
<1>a. attempt \in [Attempts -> Attempt \cup {Idle}]
      /\ req \in [ReqId -> Request \cup {NoRequest}]
  BY DEF Inductive, TypeOK
<1>b. Idle.pc = "idle"
  BY DEF Idle
<1>1. ASSUME NEW u \in Users, NEW a \in Actions, NEW e \in Entities,
             NEW m \in Amounts, BeginAttempt(c, u, a, e, m)
      PROVE  Goal
  <2>1. t.pc = "find"
    BY <1>a, <1>1 DEF BeginAttempt, Step
  <2>2. QED
    BY <2>1
<1>2. ASSUME NEW u \in Users, NEW k \in ReqId, BeginResubmit(c, u, k)
      PROVE  Goal
  <2>1. t.pc = "raise"
    BY <1>a, <1>2 DEF BeginResubmit, Step
  <2>2. QED
    BY <2>1
<1>3. ASSUME FailAttempt(c) PROVE Goal
  BY <1>a, <1>b, <1>3 DEF FailAttempt, Step
<1>4. ASSUME FindLive(c) PROVE Goal
  <2>1. attempt[c] \in Attempt
    BY <1>4, Busy DEF FindLive, Inductive
  <2>2. \/ t = [attempt[c] EXCEPT !.pc = "raise"]
        \/ t = Idle
        \/ \E i \in ReqId :
             /\ Latest(i, attempt[c].user, attempt[c].action, attempt[c].entity)
             /\ t = [attempt[c] EXCEPT !.pc = "consume", !.req = i]
    BY <1>a, <1>4 DEF FindLive, GoTo, Step
  <2>3. ASSUME NEW i \in ReqId,
               Latest(i, attempt[c].user, attempt[c].action, attempt[c].entity),
               t = [attempt[c] EXCEPT !.pc = "consume", !.req = i]
        PROVE  /\ t.pc = "consume" /\ t.req = i
               /\ SameKey(t.req, t.user, t.action, t.entity)
    BY <2>1, <2>3 DEF Latest, Live, Attempt
  <2>4. t = [attempt[c] EXCEPT !.pc = "raise"] => t.pc = "raise"
    BY <2>1 DEF Attempt
  <2>5. QED
    BY <1>4, <1>b, <2>2, <2>3, <2>4
<1>5. ASSUME Consume(c) PROVE Goal
  <2>1. attempt[c] \in Attempt
    BY <1>5, Busy DEF Consume, Inductive
  <2>2. \/ /\ t = [attempt[c] EXCEPT !.pc = "execute"]
           /\ req[attempt[c].req].status = "approved"
           /\ req[attempt[c].req].amount >= attempt[c].amount
           /\ req' = [req EXCEPT ![attempt[c].req].status = "consumed"]
        \/ t = [attempt[c] EXCEPT !.pc = "raise", !.req = NoReq]
    BY <1>a, <1>5 DEF Consume, GoTo, Step
  <2>3. t = [attempt[c] EXCEPT !.pc = "raise", !.req = NoReq] => t.pc = "raise"
    BY <2>1 DEF Attempt
  <2>4. t = [attempt[c] EXCEPT !.pc = "execute"] =>
          /\ t.pc = "execute" /\ t.req = attempt[c].req
          /\ t.user = attempt[c].user /\ t.action = attempt[c].action
          /\ t.entity = attempt[c].entity /\ t.amount = attempt[c].amount
    BY <2>1 DEF Attempt
  <2>5. QED
    BY <1>5, <2>2, <2>3, <2>4
<1>6. ASSUME Raise(c) PROVE Goal
  <2>1. attempt[c] \in Attempt
    BY <1>6, Busy DEF Raise, Inductive
  <2>2. \/ t = Idle
        \/ \E i \in ReqId :
             /\ t = [attempt[c] EXCEPT !.pc = "announce", !.req = i]
             /\ req'[i].status = "pending"
    <3> DEFINE o == attempt[c]
               new == [action |-> o.action, entity |-> o.entity,
                 requester |-> o.user, amount |-> o.amount,
                 required |-> IF o.required < 1 THEN 1 ELSE o.required,
                 role |-> o.role, status |-> "pending", keyed |-> TRUE,
                 supersedes |-> NoReq]
    <3>1. \/ attempt' = [attempt EXCEPT ![c] = Idle]
          \/ \E i \in ReqId :
               /\ req' = [req EXCEPT ![i] = new]
               /\ attempt' = [attempt EXCEPT ![c] =
                               [attempt[c] EXCEPT !.pc = "announce", !.req = i]]
      BY <1>6 DEF Raise, Step
    <3>2. new.status = "pending"
      OBVIOUS
    <3> HIDE DEF new
    <3>3. QED
      BY <1>a, <3>1, <3>2
  <2>3. NoRequest.status # "pending"
    BY DEF NoRequest
  <2>4. \A i \in ReqId : t = [attempt[c] EXCEPT !.pc = "announce", !.req = i]
                         => t.pc = "announce" /\ t.req = i
    BY <2>1 DEF Attempt
  <2>5. QED
    BY <1>b, <2>2, <2>3, <2>4
<1>7. ASSUME Announce(c) PROVE Goal
  <2>1. attempt[c] \in Attempt
    BY <1>7, Busy DEF Announce, Inductive
  <2>2. t = Idle \/ t = [attempt[c] EXCEPT !.pc = "link"]
    BY <1>a, <1>7 DEF Announce, GoTo, Step
  <2>3. t = [attempt[c] EXCEPT !.pc = "link"]
        => t.pc = "link" /\ t.req = attempt[c].req
    BY <2>1 DEF Attempt
  <2>4. QED
    BY <1>7, <1>b, <2>2, <2>3
<1>8. ASSUME Execute(c) \/ LinkResubmission(c) PROVE Goal
  BY <1>a, <1>b, <1>8 DEF Execute, LinkResubmission, Step
<1>9. Goal
  BY <1>1, <1>2, <1>3, <1>4, <1>5, <1>6, <1>7, <1>8, OwnStep DEF AttemptStep
<1>10. QED
  BY <1>9

\* What a handler holds, spelled out for the state after a step.
HoldsItsGrant(t, c) ==
  /\ t.req \in ReqId
  /\ req'[t.req] # NoRequest
  /\ req'[t.req].requester = t.user
  /\ req'[t.req].action = t.action /\ req'[t.req].entity = t.entity
  /\ t.amount <= req'[t.req].amount
  /\ req'[t.req].status = "consumed"
  /\ uses'[t.req] = 0
  /\ \A o \in Attempts :
       attempt'[o].pc = "execute" /\ attempt'[o].req = t.req => o = c

\* Every step keeps what requester handlers rely on (gate, consume).
LEMMA NextAttemptsInv == Inductive /\ [Next]_vars => AttemptsInv'
<1> SUFFICES ASSUME Inductive, [Next]_vars, NEW c \in Attempts
             PROVE  /\ attempt'[c].pc = "consume" =>
                         /\ attempt'[c].req \in ReqId
                         /\ req'[attempt'[c].req] # NoRequest
                         /\ req'[attempt'[c].req].requester = attempt'[c].user
                         /\ req'[attempt'[c].req].action = attempt'[c].action
                         /\ req'[attempt'[c].req].entity = attempt'[c].entity
                    /\ attempt'[c].pc \in {"announce", "link"} =>
                         /\ attempt'[c].req \in ReqId
                         /\ req'[attempt'[c].req] # NoRequest
                    /\ attempt'[c].pc = "execute" =>
                         HoldsItsGrant(attempt'[c], c)
  BY DEF AttemptsInv, SameKey, Raised, HoldsItsGrant
<1> DEFINE t == attempt'[c]
<1>a. \A i \in ReqId : Raised(i) =>
        /\ req'[i] # NoRequest
        /\ req'[i].requester = req[i].requester
        /\ req'[i].action = req[i].action /\ req'[i].entity = req[i].entity
        /\ req'[i].amount = req[i].amount
        /\ req[i].status = "consumed" => req'[i].status = "consumed"
  BY StepHolds DEF Holds, Raised, Frozen, StatusMoves
<1>b. \A o \in Attempts : attempt'[o] # attempt[o] /\ attempt'[o].pc = "execute" =>
        /\ attempt'[o].req = attempt[o].req
        /\ req[attempt[o].req].status = "approved"
  BY Arrival
<1>1. CASE t = attempt[c]
  <2>1. t.pc = "consume" => t.req \in ReqId /\ SameKey(t.req, t.user, t.action, t.entity)
    BY <1>1 DEF Inductive, AttemptsInv
  <2>2. t.pc \in {"announce", "link"} => t.req \in ReqId /\ Raised(t.req)
    BY <1>1 DEF Inductive, AttemptsInv
  <2>3. ASSUME t.pc = "execute" PROVE HoldsItsGrant(t, c)
    <3>1. /\ t.req \in ReqId
          /\ SameKey(t.req, t.user, t.action, t.entity)
          /\ t.amount <= req[t.req].amount
          /\ req[t.req].status = "consumed"
          /\ uses[t.req] = 0
          /\ \A o \in Attempts : attempt[o].pc = "execute"
                                 /\ attempt[o].req = t.req => o = c
      BY <1>1, <2>3 DEF Inductive, AttemptsInv
    <3>2. uses'[t.req] = 0
      <4>1. \/ uses' = uses
            \/ \E o \in Attempts : Execute(o)
        BY DEF Next, Administer, AttemptStep, BallotStep, CreateRule,
           UpdateRule, ChangeRole, BeginAttempt, FindLive, Consume, Raise,
           Announce, LinkResubmission, BeginResubmit, BeginDecision,
           RecordDecision, CountApprovals, Finalise, Tell, FailAttempt,
           FailBallot, vars
      <4>2. ASSUME NEW o \in Attempts, Execute(o) PROVE attempt[o].req # t.req
        <5>1. attempt[o].pc = "execute" /\ attempt'[o] = Idle
          BY <4>2 DEF Execute, Step, Inductive, TypeOK
        <5>2. o # c
          BY <5>1, <2>3 DEF Idle
        <5>3. QED
          BY <3>1, <5>1, <5>2
      <4>3. ASSUME NEW o \in Attempts, Execute(o) PROVE uses'[t.req] = 0
        BY <3>1, <4>2, <4>3 DEF Execute, Inductive, TypeOK
      <4>4. QED
        BY <3>1, <4>1, <4>3
    <3>3. \A o \in Attempts :
            attempt'[o].pc = "execute" /\ attempt'[o].req = t.req => o = c
      BY <3>1, <1>b
    <3>4. QED
      BY <1>a, <3>1, <3>2, <3>3 DEF HoldsItsGrant, SameKey
  <2>4. QED
    BY <1>a, <2>1, <2>2, <2>3 DEF SameKey
<1>2. CASE t # attempt[c]
  <2>1. ASSUME t.pc = "consume"
        PROVE  /\ t.req \in ReqId
               /\ req'[t.req] # NoRequest
               /\ req'[t.req].requester = t.user
               /\ req'[t.req].action = t.action
               /\ req'[t.req].entity = t.entity
    <3>1. t.req \in ReqId /\ SameKey(t.req, t.user, t.action, t.entity)
      BY <1>2, <2>1, Arrival
    <3>2. QED
      BY <1>a, <3>1 DEF SameKey
  <2>2. ASSUME t.pc = "announce" PROVE t.req \in ReqId /\ req'[t.req] # NoRequest
    BY <1>2, <2>2, Arrival
  <2>3. ASSUME t.pc = "link" PROVE t.req \in ReqId /\ req'[t.req] # NoRequest
    <3>1. attempt[c].pc = "announce" /\ t.req = attempt[c].req
      BY <1>2, <2>3, Arrival DEF Announce
    <3>2. t.req \in ReqId /\ Raised(t.req)
      BY <3>1 DEF Inductive, AttemptsInv
    <3>3. QED
      BY <1>a, <3>2
  <2>4. ASSUME t.pc = "execute" PROVE HoldsItsGrant(t, c)
    <3>1. /\ Consume(c)
          /\ t.req = attempt[c].req /\ t.user = attempt[c].user
          /\ t.action = attempt[c].action /\ t.entity = attempt[c].entity
          /\ t.amount = attempt[c].amount
          /\ req[t.req].status = "approved"
          /\ req[t.req].amount >= t.amount
          /\ req' = [req EXCEPT ![t.req].status = "consumed"]
      BY <1>2, <2>4, Arrival
    <3>2. /\ t.req \in ReqId
          /\ SameKey(t.req, t.user, t.action, t.entity)
      BY <3>1 DEF Consume, Inductive, AttemptsInv
    <3>3. req'[t.req].status = "consumed"
      <4>1. req[t.req] \in Request
        BY <3>2, Busy DEF SameKey, Inductive
      <4>2. QED
        BY <3>1, <3>2, <4>1 DEF Inductive, TypeOK, Request
    <3>4. uses'[t.req] = 0
      BY <3>1, <3>2 DEF Consume, Inductive, RowsInv
    <3>5. t.amount <= req'[t.req].amount
      <4>1. req[t.req].amount \in Nat /\ t.amount \in Nat
        <5>1. req[t.req] \in Request
          BY <3>2, Busy DEF SameKey, Inductive
        <5>2. attempt[c] \in Attempt
          BY <3>1, Busy DEF Consume, Inductive
        <5>3. QED
          BY <3>1, <5>1, <5>2, BoundsAssumption DEF Request, Attempt
      <4>2. QED
        BY <1>a, <3>1, <3>2, <4>1 DEF SameKey
    <3>6. ASSUME NEW o \in Attempts, attempt'[o].pc = "execute",
                 attempt'[o].req = t.req
          PROVE  o = c
      <4>1. o # c => attempt'[o] = attempt[o]
        BY <3>1 DEF Consume, Step, GoTo, Inductive, TypeOK
      <4>2. attempt'[o] = attempt[o] => req[t.req].status = "consumed"
        BY <3>6 DEF Inductive, AttemptsInv
      <4>3. QED
        BY <3>1, <4>1, <4>2
    <3>7. QED
      BY <1>a, <3>2, <3>3, <3>4, <3>5, <3>6 DEF HoldsItsGrant, SameKey
  <2>5. QED
    BY <2>1, <2>2, <2>3, <2>4
<1>3. QED
  BY <1>1, <1>2

-----------------------------------------------------------------------------
(* The invariant holds *)

LEMMA InitInductive == Init => Inductive
<1> SUFFICES ASSUME Init PROVE Inductive
  OBVIOUS
<1>1. TypeOK
  BY InitTypeOK
<1>2. \A i \in ReqId : ~Raised(i)
  BY DEF Init, Raised
<1>3. RowsInv
  BY <1>2 DEF RowsInv, Init, Granted
<1>4. VotesInv
  BY FS_EmptySet DEF VotesInv, Init
<1>5. AttemptsInv /\ BallotsInv
  BY DEF AttemptsInv, BallotsInv, Init, Idle
<1>6. QED
  BY <1>1, <1>3, <1>4, <1>5 DEF Inductive

\* The inductive invariant is kept by every step.
LEMMA NextInductive == Inductive /\ [Next]_vars => Inductive'
BY NextTypeOK, NextRowsInv, NextVotesInv, NextAttemptsInv, NextBallotsInv
   DEF Inductive

\* Rows, votes and handlers stay consistent whatever the interleaving of the
\* statements of gate, the decisions, the administration and the faults.
THEOREM InductiveInvariant == Spec => []Inductive
BY InitInductive, NextInductive, PTL DEF Spec

\* Every table and every handler's locals keep their shape.
THEOREM TypeCorrect == Spec => []TypeOK
<1>1. Inductive => TypeOK
  BY DEF Inductive
<1>2. QED
  BY <1>1, InductiveInvariant, PTL

\* Each approval is somebody's only one, so approvals count people.
LEMMA SignersAreApprovals ==
  ASSUME Inductive, NEW i \in ReqId
  PROVE  Cardinality(Signers(i)) = Cardinality(Approvals(i))
<1>1. IsFiniteSet(Approvals(i))
  <2>1. Approvals(i) \subseteq decisions /\ IsFiniteSet(decisions)
    BY DEF Approvals, Votes, Inductive, VotesInv
  <2>2. QED
    BY <2>1, FS_Subset
<1> DEFINE f == [d \in Approvals(i) |-> d.approver]
<1>2. f \in Bijection(Approvals(i), Signers(i))
  <2>1. f \in [Approvals(i) -> Signers(i)]
    BY DEF Signers
  <2>2. \A d, e \in Approvals(i) : f[d] = f[e] => d = e
    BY DEF Approvals, Votes, Inductive, VotesInv
  <2>3. \A u \in Signers(i) : \E d \in Approvals(i) : f[d] = u
    BY DEF Signers
  <2>4. QED
    BY <2>1, <2>2, <2>3 DEF Bijection, Injection, Surjection, IsInjective
<1> HIDE DEF f
<1>3. ExistsBijection(Approvals(i), Signers(i))
  BY <1>2 DEF ExistsBijection
<1>4. QED
  BY <1>1, <1>3, FS_Bijection

\* A request is approved only by as many distinct people as it asked for, none
\* of them its requester, each holding its role (eligibleToDecide, finalise).
THEOREM FourEyesHolds == Spec => []FourEyes
<1>1. Inductive => FourEyes
  <2> SUFFICES ASSUME Inductive, NEW i \in ReqId, Granted(i)
               PROVE  /\ Cardinality(Signers(i)) >= req[i].required
                      /\ req[i].required >= 1
                      /\ req[i].requester \notin Signers(i)
                      /\ \A d \in Approvals(i) : d.role = req[i].role
    BY DEF FourEyes
  <2>1. Raised(i) /\ SignedOff(i)
    BY DEF Granted, Inductive, RowsInv
  <2>2. Cardinality(Signers(i)) >= req[i].required
    BY <2>1, SignersAreApprovals DEF SignedOff
  <2>3. req[i].required >= 1
    BY <2>1 DEF Inductive, RowsInv
  <2>4. \A d \in Approvals(i) :
          d.approver # req[i].requester /\ d.role = req[i].role
    BY DEF Approvals, Votes, Inductive, VotesInv
  <2>5. QED
    BY <2>2, <2>3, <2>4 DEF Signers
<1>2. QED
  BY <1>1, InductiveInvariant, PTL

\* A requester never has two open requests for one action on one record
\* (pendingKeyFor and the unique index on pending_key).
THEOREM OneOpenRequestHolds == Spec => []OneOpenRequest
<1>1. Inductive => OneOpenRequest
  BY DEF Inductive, RowsInv, OneOpenRequest
<1>2. QED
  BY <1>1, InductiveInvariant, PTL

\* An approval admits at most one write, by its requester, on its record, for
\* no more than its amount (consume).
THEOREM SpentOnceHolds == Spec => []SpentOnce
<1>1. Inductive => SpentOnce
  <2> SUFFICES ASSUME Inductive PROVE SpentOnce
    OBVIOUS
  <2>1. \A i \in ReqId : uses[i] <= 1 /\ (uses[i] = 1 => Granted(i))
    BY DEF Inductive, RowsInv, Granted
  <2>2. \A c \in Attempts : attempt[c].pc = "execute" =>
          LET t == attempt[c] IN
          /\ SameKey(t.req, t.user, t.action, t.entity)
          /\ t.amount <= req[t.req].amount
          /\ req[t.req].status = "consumed"
          /\ uses[t.req] = 0
          /\ \A o \in Attempts : attempt[o].pc = "execute"
                                 /\ attempt[o].req = t.req => o = c
    BY DEF Inductive, AttemptsInv
  <2>3. QED
    BY <2>1, <2>2 DEF SpentOnce
<1>2. QED
  BY <1>1, InductiveInvariant, PTL

\* No statement of any handler changes what a raised request asks for, or
\* takes its status back.
THEOREM RequestsHoldAlways == Spec => RequestsHold
<1>1. Inductive /\ [Next]_vars => [\A i \in ReqId : Holds(i)]_vars
  BY StepHolds
<1>2. QED
  BY <1>1, InductiveInvariant, PTL DEF Spec, RequestsHold

-----------------------------------------------------------------------------
(* Approvals implements MakerChecker: every statement of every handler is    *)
(* one act of the abstract control, or invisible to it.                      *)

\* The instance counts as the module does.
LEMMA SameCount == \A S : Promise!Cardinality(S) = Cardinality(S)
BY DEF Promise!Cardinality, Cardinality

\* What each request status stands for in MakerChecker.
LEMMA Fates ==
  /\ Fate["none"] = "unasked" /\ Fate["pending"] = "open"
  /\ Fate["approved"] = "granted" /\ Fate["rejected"] = "refused"
  /\ Fate["consumed"] = "spent"
BY DEF Fate

\* A request's fate tells its status.
LEMMA FateOf ==
  ASSUME Inductive, NEW i \in ReqId
  PROVE  /\ fateBar[i] = "unasked" <=> ~Raised(i)
         /\ fateBar[i] = "open" <=> Raised(i) /\ req[i].status = "pending"
         /\ fateBar[i] = "granted" <=> Raised(i) /\ req[i].status = "approved"
         /\ fateBar[i] = "spent" <=> Raised(i) /\ req[i].status = "consumed"
<1>1. CASE Raised(i)
  <2>1. req[i].status \in {"pending", "approved", "rejected", "consumed"}
    BY <1>1, Busy DEF Inductive, Request, LiveStatuses
  <2>2. QED
    BY <1>1, <2>1, Fates DEF fateBar
<1>2. CASE ~Raised(i)
  <2>1. req[i].status = "none"
    BY <1>2 DEF Raised, NoRequest
  <2>2. QED
    BY <1>2, <2>1, Fates DEF fateBar
<1>3. QED
  BY <1>1, <1>2

\* A statement writes one table, and of approval_requests one row.
LEMMA OneTable ==
  ASSUME Inductive, [Next]_vars
  PROVE  \/ req' = req /\ decisions' = decisions /\ uses' = uses
         \/ \E i \in ReqId :
              /\ req'[i] # req[i]
              /\ \A j \in ReqId \ {i} : req'[j] = req[j]
              /\ decisions' = decisions /\ uses' = uses
         \/ req' = req /\ uses' = uses /\ \E b \in Ballots : RecordDecision(b)
         \/ req' = req /\ decisions' = decisions
            /\ \E c \in Attempts : Execute(c)
<1>a. /\ req \in [ReqId -> Request \cup {NoRequest}]
      /\ req' \in [ReqId -> Request \cup {NoRequest}]
  BY NextTypeOK DEF Inductive, TypeOK
<1>1. \/ req' = req /\ decisions' = decisions /\ uses' = uses
      \/ \E c \in Attempts :
           Consume(c) \/ Raise(c) \/ LinkResubmission(c) \/ Execute(c)
      \/ \E b \in Ballots : Finalise(b) \/ RecordDecision(b)
  BY DEF Next, Administer, AttemptStep, BallotStep, CreateRule, UpdateRule,
         ChangeRole, BeginAttempt, FindLive, Announce, BeginResubmit,
         BeginDecision, CountApprovals, Tell, FailAttempt, FailBallot, vars
<1>2. ASSUME NEW k, NEW x, req' = [req EXCEPT ![k] = x]
      PROVE  \/ req' = req
             \/ \E i \in ReqId :
                  /\ req'[i] # req[i]
                  /\ \A j \in ReqId \ {i} : req'[j] = req[j]
  BY <1>a, <1>2
<1>3. ASSUME NEW c \in Attempts,
             Consume(c) \/ Raise(c) \/ LinkResubmission(c)
      PROVE  /\ req' = req \/ \E k, x : req' = [req EXCEPT ![k] = x]
             /\ decisions' = decisions /\ uses' = uses
  BY <1>3 DEF Consume, Raise, LinkResubmission
<1>4. ASSUME NEW b \in Ballots, Finalise(b)
      PROVE  /\ req' = req \/ \E k, x : req' = [req EXCEPT ![k] = x]
             /\ decisions' = decisions /\ uses' = uses
  <2>1. req' = req \/ req' = [req EXCEPT
          ![ballot[b].req] = [req[ballot[b].req] EXCEPT
             !.status = ballot[b].verdict, !.keyed = FALSE]]
    BY <1>a, <1>4 DEF Finalise
  <2>2. QED
    BY <1>4, <2>1 DEF Finalise
<1>5. ASSUME NEW c \in Attempts, Execute(c)
      PROVE  req' = req /\ decisions' = decisions
  BY <1>5 DEF Execute
<1>6. ASSUME NEW b \in Ballots, RecordDecision(b)
      PROVE  req' = req /\ uses' = uses
  BY <1>6 DEF RecordDecision
<1>7. QED
  BY <1>1, <1>2, <1>3, <1>4, <1>5, <1>6

\* Who assented depends on the votes alone.
LEMMA AssentSame ==
  decisions' = decisions => assentBar' = assentBar
BY DEF assentBar, Signers, Approvals, Votes

\* What a request asks for is what its row says.
LEMMA IntentOf ==
  ASSUME Inductive, NEW i \in ReqId, Raised(i)
  PROVE  /\ intentBar[i].maker = req[i].requester
         /\ intentBar[i].matter = <<req[i].action, req[i].entity>>
         /\ intentBar[i].quorum = req[i].required
         /\ intentBar[i] \in Promise!Intent
<1>1. req[i] \in Request
  BY Busy DEF Inductive
<1>2. intentBar[i] = [maker |-> req[i].requester,
                      matter |-> <<req[i].action, req[i].entity>>,
                      size |-> req[i].amount, quorum |-> req[i].required]
  BY DEF intentBar
<1>3. QED
  BY <1>1, <1>2 DEF Request, Promise!Intent

\* Rows that stay as they are map to what they mapped to.
LEMMA MappedSame ==
  ASSUME NEW i \in ReqId, \A j \in ReqId \ {i} : req'[j] = req[j]
  PROVE  /\ intentBar' = [intentBar EXCEPT ![i] = intentBar'[i]]
         /\ fateBar' = [fateBar EXCEPT ![i] = fateBar'[i]]
<1>1. intentBar' = [intentBar EXCEPT ![i] = intentBar'[i]]
  BY DEF intentBar, Raised
<1>2. fateBar' = [fateBar EXCEPT ![i] = fateBar'[i]]
  BY DEF fateBar
<1>3. QED
  BY <1>1, <1>2

\* A row whose terms stay and which was raised keeps its intent.
LEMMA IntentSame ==
  ASSUME Inductive, [Next]_vars, NEW i \in ReqId, Raised(i)
  PROVE  intentBar'[i] = intentBar[i]
<1>1. Raised(i)' /\ Frozen(i)
  BY StepHolds DEF Holds
<1>2. QED
  BY <1>1 DEF Frozen, intentBar, Raised

\* A write to a row is an act of the control, or invisible.
LEMMA RowStepMaps ==
  ASSUME Inductive, [Next]_vars, NEW i \in ReqId, req'[i] # req[i],
         \A j \in ReqId \ {i} : req'[j] = req[j],
         decisions' = decisions, uses' = uses
  PROVE  [Promise!MCNext]_(Promise!mcvars)
<1>a. /\ intentBar' = [intentBar EXCEPT ![i] = intentBar'[i]]
      /\ fateBar' = [fateBar EXCEPT ![i] = fateBar'[i]]
  BY MappedSame
<1>b. assentBar' = assentBar /\ uses' = uses
  BY AssentSame
<1>c. intentBar \in [ReqId -> {intentBar[j] : j \in ReqId}]
  BY DEF intentBar
<1>d. fateBar'[i] = Fate[req'[i].status]
  BY DEF fateBar
<1>e. Raised(i) => intentBar' = intentBar
  BY <1>a, <1>c, IntentSame
<1>f. Raised(i) => req[i] \in Request
  BY Busy DEF Inductive
<1>1. CASE /\ Raised(i) /\ req[i].status = "approved"
           /\ req'[i] = [req[i] EXCEPT !.status = "consumed"]
  <2>1. fateBar[i] = "granted" /\ fateBar'[i] = "spent"
    BY <1>1, <1>d, <1>f, FateOf, Fates DEF Request
  <2>2. Promise!Spend(i)
    BY <1>1, <1>a, <1>b, <1>e, <2>1 DEF Promise!Spend
  <2>3. QED
    BY <2>2 DEF Promise!MCNext
<1>2. CASE /\ Raised(i)
           /\ \E k \in ReqId \cup {NoReq} :
                req'[i] = [req[i] EXCEPT !.supersedes = k]
  <2>1. req'[i].status = req[i].status
    BY <1>2, <1>f DEF Request
  <2>2. fateBar' = fateBar
    BY <1>a, <2>1 DEF fateBar
  <2>3. QED
    BY <1>2, <1>b, <1>e, <2>2 DEF Promise!mcvars
<1>3. CASE /\ Raised(i) /\ req[i].status = "pending"
           /\ \E v \in Verdicts :
                /\ req'[i] = [req[i] EXCEPT !.status = v, !.keyed = FALSE]
                /\ v = "approved" => SignedOff(i)
  <2>1. PICK v \in Verdicts :
               /\ req'[i] = [req[i] EXCEPT !.status = v, !.keyed = FALSE]
               /\ v = "approved" => SignedOff(i)
    BY <1>3
  <2>2. fateBar[i] = "open" /\ fateBar'[i] = Fate[v]
    BY <1>3, <1>d, <1>f, <2>1, FateOf DEF Request
  <2>3. CASE v = "approved"
    <3>1. Cardinality(assentBar[i]) >= intentBar[i].quorum
      <4>1. Cardinality(Signers(i)) >= req[i].required
        BY <2>1, <2>3, SignersAreApprovals DEF SignedOff
      <4>2. assentBar[i] = Signers(i)
        BY DEF assentBar
      <4>3. QED
        BY <1>3, <4>1, <4>2, IntentOf
    <3>2. Promise!Grant(i)
      BY <1>3, <1>a, <1>b, <1>e, <2>2, <2>3, <3>1, Fates, SameCount DEF Promise!Grant
    <3>3. QED
      BY <3>2 DEF Promise!MCNext
  <2>4. CASE v = "rejected"
    <3>1. Promise!Refuse(i)
      BY <1>3, <1>a, <1>b, <1>e, <2>2, <2>4, Fates DEF Promise!Refuse
    <3>2. QED
      BY <3>1 DEF Promise!MCNext
  <2>5. QED
    BY <2>3, <2>4 DEF Verdicts
<1>4. CASE /\ ~Raised(i)
           /\ req'[i] \in Request
           /\ req'[i].status = "pending" /\ req'[i].keyed
           /\ ~KeyTaken(req'[i].requester, req'[i].action, req'[i].entity)
           /\ \A j \in ReqId : j # i => req'[j] = req[j]
  <2>1. fateBar[i] = "unasked" /\ fateBar'[i] = "open"
    BY <1>4, <1>d, FateOf, Fates
  <2>2. intentBar'[i] = [maker |-> req'[i].requester,
                         matter |-> <<req'[i].action, req'[i].entity>>,
                         size |-> req'[i].amount, quorum |-> req'[i].required]
    <3>1. req'[i] # NoRequest
      BY <1>4 DEF NoRequest
    <3>2. QED
      BY <3>1 DEF intentBar, Raised
  <2>3. intentBar'[i] \in Promise!Intent
    BY <1>4, <2>2 DEF Request, Promise!Intent
  <2>4. ASSUME NEW j \in ReqId, fateBar[j] = "open"
        PROVE  \/ intentBar[j].maker # intentBar'[i].maker
               \/ intentBar[j].matter # intentBar'[i].matter
    <3>1. Raised(j) /\ req[j].status = "pending"
      BY <2>4, FateOf
    <3>2. req[j].keyed
      BY <3>1 DEF Inductive, RowsInv
    <3>3. \/ req[j].requester # req'[i].requester
          \/ req[j].action # req'[i].action
          \/ req[j].entity # req'[i].entity
      BY <1>4, <3>1, <3>2 DEF KeyTaken, SameKey
    <3>4. QED
      BY <2>2, <3>1, <3>3, IntentOf
  <2>5. Promise!Ask(i, intentBar'[i])
    BY <1>a, <1>b, <2>1, <2>4 DEF Promise!Ask
  <2>6. QED
    BY <2>3, <2>5 DEF Promise!MCNext
<1>5. QED
  BY <1>1, <1>2, <1>3, <1>4, RowChange

\* A recorded approval is an assent; a recorded rejection is invisible.
LEMMA VoteMaps ==
  ASSUME Inductive, [Next]_vars, NEW b \in Ballots, RecordDecision(b),
         req' = req, uses' = uses
  PROVE  [Promise!MCNext]_(Promise!mcvars)
<1> DEFINE t == ballot[b]
           new == [req |-> t.req, approver |-> t.user, role |-> t.role,
                   verdict |-> t.verdict]
<1>a. intentBar' = intentBar /\ fateBar' = fateBar
  BY DEF intentBar, fateBar, Raised
<1>b. t \in Ballot /\ t # Idle
  BY Busy DEF RecordDecision, Inductive, Idle
<1>c. t.req \in ReqId /\ t.user \in Users
  BY <1>b DEF Ballot
<1>1. CASE decisions' = decisions
  BY <1>1, <1>a, AssentSame DEF Promise!mcvars
<1>2. CASE ~HasVoted(t.user, t.req) /\ decisions' = decisions \cup {new}
  <2>1. new.req = t.req /\ new.approver = t.user /\ new.verdict = t.verdict
    OBVIOUS
  <2> HIDE DEF new
  <2>2. CASE t.verdict # "approved"
    <3>1. \A i \in ReqId : Approvals(i)' = Approvals(i)
      BY <1>2, <2>1, <2>2 DEF Approvals, Votes
    <3>2. assentBar' = assentBar
      BY <3>1 DEF assentBar, Signers
    <3>3. QED
      BY <1>a, <3>2 DEF Promise!mcvars
  <2>3. CASE t.verdict = "approved"
    <3>1. \A i \in ReqId : Approvals(i)' =
            IF i = t.req THEN Approvals(i) \cup {new} ELSE Approvals(i)
      BY <1>2, <2>1, <2>3 DEF Approvals, Votes
    <3>2. \A i \in ReqId : Signers(i)' =
            IF i = t.req THEN Signers(i) \cup {t.user} ELSE Signers(i)
      BY <2>1, <3>1 DEF Signers
    <3>3. assentBar' = [assentBar EXCEPT ![t.req] = @ \cup {t.user}]
      BY <1>c, <3>2 DEF assentBar
    <3>4. t.user \notin assentBar[t.req]
      BY <1>2, <1>c DEF assentBar, Signers, Approvals, Votes, HasVoted
    <3>5. Raised(t.req) /\ t.user # req[t.req].requester
      BY <1>b DEF Inductive, BallotsInv
    <3>6. fateBar[t.req] # "unasked" /\ t.user # intentBar[t.req].maker
      BY <1>c, <3>5, FateOf, IntentOf
    <3>7. Promise!Assent(t.req, t.user)
      BY <1>a, <3>3, <3>4, <3>6 DEF Promise!Assent
    <3>8. QED
      BY <1>c, <3>7 DEF Promise!MCNext
  <2>4. QED
    BY <2>2, <2>3
<1>3. QED
  BY <1>1, <1>2 DEF RecordDecision

\* The gated write is the act the spent grant admits.
LEMMA WriteMaps ==
  ASSUME Inductive, [Next]_vars, NEW c \in Attempts, Execute(c),
         req' = req, decisions' = decisions
  PROVE  [Promise!MCNext]_(Promise!mcvars)
<1> DEFINE i == attempt[c].req
<1>1. /\ i \in ReqId /\ Raised(i) /\ req[i].status = "consumed" /\ uses[i] = 0
  BY DEF Execute, Inductive, AttemptsInv, SameKey
<1>2. uses' = [uses EXCEPT ![i] = 1]
  BY <1>1 DEF Execute, Inductive, TypeOK
<1>3. intentBar' = intentBar /\ fateBar' = fateBar /\ assentBar' = assentBar
  BY AssentSame DEF intentBar, fateBar, Raised
<1>4. fateBar[i] = "spent"
  BY <1>1, FateOf
<1>5. Promise!Perform(i)
  BY <1>1, <1>2, <1>3, <1>4 DEF Promise!Perform
<1>6. QED
  BY <1>1, <1>5 DEF Promise!MCNext

\* An empty approvals table is a control nobody has asked anything of.
LEMMA InitMaps == Init => Promise!MCInit
<1> SUFFICES ASSUME Init PROVE Promise!MCInit
  OBVIOUS
<1>1. \A i \in ReqId : ~Raised(i) /\ req[i].status = "none"
  BY DEF Init, Raised, NoRequest
<1>2. intentBar = [i \in ReqId |-> Promise!NoIntent]
  BY <1>1 DEF intentBar, Promise!NoIntent
<1>3. assentBar = [i \in ReqId |-> {}]
  BY DEF Init, assentBar, Signers, Approvals, Votes
<1>4. fateBar = [i \in ReqId |-> "unasked"]
  BY <1>1, Fates DEF fateBar
<1>5. QED
  BY <1>2, <1>3, <1>4 DEF Init, Promise!MCInit

\* Every statement of a handler is a step of the control, or no step of it.
LEMMA NextMaps == Inductive /\ [Next]_vars => [Promise!MCNext]_(Promise!mcvars)
<1> SUFFICES ASSUME Inductive, [Next]_vars
             PROVE  [Promise!MCNext]_(Promise!mcvars)
  OBVIOUS
<1>1. CASE req' = req /\ decisions' = decisions /\ uses' = uses
  <2>1. intentBar' = intentBar /\ fateBar' = fateBar
    BY <1>1 DEF intentBar, fateBar, Raised
  <2>2. QED
    BY <1>1, <2>1, AssentSame DEF Promise!mcvars
<1>2. QED
  BY <1>1, OneTable, RowStepMaps, VoteMaps, WriteMaps

\* The handlers of approvals.go, interleaved in any way and failing anywhere,
\* implement the abstract maker-checker control.
THEOREM Refinement == Spec => KeepsPromise
BY InitMaps, NextMaps, InductiveInvariant, PTL
   DEF Spec, KeepsPromise, Promise!MCSpec
=============================================================================
