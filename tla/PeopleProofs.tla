---------------------------- MODULE PeopleProofs -----------------------------
(***************************************************************************)
(* The people's side: the steps of a capstone, the guests of an event, an   *)
(* enrolment that becomes an account and the e-mail about a notice, for any *)
(* number of milestones, papers, guests, enrolments, notices, replicas,     *)
(* faults and requests running at once; and, of these and the components of *)
(* TradeProofs together, that every row keeps its shape.                    *)
(***************************************************************************)
EXTENDS MCBackOffice, TradeProofs, Notifications, FiniteSetTheorems

(* The steps of a capstone *)

Says ==
  {"submitted", "accepted", "revise", "reviewed", "pending", "approved", "denied"}

Paper ==
  [kind : Steps \cup {"progress", "extension"}, status : Says, reviewed : BOOLEAN,
   file : Nat]

\* The step before was accepted at some time.
Unlocked(kind) ==
  \A k \in 2 .. Len(Pipeline) : kind = Pipeline[k] =>
    \E j \in admitted : papers[j].kind = Pipeline[k - 1]

\* What an upload under way has found out, and has stored.
HandKnows(t) ==
  /\ t.pc = "gate" => t.k \in 2 .. 3 /\ t = [pc |-> "gate", k |-> t.k]
  /\ t.pc = "store" => t.k \in 1 .. 3 /\ Unlocked(Pipeline[t.k])
  /\ t.pc = "insert" => t.kind \in Steps /\ t.file \in 1 .. stored /\ Unlocked(t.kind)

Rows ==
  /\ papers \in Seq(Paper) /\ stored \in Nat /\ admitted \subseteq DOMAIN papers
  /\ \A i \in DOMAIN papers : papers[i].status = "accepted" => i \in admitted

HubInv ==
  /\ Rows /\ StepsInOrder
  /\ DOMAIN hand = Hands
  /\ \A h \in Hands : HandKnows(hand[h])

LEMMA PipelineFacts ==
  /\ Len(Pipeline) = 3 /\ DOMAIN Pipeline = 1 .. 3
  /\ Steps = {"proposal", "report", "final"}
  /\ \A k \in 1 .. 3 : Pipeline[k] \in Steps
  /\ \A k, l \in 1 .. 3 : Pipeline[k] = Pipeline[l] => k = l
<1>1. Len(Pipeline) = 3 /\ DOMAIN Pipeline = 1 .. 3
  BY DEF Pipeline
<1>2. Pipeline[1] = "proposal" /\ Pipeline[2] = "report" /\ Pipeline[3] = "final"
  BY DEF Pipeline
<1>3. \A k \in 1 .. 3 : k = 1 \/ k = 2 \/ k = 3
  OBVIOUS
<1>4. QED
  BY <1>1, <1>2, <1>3 DEF Steps

\* Rows keep what they are about; files and acceptances are not forgotten.
Grows ==
  /\ DOMAIN papers \subseteq DOMAIN papers'
  /\ \A i \in DOMAIN papers :
       papers'[i].kind = papers[i].kind /\ papers'[i].file = papers[i].file
  /\ admitted \subseteq admitted' /\ stored <= stored'

LEMMA KnowledgeLasts ==
  ASSUME Rows, Grows, stored' \in Nat
  PROVE  /\ \A kind : Unlocked(kind) => Unlocked(kind)'
         /\ \A t : HandKnows(t) => HandKnows(t)'
<1>1. \A kind : Unlocked(kind) => Unlocked(kind)'
  BY DEF Unlocked, Rows, Grows
<1>2. \A t : HandKnows(t) => HandKnows(t)'
  BY <1>1 DEF HandKnows, Rows, Grows
<1>3. QED
  BY <1>1, <1>2

LEMMA OldRowsStay ==
  ASSUME Rows, Grows, stored' \in Nat, StepsInOrder, DOMAIN papers' = DOMAIN papers
  PROVE  StepsInOrder'
BY DEF StepsInOrder, Rows, Grows

\* Only one request's locals change, to what is known.
LEMMA OneTakes ==
  ASSUME HubInv, Grows, stored' \in Nat, NEW h \in Hands, \E t : Takes(h, t),
         HandKnows(hand[h])'
  PROVE  DOMAIN hand' = Hands /\ \A g \in Hands : HandKnows(hand[g])'
<1>1. DOMAIN hand' = Hands /\ \A g \in Hands \ {h} : hand'[g] = hand[g]
  BY DEF HubInv, Takes
<1>2. \A g \in Hands \ {h} : HandKnows(hand[g])'
  BY <1>1, KnowledgeLasts DEF HubInv
<1>3. QED
  BY <1>1, <1>2

LEMMA AcceptedIsAdmitted ==
  ASSUME Rows, NEW k \in 2 .. 3, Accepted(Pipeline[k - 1])
  PROVE  Unlocked(Pipeline[k])
BY PipelineFacts DEF Rows, Accepted, Unlocked

LEMMA NothingKnown == HandKnows(NoHand)
BY DEF HandKnows, NoHand

\* A row of a kind that is unlocked, with its file, or no row of a step at all.
LEMMA NewPaperInOrder ==
  ASSUME HubInv, NEW kind \in Steps \cup {"progress", "extension"},
         NEW file \in 0 .. stored, NewPaper(kind, file), UNCHANGED <<stored, admitted>>,
         kind \in Steps => file >= 1 /\ Unlocked(kind)
  PROVE  Rows' /\ StepsInOrder' /\ Grows /\ stored' \in Nat
<1>0. papers \in Seq(Paper) /\ stored \in Nat
  BY DEF HubInv, Rows
<1>1. PICK first \in {"submitted", "pending"} : first = Answers(kind)[1]
  BY DEF Answers
<1> DEFINE p == [kind |-> kind, status |-> first, reviewed |-> FALSE, file |-> file]
<1>2. p \in Paper
  BY <1>0 DEF Paper, Says
<1>3. papers' = Append(papers, p)
  BY <1>1 DEF NewPaper
<1>5. p.status # "accepted" /\ p.kind = kind /\ p.file = file
  OBVIOUS
<1> HIDE DEF p
<1>4. /\ papers' \in Seq(Paper) /\ DOMAIN papers' = DOMAIN papers \cup {Len(papers) + 1}
      /\ \A i \in DOMAIN papers : papers'[i] = papers[i]
      /\ papers'[Len(papers) + 1] = p
      /\ \A i \in DOMAIN papers : i < Len(papers) + 1
  BY <1>0, <1>2, <1>3
<1>6. Rows'
  BY <1>4, <1>5 DEF HubInv, Rows
<1>7. Grows /\ stored' \in Nat
  BY <1>0, <1>4 DEF Grows
<1>8. StepsInOrder'
  <2> SUFFICES ASSUME NEW i \in DOMAIN papers', papers'[i].kind \in Steps
               PROVE  /\ papers'[i].file \in 1 .. stored
                      /\ \A k \in 2 .. Len(Pipeline) : papers'[i].kind = Pipeline[k] =>
                           \E j \in admitted : j < i /\ papers'[j].kind = Pipeline[k - 1]
    BY DEF StepsInOrder
  <2>1. CASE i \in DOMAIN papers
    BY <2>1, <1>4 DEF HubInv, Rows, StepsInOrder
  <2>2. CASE i = Len(papers) + 1
    BY <2>2, <1>0, <1>4, <1>5 DEF HubInv, Rows, Unlocked
  <2>3. QED
    BY <2>1, <2>2, <1>4
<1>9. QED
  BY <1>6, <1>7, <1>8

LEMMA HubInitInv == HubInit => HubInv
BY NothingKnown DEF HubInit, HubInv, Rows, StepsInOrder

\* A step that adds no row of a step and takes back no answer keeps the rows.
LEMMA RowsStay ==
  ASSUME HubInv, UNCHANGED <<papers, admitted>>, stored' \in Nat, stored <= stored'
  PROVE  Rows' /\ StepsInOrder' /\ Grows
<1>1. Grows /\ Rows'
  BY DEF HubInv, Rows, Grows
<1>2. QED
  BY <1>1, OldRowsStay DEF HubInv

LEMMA AnswerInv ==
  ASSUME HubInv, NEW i \in DOMAIN papers, NEW answer \in Says, Answer(i, answer)
  PROVE  HubInv'
<1>0. papers \in Seq(Paper) /\ papers[i] \in Paper
  BY DEF HubInv, Rows
<1>1. PICK r \in BOOLEAN : r = (answer # Answers(papers[i].kind)[1])
  OBVIOUS
<1>2. papers' = [papers EXCEPT ![i].status = answer, ![i].reviewed = r]
  BY <1>1 DEF Answer
<1> DEFINE new == [papers[i] EXCEPT !.status = answer, !.reviewed = r]
<1>3. /\ new \in Paper /\ new.status = answer
      /\ new.kind = papers[i].kind /\ new.file = papers[i].file
  BY <1>0 DEF Paper
<1>4. papers' = [papers EXCEPT ![i] = new]
  BY <1>0, <1>2 DEF Paper
<1> HIDE DEF new
<1>5. /\ papers' \in Seq(Paper) /\ DOMAIN papers' = DOMAIN papers
      /\ \A j \in DOMAIN papers : papers'[j] = IF j = i THEN new ELSE papers[j]
  BY <1>0, <1>3, <1>4
<1>6. /\ UNCHANGED <<stored, hand>>
      /\ admitted' = IF answer = "accepted" THEN admitted \cup {i} ELSE admitted
  BY DEF Answer
<1>7. Grows /\ Rows' /\ stored' \in Nat
  BY <1>3, <1>5, <1>6 DEF Grows, Rows, HubInv
<1>8. StepsInOrder'
  BY <1>5, <1>7, OldRowsStay DEF HubInv
<1>9. \A h \in Hands : HandKnows(hand[h])'
  BY <1>6, <1>7, KnowledgeLasts DEF HubInv
<1>10. QED
  BY <1>6, <1>7, <1>8, <1>9 DEF HubInv

LEMMA AnswersSay ==
  ASSUME NEW kind, NEW k \in DOMAIN Answers(kind)
  PROVE  Answers(kind)[k] \in Says
BY DEF Answers, Says
\* A request in hand goes on, or ends, and writes no row of a step.
LEMMA GoesOn ==
  ASSUME HubInv, NEW h \in Hands, \E t : Takes(h, t), HandKnows(hand[h])',
         UNCHANGED <<papers, admitted>>, stored' \in Nat, stored <= stored'
  PROVE  HubInv'
BY RowsStay, OneTakes DEF HubInv

LEMMA HubNextInv == HubInv /\ [HubNext]_hvars => HubInv'
<1> SUFFICES ASSUME HubInv, [HubNext]_hvars PROVE HubInv'
  OBVIOUS
<1>0. stored \in Nat /\ DOMAIN hand = Hands /\ \A h \in Hands : HandKnows(hand[h])
  BY DEF HubInv, Rows
<1>a. \A h \in Hands : \A t : Takes(h, t) => hand'[h] = t
  BY <1>0 DEF Takes
<1>1. ASSUME NEW h \in Hands, NEW m \in Milestones,
             BeginRecount(h, m)
             \/ \E s \in OpenStatuses \cup {"completed"} : BeginMilestone(h, m, s)
      PROVE  HubInv'
  <2>1. /\ \E t : Takes(h, t) /\ t.pc \in {"write", "count"}
        /\ UNCHANGED <<papers, admitted, stored>>
    <3>1. CASE BeginRecount(h, m)
      <4>1. Takes(h, [pc |-> "count"])
        BY <3>1 DEF BeginRecount, Starts
      <4>2. QED
        BY <3>1, <4>1 DEF BeginRecount
    <3>2. ASSUME NEW s, BeginMilestone(h, m, s)
          PROVE  /\ \E t : Takes(h, t) /\ t.pc \in {"write", "count"}
                 /\ UNCHANGED <<papers, admitted, stored>>
      <4>1. Takes(h, [pc |-> "write", m |-> m, status |-> s])
        BY <3>2 DEF BeginMilestone, Starts
      <4>2. QED
        BY <3>2, <4>1 DEF BeginMilestone
    <3>3. QED
      BY <1>1, <3>1, <3>2
  <2>2. HandKnows(hand[h])'
    BY <2>1, <1>a DEF HandKnows
  <2>3. QED
    BY <2>1, <2>2, <1>0, GoesOn
<1>2. ASSUME NEW h \in Hands,
             WriteMilestone(h) \/ CountCompleted(h) \/ SetProgress(h) \/ Overlook(h)
             \/ DropHand(h)
      PROVE  HubInv'
  <2>1. /\ \E t : Takes(h, t) /\ t.pc \in {"none", "count", "progress"}
        /\ UNCHANGED <<papers, admitted, stored>>
    BY <1>2 DEF WriteMilestone, CountCompleted, SetProgress, Overlook, DropHand, NoHand
  <2>2. HandKnows(hand[h])'
    BY <2>1, <1>a DEF HandKnows
  <2>3. QED
    BY <2>1, <2>2, <1>0, GoesOn
<1>3. ASSUME NEW h \in Hands, NEW k \in DOMAIN Pipeline, BeginSubmission(h, k)
      PROVE  HubInv'
  <2>1. /\ Takes(h, [pc |-> IF k = 1 THEN "store" ELSE "gate", k |-> k])
        /\ UNCHANGED <<papers, admitted, stored>>
    BY <1>3 DEF BeginSubmission
  <2>2. hand'[h] = [pc |-> IF k = 1 THEN "store" ELSE "gate", k |-> k]
    BY <2>1, <1>a
  <2>3. k \in 1 .. 3 /\ Unlocked(Pipeline[1])'
    BY PipelineFacts DEF Unlocked
  <2>4. HandKnows(hand[h])'
    BY <2>2, <2>3 DEF HandKnows
  <2>5. QED
    BY <2>1, <2>4, <1>0, GoesOn
<1>4. ASSUME NEW h \in Hands, CheckPrevious(h)
      PROVE  HubInv'
  <2>1. /\ hand[h].pc = "gate" /\ hand[h].k \in 2 .. 3
        /\ hand[h] = [pc |-> "gate", k |-> hand[h].k]
        /\ UNCHANGED <<papers, admitted, stored>>
    BY <1>0, <1>4 DEF CheckPrevious, HandKnows
  <2>2. CASE Accepted(Pipeline[hand[h].k - 1])
    <3>1. Takes(h, [hand[h] EXCEPT !.pc = "store"])
      BY <1>4, <2>2 DEF CheckPrevious
    <3>2. hand'[h].pc = "store" /\ hand'[h].k = hand[h].k
      BY <2>1, <3>1, <1>a
    <3>3. Unlocked(Pipeline[hand[h].k])
      BY <2>1, <2>2, AcceptedIsAdmitted DEF HubInv
    <3>4. HandKnows(hand[h])'
      BY <2>1, <3>2, <3>3 DEF HandKnows, Unlocked
    <3>5. QED
      BY <2>1, <3>1, <3>4, <1>0, GoesOn
  <2>3. CASE ~Accepted(Pipeline[hand[h].k - 1])
    <3>1. Takes(h, NoHand)
      BY <1>4, <2>3 DEF CheckPrevious
    <3>2. HandKnows(hand[h])'
      BY <3>1, <1>a DEF HandKnows, NoHand
    <3>3. QED
      BY <2>1, <3>1, <3>2, <1>0, GoesOn
  <2>4. QED
    BY <2>2, <2>3
<1>5. ASSUME NEW h \in Hands, StoreUpload(h)
      PROVE  HubInv'
  <2>1. hand[h].pc = "store" /\ hand[h].k \in 1 .. 3 /\ Unlocked(Pipeline[hand[h].k])
    BY <1>0, <1>5 DEF StoreUpload, HandKnows
  <2>2. /\ Takes(h, [pc |-> "insert", kind |-> Pipeline[hand[h].k], file |-> stored'])
        /\ stored' = stored + 1 /\ UNCHANGED <<papers, admitted>>
    BY <1>5 DEF StoreUpload
  <2>3. hand'[h] = [pc |-> "insert", kind |-> Pipeline[hand[h].k], file |-> stored']
    BY <2>2, <1>a
  <2>4. HandKnows(hand[h])'
    BY <1>0, <2>1, <2>2, <2>3, PipelineFacts DEF HandKnows, Unlocked
  <2>5. QED
    BY <2>2, <2>4, <1>0, GoesOn
<1>6. ASSUME NEW h \in Hands, InsertSubmission(h)
      PROVE  HubInv'
  <2>1. hand[h].kind \in Steps /\ hand[h].file \in 1 .. stored /\ Unlocked(hand[h].kind)
    BY <1>0, <1>6 DEF InsertSubmission, HandKnows
  <2>2. /\ NewPaper(hand[h].kind, hand[h].file) /\ Takes(h, NoHand)
        /\ UNCHANGED <<stored, admitted>>
    BY <1>6 DEF InsertSubmission
  <2>3. Rows' /\ StepsInOrder' /\ Grows /\ stored' \in Nat
    BY <1>0, <2>1, <2>2, NewPaperInOrder
  <2>4. HandKnows(hand[h])'
    BY <2>2, <1>a DEF HandKnows, NoHand
  <2>5. QED
    BY <2>2, <2>3, <2>4, OneTakes DEF HubInv
<1>7. ASSUME ReportProgress \/ RequestExtension
      PROVE  HubInv'
  <2>1. /\ NewPaper("progress", 0) \/ NewPaper("extension", 0)
        /\ UNCHANGED <<stored, admitted, hand>>
    BY <1>7 DEF ReportProgress, RequestExtension
  <2>2. Rows' /\ StepsInOrder' /\ Grows /\ stored' \in Nat
    BY <1>0, <2>1, NewPaperInOrder, PipelineFacts
  <2>3. \A h \in Hands : HandKnows(hand[h])'
    BY <1>0, <2>1, <2>2, KnowledgeLasts DEF HubInv
  <2>4. QED
    BY <1>0, <2>1, <2>2, <2>3 DEF HubInv
<1>8. ASSUME NEW i \in DOMAIN papers, NEW k \in DOMAIN Answers(papers[i].kind),
             Answer(i, Answers(papers[i].kind)[k])
      PROVE  HubInv'
  BY <1>8, AnswersSay, AnswerInv
<1>9. CASE UNCHANGED hvars
  <2>1. /\ UNCHANGED <<papers, admitted, stored, hand>>
        /\ \A h \in Hands : HandKnows(hand[h])'
    BY <1>0, <1>9, KnowledgeLasts, RowsStay DEF hvars, HubInv
  <2>2. QED
    BY <1>0, <2>1, RowsStay DEF HubInv
<1>10. QED
  BY <1>1, <1>2, <1>3, <1>4, <1>5, <1>6, <1>7, <1>8, <1>9
  DEF HubNext, ReviewSubmission, RespondProgressReport, RespondExtension

\* Rows of every kind and the requests that are about to add one stay in order.
THEOREM HubInvariant == HubSpec => []HubInv
<1>1. HubInit => HubInv
  BY HubInitInv
<1>2. HubInv /\ [HubNext]_hvars => HubInv'
  BY HubNextInv
<1>3. QED
  BY <1>1, <1>2, PTL DEF HubSpec

\* However uploads, reviews and failures overlap, what is handed in for a step has
\* its file and an earlier, once accepted row of the step before (CreateSubmission,
\* AdminReviewSubmission).
THEOREM StepsInOrderHolds == HubSpec => []StepsInOrder
<1>1. HubInv => StepsInOrder
  BY DEF HubInv
<1>2. QED
  BY <1>1, HubInvariant, PTL
-----------------------------------------------------------------------------
(* Progress *)

ProgressStands ==
  \/ progress = Percent(Cardinality(signedOff))
  \/ progress = Born /\ signedOff = Oriented

\* What the request under way has looked up, while no other runs.
TurnKnows(h) ==
  /\ hand[h].pc = "write" =>
       hand[h] = [pc |-> "write", m |-> hand[h].m, status |-> hand[h].status]
       /\ hand[h].m \in Milestones
  /\ h \in Students /\ hand[h].pc = "write" =>
       hand[h].status # "completed" /\ milestone[hand[h].m] # "completed"
  /\ hand[h].pc = "progress" => hand[h].completed = Cardinality(Completed)

Counting(h) == hand[h].pc \in {"count", "progress"}

ProgressInv ==
  /\ DOMAIN hand = Hands /\ DOMAIN milestone = Milestones
  /\ smooth =>
       /\ \A g, h \in Hands : hand[g] # NoHand /\ hand[h] # NoHand => g = h
       /\ \A h \in Hands : TurnKnows(h)
       /\ signedOff = Completed
       /\ (\A h \in Hands : ~Counting(h)) => ProgressStands

\* Milestones, progress and sign-offs rest, and a request's locals change.
LEMMA ProgressRests ==
  ASSUME ProgressInv, NEW h \in Hands, \E t : Takes(h, t),
         UNCHANGED <<milestone, progress, signedOff>>, smooth' => TurnKnows(h)',
         smooth' => smooth /\ ~Counting(h) /\ \A g \in Hands \ {h} : hand[g] = NoHand
  PROVE  ProgressInv'
<1>1. /\ DOMAIN hand' = Hands /\ DOMAIN milestone' = Milestones
      /\ \A g \in Hands \ {h} : hand'[g] = hand[g]
  BY DEF ProgressInv, Takes
<1>2. ASSUME smooth'
      PROVE  /\ \A f, g \in Hands : hand'[f] # NoHand /\ hand'[g] # NoHand => f = g
             /\ \A g \in Hands : TurnKnows(g)'
             /\ signedOff' = Completed'
             /\ ProgressStands'
  <2>1. smooth /\ ~Counting(h) /\ \A g \in Hands \ {h} : hand[g] = NoHand
    BY <1>2
  <2>2. \A g \in Hands \ {h} : TurnKnows(g)' /\ ~Counting(g)
    BY <1>1, <2>1 DEF TurnKnows, Counting, NoHand
  <2>3. ProgressStands /\ signedOff = Completed
    BY <2>1, <2>2 DEF ProgressInv
  <2>4. QED
    BY <1>1, <1>2, <2>1, <2>2, <2>3 DEF ProgressStands, Completed
<1>3. QED
  BY <1>1, <1>2 DEF ProgressInv
LEMMA ProgressInitInv == HubInit => ProgressInv
<1> SUFFICES ASSUME HubInit PROVE ProgressInv
  OBVIOUS
<1>1. /\ DOMAIN milestone = Milestones /\ hand = [h \in Hands |-> NoHand]
      /\ Oriented = Completed /\ signedOff = Oriented /\ progress = Born
  BY DEF HubInit, Completed
<1>2. \A h \in Hands : TurnKnows(h)
  BY <1>1 DEF TurnKnows, NoHand
<1>3. QED
  BY <1>1, <1>2 DEF ProgressInv, ProgressStands

LEMMA ProgressNextInv == HubInv /\ ProgressInv /\ [HubNext]_hvars => ProgressInv'
<1> SUFFICES ASSUME HubInv, ProgressInv, [HubNext]_hvars PROVE ProgressInv'
  OBVIOUS
<1>0. DOMAIN hand = Hands /\ DOMAIN milestone = Milestones
  BY DEF ProgressInv
<1>a. \A h \in Hands : \A t : Takes(h, t) => hand'[h] = t
  BY <1>0 DEF Takes
<1>b. ASSUME NEW h \in Hands, hand[h].pc # "none", smooth
      PROVE  TurnKnows(h) /\ \A g \in Hands \ {h} : hand[g] = NoHand
  BY <1>b DEF ProgressInv, NoHand
<1>1. ASSUME NEW h \in Hands, NEW m \in Milestones, BeginRecount(h, m)
      PROVE  ProgressInv'
  <2>1. /\ Takes(h, [pc |-> "count"]) /\ hand[h] = NoHand
        /\ UNCHANGED <<milestone, progress, signedOff>>
        /\ smooth' => smooth /\ \A g \in Hands \ {h} : hand[g] = NoHand
    BY <1>1 DEF BeginRecount, Starts, HandsFree
  <2>2. TurnKnows(h)'
    BY <2>1, <1>a DEF TurnKnows
  <2>3. ~Counting(h)
    BY <2>1 DEF Counting, NoHand
  <2>4. QED
    BY <2>1, <2>2, <2>3, ProgressRests
<1>2. ASSUME NEW h \in Hands, NEW m \in Milestones, NEW s, BeginMilestone(h, m, s)
      PROVE  ProgressInv'
  <2>1. /\ Takes(h, [pc |-> "write", m |-> m, status |-> s]) /\ hand[h] = NoHand
        /\ UNCHANGED <<milestone, progress, signedOff>>
        /\ smooth' => smooth /\ \A g \in Hands \ {h} : hand[g] = NoHand
        /\ h \in Students => s # "completed" /\ milestone[m] # "completed"
    BY <1>2 DEF BeginMilestone, Starts, HandsFree, Locked
  <2>2. hand'[h] = [pc |-> "write", m |-> m, status |-> s]
    BY <2>1, <1>a
  <2>3. TurnKnows(h)'
    BY <2>1, <2>2 DEF TurnKnows
  <2>4. ~Counting(h)
    BY <2>1 DEF Counting, NoHand
  <2>5. QED
    BY <2>1, <2>3, <2>4, ProgressRests
<1>3. ASSUME NEW h \in Hands, WriteMilestone(h)
      PROVE  ProgressInv'
  <2> DEFINE t == hand[h]
             done == t.status = "completed"
  <2>1. /\ t.pc = "write" /\ milestone' = [milestone EXCEPT ![t.m] = t.status]
        /\ signedOff' = IF h \in Mentors THEN With(signedOff, t.m, done) ELSE signedOff
        /\ Takes(h, [pc |-> "count"]) /\ UNCHANGED smooth
    BY <1>3 DEF WriteMilestone
  <2>2. /\ DOMAIN hand' = Hands /\ DOMAIN milestone' = Milestones
        /\ hand'[h].pc = "count" /\ \A g \in Hands \ {h} : hand'[g] = hand[g]
    BY <2>1, <1>0 DEF Takes
  <2>3. ASSUME smooth'
        PROVE  /\ \A f, g \in Hands : hand'[f] # NoHand /\ hand'[g] # NoHand => f = g
               /\ \A g \in Hands : TurnKnows(g)'
               /\ signedOff' = Completed'
    <3>1. /\ TurnKnows(h) /\ \A g \in Hands \ {h} : hand[g] = NoHand
          /\ signedOff = Completed
      BY <2>1, <2>3, <1>b DEF ProgressInv
    <3>2. t.m \in Milestones
          /\ (h \in Students => ~done /\ milestone[t.m] # "completed")
      BY <2>1, <3>1 DEF TurnKnows
    <3>3. Completed' = IF done THEN Completed \cup {t.m} ELSE Completed \ {t.m}
      BY <2>1, <3>2, <1>0 DEF Completed
    <3>4. signedOff' = Completed'
      BY <2>1, <3>1, <3>2, <3>3 DEF With, Hands, Completed
    <3>5. \A g \in Hands : TurnKnows(g)'
      BY <2>2, <3>1 DEF TurnKnows, NoHand
    <3>6. QED
      BY <2>2, <3>1, <3>4, <3>5
  <2>4. Counting(h)'
    BY <2>2 DEF Counting
  <2>5. QED
    BY <2>2, <2>3, <2>4 DEF ProgressInv
<1>4. ASSUME NEW h \in Hands, CountCompleted(h)
      PROVE  ProgressInv'
  <2>1. /\ hand[h].pc = "count" /\ UNCHANGED <<milestone, progress, signedOff, smooth>>
        /\ Takes(h, [pc |-> "progress", completed |-> Cardinality(Completed)])
    BY <1>4 DEF CountCompleted
  <2>2. /\ DOMAIN hand' = Hands /\ \A g \in Hands \ {h} : hand'[g] = hand[g]
        /\ hand'[h] = [pc |-> "progress", completed |-> Cardinality(Completed)]
    BY <2>1, <1>0 DEF Takes
  <2>3. ASSUME smooth
        PROVE  /\ \A f, g \in Hands : hand'[f] # NoHand /\ hand'[g] # NoHand => f = g
               /\ \A g \in Hands : TurnKnows(g)'
               /\ signedOff' = Completed'
    <3>1. /\ \A g \in Hands \ {h} : hand[g] = NoHand
          /\ signedOff = Completed /\ Completed' = Completed
      BY <2>1, <2>3, <1>b DEF ProgressInv, Completed
    <3>2. \A g \in Hands : TurnKnows(g)'
      BY <2>2, <3>1 DEF TurnKnows, NoHand
    <3>3. QED
      BY <2>1, <2>2, <3>1, <3>2
  <2>4. Counting(h)'
    BY <2>2 DEF Counting
  <2>5. QED
    BY <2>1, <2>2, <2>3, <2>4, <1>0 DEF ProgressInv
<1>5. ASSUME NEW h \in Hands, SetProgress(h)
      PROVE  ProgressInv'
  <2>1. /\ hand[h].pc = "progress" /\ progress' = Percent(hand[h].completed)
        /\ Takes(h, NoHand) /\ UNCHANGED <<milestone, signedOff, smooth>>
    BY <1>5 DEF SetProgress
  <2>2. /\ DOMAIN hand' = Hands /\ \A g \in Hands \ {h} : hand'[g] = hand[g]
        /\ hand'[h] = NoHand
    BY <2>1, <1>0 DEF Takes
  <2>3. ASSUME smooth
        PROVE  /\ \A g \in Hands : hand'[g] = NoHand /\ TurnKnows(g)'
               /\ signedOff' = Completed' /\ ProgressStands'
    <3>1. /\ \A g \in Hands \ {h} : hand[g] = NoHand
          /\ signedOff = Completed /\ Completed' = Completed
          /\ hand[h].completed = Cardinality(Completed)
      BY <2>1, <2>3, <1>b DEF ProgressInv, Completed, TurnKnows
    <3>2. \A g \in Hands : hand'[g] = NoHand /\ TurnKnows(g)'
      BY <2>2, <3>1 DEF TurnKnows, NoHand
    <3>3. QED
      BY <2>1, <3>1, <3>2 DEF ProgressStands, Percent
  <2>4. QED
    BY <2>1, <2>2, <2>3, <1>0 DEF ProgressInv
<1>6. ASSUME NEW h \in Hands, Overlook(h) \/ DropHand(h)
      PROVE  ProgressInv'
  BY <1>6, <1>0 DEF Overlook, DropHand, Takes, ProgressInv
<1>7. ASSUME NEW h \in Hands, NEW k, BeginSubmission(h, k)
      PROVE  ProgressInv'
  <2>1. /\ Takes(h, [pc |-> IF k = 1 THEN "store" ELSE "gate", k |-> k])
        /\ hand[h] = NoHand /\ UNCHANGED <<milestone, progress, signedOff>>
        /\ smooth' => smooth /\ \A g \in Hands \ {h} : hand[g] = NoHand
    BY <1>7 DEF BeginSubmission, HandsFree
  <2>2. hand'[h] = [pc |-> IF k = 1 THEN "store" ELSE "gate", k |-> k]
    BY <2>1, <1>a
  <2>3. TurnKnows(h)' /\ ~Counting(h)
    BY <2>1, <2>2 DEF TurnKnows, Counting, NoHand
  <2>4. QED
    BY <2>1, <2>3, ProgressRests
<1>8. ASSUME NEW h \in Hands, CheckPrevious(h) \/ StoreUpload(h) \/ InsertSubmission(h)
      PROVE  ProgressInv'
  <2>1. /\ hand[h].pc \in {"gate", "store", "insert"}
        /\ UNCHANGED <<milestone, progress, signedOff, smooth>>
    BY <1>8 DEF CheckPrevious, StoreUpload, InsertSubmission
  <2>2. \E t : Takes(h, t) /\ t.pc \in {"none", "store", "insert"}
    <3>1. hand[h].pc = "gate" => hand[h] = [pc |-> "gate", k |-> hand[h].k]
      BY DEF HubInv, HandKnows
    <3>2. hand[h].pc = "gate" => [hand[h] EXCEPT !.pc = "store"].pc = "store"
      BY <3>1
    <3>3. CASE CheckPrevious(h)
      <4>1. \/ Takes(h, [hand[h] EXCEPT !.pc = "store"])
            \/ Takes(h, NoHand)
        BY <3>3 DEF CheckPrevious
      <4>2. hand[h].pc = "gate" /\ NoHand.pc = "none"
        BY <3>3 DEF CheckPrevious, NoHand
      <4>3. QED
        BY <4>1, <4>2, <3>2
    <3>4. CASE StoreUpload(h)
      BY <3>4 DEF StoreUpload
    <3>5. CASE InsertSubmission(h)
      BY <3>5 DEF InsertSubmission, NoHand
    <3>6. QED
      BY <1>8, <3>3, <3>4, <3>5
  <2>3. hand'[h].pc # "write" /\ hand'[h].pc # "progress"
    BY <2>2, <1>a
  <2>4. TurnKnows(h)' /\ ~Counting(h)
    BY <2>1, <2>3 DEF TurnKnows, Counting
  <2>5. QED
    BY <2>1, <2>2, <2>4, <1>b, ProgressRests
<1>9. ASSUME UNCHANGED <<milestone, progress, hand, signedOff, smooth>>
      PROVE  ProgressInv'
  BY <1>9 DEF ProgressInv, ProgressStands, TurnKnows, Counting, Completed
<1>10. QED
  BY <1>1, <1>2, <1>3, <1>4, <1>5, <1>6, <1>7, <1>8, <1>9
  DEF HubNext, hvars, ReportProgress, RequestExtension, Answer, ReviewSubmission,
      RespondProgressReport, RespondExtension

\* While requests take turns and none fails, progress is the share of milestones that
\* mentors have signed off, whatever students do (UpdateMilestone,
\* AdminUpdateMilestone).
THEOREM ProgressIsSignedOffHolds == HubSpec => []ProgressIsSignedOffInTurn
<1>1. HubInit => ProgressInv
  BY ProgressInitInv
<1>2. HubInv /\ ProgressInv /\ [HubNext]_hvars => ProgressInv'
  BY ProgressNextInv
<1>3. ProgressInv => ProgressIsSignedOffInTurn
  BY DEF ProgressInv, ProgressIsSignedOffInTurn, ProgressStands, HandsFree, Counting,
         NoHand
<1>4. QED
  BY <1>1, <1>2, <1>3, HubInvariant, PTL DEF HubSpec

-----------------------------------------------------------------------------
(* Broadcasts *)

Cast == [count : Nat, status : {"queued", "sent"}]
Delivery == UNION {[1 .. n -> Nat] : n \in Nat}

CastRows ==
  /\ guests \in Seq({"pending", "confirmed"})
  /\ casts \in Seq(Cast) /\ reached \in Seq(Delivery)
  /\ DOMAIN reached = DOMAIN casts
  /\ \A b \in DOMAIN casts : reached[b] \in [1 .. casts[b].count -> Nat]
  /\ cap \in Nat \ {1}

\* How far a host that is sending has come: exactly the recipients up to start
\* have got theirs.
HalfWay(t) ==
  /\ t = [pc |-> "send", cast |-> t.cast, start |-> t.start]
  /\ t.cast \in DOMAIN casts /\ t.start \in Nat /\ cap # 0
  /\ casts[t.cast].status = "queued"
  /\ \A p \in 1 .. casts[t.cast].count : reached[t.cast][p] = IF p <= t.start THEN 1 ELSE 0

HostKnows(t) ==
  /\ t.pc = "queue" => t.count \in Nat
  /\ t.pc = "send" => HalfWay(t)

Sends(h) == host[h].pc = "send"

CastInv ==
  /\ CastRows /\ SentReachedAll
  /\ DOMAIN host = Hosts
  /\ \A h \in Hosts : HostKnows(host[h])
  /\ \A g, h \in Hosts : Sends(g) /\ Sends(h) /\ host[g].cast = host[h].cast => g = h

LEMMA EventsInitInv == EventsInit => CastInv
<1> SUFFICES ASSUME EventsInit PROVE CastInv
  OBVIOUS
<1>1. cap \in Nat \ {1}
  BY EventBounds DEF EventsInit
<1>2. CastRows /\ SentReachedAll
  BY <1>1 DEF EventsInit, CastRows, SentReachedAll
<1>3. \A h \in Hosts : host[h] = NoHost
  BY DEF EventsInit
<1>4. \A h \in Hosts : HostKnows(host[h]) /\ ~Sends(h)
  BY <1>3 DEF HostKnows, Sends, NoHost
<1>5. QED
  BY <1>2, <1>4 DEF CastInv, EventsInit

LEMMA ConfirmedAreCounted ==
  ASSUME CastRows PROVE Cardinality(Confirmed) \in Nat
<1>1. DOMAIN guests = 1 .. Len(guests) /\ Len(guests) \in Nat
  BY DEF CastRows
<1>2. IsFiniteSet(1 .. Len(guests))
  BY <1>1, FS_Interval
<1>3. IsFiniteSet(Confirmed)
  BY <1>1, <1>2, FS_Subset DEF Confirmed
<1>4. QED
  BY <1>3, FS_CardinalityType

\* A host that neither starts nor goes on sending, while no broadcast changes.
LEMMA CastsRest ==
  ASSUME CastInv, UNCHANGED <<casts, reached, cap>>,
         guests' \in Seq({"pending", "confirmed"}),
         NEW h \in Hosts, \E t : Hosting(h, t), HostKnows(host[h])', ~Sends(h)'
  PROVE  CastInv'
<1>1. /\ DOMAIN host' = Hosts
      /\ \A g \in Hosts \ {h} : host'[g] = host[g]
  BY DEF CastInv, Hosting
<1>2. CastRows' /\ SentReachedAll'
  BY DEF CastInv, CastRows, SentReachedAll
<1>3. \A g \in Hosts \ {h} : HostKnows(host[g])' /\ (Sends(g)' <=> Sends(g))
  BY <1>1 DEF CastInv, HostKnows, HalfWay, Sends
<1>4. QED
  BY <1>1, <1>2, <1>3 DEF CastInv

\* Nothing about broadcasts changes.
LEMMA CastsStay ==
  ASSUME CastInv, UNCHANGED <<casts, reached, cap, host>>,
         guests' \in Seq({"pending", "confirmed"})
  PROVE  CastInv'
BY DEF CastInv, CastRows, SentReachedAll, HostKnows, HalfWay, Sends

LEMMA BatchLemma ==
  ASSUME CastInv, NEW h \in Hosts, Sends(h), Deliver(host[h]),
         UNCHANGED <<casts, cap, guests>>, NEW b \in DOMAIN casts
  PROVE  /\ CastRows'
         /\ b # host[h].cast => reached'[b] = reached[b]
         /\ b = host[h].cast => \A p \in 1 .. casts[b].count :
              reached'[b][p] = IF p <= Advance(host[h].start) THEN 1 ELSE 0
<1> DEFINE t == host[h]
           n == casts[t.cast].count
           new == [p \in 1 .. n |->
                     IF p \in Slice(t.start, n) THEN reached[t.cast][p] + 1
                     ELSE reached[t.cast][p]]
<1>1. HalfWay(t) /\ CastRows
  BY DEF CastInv, HostKnows, Sends
<1>2. /\ t.cast \in DOMAIN casts /\ t.start \in Nat /\ n \in Nat /\ cap \in Nat /\ cap > 1
      /\ reached[t.cast] \in [1 .. n -> Nat]
  <2>1. t.cast \in DOMAIN casts /\ t.start \in Nat /\ cap # 0
    BY <1>1 DEF HalfWay
  <2>2. casts \in Seq(Cast) /\ cap \in Nat \ {1} /\ reached[t.cast] \in [1 .. n -> Nat]
    BY <1>1, <2>1 DEF CastRows
  <2>3. casts[t.cast] \in Cast
    BY <2>1, <2>2
  <2>4. n \in Nat
    BY <2>3 DEF Cast
  <2>5. QED
    BY <2>1, <2>2, <2>4
<1>3. reached' = [reached EXCEPT ![t.cast] = new]
  BY <1>2 DEF Deliver
<1>4. new \in [1 .. n -> Nat]
  BY <1>2
<1>5. new \in Delivery
  BY <1>2, <1>4 DEF Delivery
<1>6. \A p \in 1 .. n : new[p] = IF p <= Advance(t.start) THEN 1 ELSE 0
  BY <1>1, <1>2 DEF HalfWay, Slice, Advance, PerBatch
<1> HIDE DEF new
<1>7. /\ reached' \in Seq(Delivery) /\ DOMAIN reached' = DOMAIN reached
      /\ \A c \in DOMAIN casts : reached'[c] = IF c = t.cast THEN new ELSE reached[c]
  BY <1>1, <1>2, <1>3, <1>5 DEF CastRows
<1>8. CastRows'
  BY <1>1, <1>4, <1>7 DEF CastRows
<1>9. QED
  BY <1>6, <1>7, <1>8

LEMMA EventsNextInv == CastInv /\ [EventsNext]_evars => CastInv'
<1> SUFFICES ASSUME CastInv, [EventsNext]_evars PROVE CastInv'
  OBVIOUS
<1>0. /\ CastRows /\ SentReachedAll /\ DOMAIN host = Hosts
      /\ \A h \in Hosts : HostKnows(host[h])
      /\ guests \in Seq({"pending", "confirmed"})
  BY DEF CastInv, CastRows
<1>a. \A h \in Hosts : \A t : Hosting(h, t) => host'[h] = t
  BY <1>0 DEF Hosting
<1>1. CASE UNCHANGED <<guests, casts, cap, host, reached>>
  BY <1>0, <1>1, CastsStay
<1>2. ASSUME NEW g \in DOMAIN guests, ApproveReservation(g)
      PROVE  CastInv'
  <2>1. guests' \in Seq({"pending", "confirmed"})
    BY <1>0, <1>2 DEF ApproveReservation
  <2>2. QED
    BY <1>2, <2>1, CastsStay DEF ApproveReservation
<1>3. ASSUME NEW h \in Hosts, NEW plan, BeginUpdateEvent(h, plan)
      PROVE  CastInv'
  <2>1. /\ Hosting(h, [pc |-> "save", event |-> plan])
        /\ UNCHANGED <<guests, casts, cap, reached>>
    BY <1>3 DEF BeginUpdateEvent, Begins
  <2>2. host'[h].pc = "save"
    BY <2>1, <1>a
  <2>3. QED
    BY <1>0, <2>1, <2>2, CastsRest DEF HostKnows, Sends
<1>4. ASSUME NEW h \in Hosts, SaveEvent(h) \/ DropHost(h)
      PROVE  CastInv'
  <2>1. Hosting(h, NoHost) /\ UNCHANGED <<guests, casts, cap, reached>>
    BY <1>4 DEF SaveEvent, DropHost
  <2>2. host'[h].pc = "none"
    BY <2>1, <1>a DEF NoHost
  <2>3. QED
    BY <1>0, <2>1, <2>2, CastsRest DEF HostKnows, Sends
<1>5. ASSUME NEW h \in Hosts, BeginReserve(h)
      PROVE  CastInv'
  <2>1. Hosting(h, [pc |-> "reserve"]) /\ UNCHANGED <<guests, casts, cap, reached>>
    BY <1>5 DEF BeginReserve, Begins
  <2>2. host'[h].pc = "reserve"
    BY <2>1, <1>a
  <2>3. QED
    BY <1>0, <2>1, <2>2, CastsRest DEF HostKnows, Sends
<1>6. ASSUME NEW h \in Hosts, InsertReservation(h)
      PROVE  CastInv'
  <2>1. /\ Hosting(h, NoHost) /\ UNCHANGED <<casts, cap, reached>>
        /\ guests' \in Seq({"pending", "confirmed"})
    BY <1>0, <1>6 DEF InsertReservation
  <2>2. host'[h].pc = "none"
    BY <2>1, <1>a DEF NoHost
  <2>3. QED
    BY <2>1, <2>2, CastsRest DEF HostKnows, Sends
<1>7. ASSUME NEW h \in Hosts, BeginBroadcast(h)
      PROVE  CastInv'
  <2>1. PICK n \in Found : Hosting(h, [pc |-> "queue", count |-> n])
    BY <1>7 DEF BeginBroadcast, Begins
  <2>a. UNCHANGED <<guests, casts, cap, reached>>
    BY <1>7 DEF BeginBroadcast
  <2>2. host'[h].pc = "queue" /\ host'[h].count \in Nat
    BY <1>0, <2>1, <1>a, ConfirmedAreCounted DEF Found
  <2>3. QED
    BY <1>0, <2>1, <2>a, <2>2, CastsRest DEF HostKnows, Sends
<1>8. ASSUME NEW h \in Hosts, QueueBroadcast(h)
      PROVE  CastInv'
  <2> DEFINE n == host[h].count
             row == [count |-> n, status |-> "queued"]
             nobody == [p \in 1 .. n |-> 0]
  <2>1. /\ n \in Nat /\ UNCHANGED <<guests, cap>>
        /\ casts' = Append(casts, row) /\ reached' = Append(reached, nobody)
        /\ Hosting(h, IF cap = 0 \/ n = 0 THEN NoHost
                      ELSE [pc |-> "send", cast |-> Len(casts'), start |-> 0])
    BY <1>0, <1>8 DEF QueueBroadcast, HostKnows
  <2>2. row \in Cast /\ nobody \in [1 .. n -> Nat] /\ nobody \in Delivery
    BY <2>1 DEF Cast, Delivery
  <2>3. row.count = n /\ row.status = "queued" /\ \A p \in 1 .. n : nobody[p] = 0
    OBVIOUS
  <2> HIDE DEF row, nobody
  <2>4. /\ casts' \in Seq(Cast) /\ reached' \in Seq(Delivery)
        /\ Len(casts') = Len(casts) + 1 /\ Len(reached) = Len(casts)
        /\ DOMAIN casts' = DOMAIN casts \cup {Len(casts')}
        /\ DOMAIN reached' = DOMAIN casts'
        /\ Len(casts') \notin DOMAIN casts
        /\ casts'[Len(casts')] = row /\ reached'[Len(casts')] = nobody
        /\ \A b \in DOMAIN casts : casts'[b] = casts[b] /\ reached'[b] = reached[b]
    BY <1>0, <2>1, <2>2 DEF CastRows
  <2>5. CastRows'
    BY <1>0, <2>1, <2>2, <2>3, <2>4 DEF CastRows
  <2>6. SentReachedAll'
    BY <1>0, <2>3, <2>4 DEF SentReachedAll
  <2>7. /\ DOMAIN host' = Hosts /\ \A g \in Hosts \ {h} : host'[g] = host[g]
        /\ host'[h] = IF cap = 0 \/ n = 0 THEN NoHost
                      ELSE [pc |-> "send", cast |-> Len(casts'), start |-> 0]
    BY <1>0, <2>1 DEF Hosting
  <2>8. HostKnows(host[h])'
    BY <2>1, <2>3, <2>4, <2>7 DEF HostKnows, HalfWay, NoHost
  <2>9. \A g \in Hosts \ {h} : HostKnows(host[g])'
                              /\ (Sends(g)' => host'[g].cast # Len(casts'))
    <3> SUFFICES ASSUME NEW g \in Hosts \ {h}
                 PROVE  HostKnows(host[g])' /\ (Sends(g)' => host'[g].cast # Len(casts'))
      OBVIOUS
    <3>1. host'[g] = host[g] /\ HostKnows(host[g]) /\ cap' = cap
      BY <1>0, <2>1, <2>7
    <3>2. CASE host[g].pc # "send"
      BY <3>1, <3>2 DEF HostKnows, Sends
    <3>3. CASE host[g].pc = "send"
      <4>1. HalfWay(host[g]) /\ host[g].cast \in DOMAIN casts
        BY <3>1, <3>3 DEF HostKnows, HalfWay
      <4>2. HalfWay(host[g])' /\ host[g].cast # Len(casts')
        BY <2>4, <3>1, <4>1 DEF HalfWay
      <4>3. QED
        BY <3>1, <3>3, <4>2 DEF HostKnows, Sends
    <3>4. QED
      BY <3>2, <3>3
  <2>10. Sends(h)' => host'[h].cast = Len(casts')
    BY <2>7 DEF Sends, NoHost
  <2>11. QED
    BY <2>5, <2>6, <2>7, <2>8, <2>9, <2>10 DEF CastInv, Sends
<1>9. ASSUME NEW h \in Hosts, SendBatch(h)
      PROVE  CastInv'
  <2> DEFINE t == host[h]
  <2>1. /\ Sends(h) /\ Deliver(t) /\ UNCHANGED <<guests, casts, cap>>
        /\ Hosting(h, [t EXCEPT !.start = Advance(@)])
    BY <1>9 DEF SendBatch, Sends
  <2>2. /\ HalfWay(t) /\ t = [pc |-> "send", cast |-> t.cast, start |-> t.start]
        /\ cap \in Nat /\ cap > 1
    BY <1>0, <2>1 DEF HostKnows, Sends, HalfWay, CastRows
  <2>3. /\ DOMAIN host' = Hosts /\ \A g \in Hosts \ {h} : host'[g] = host[g]
        /\ host'[h] = [pc |-> "send", cast |-> t.cast, start |-> Advance(t.start)]
    BY <1>0, <2>1, <2>2 DEF Hosting
  <2>4. Advance(t.start) \in Nat
    BY <2>2 DEF Advance, PerBatch, HalfWay
  <2>5. /\ CastRows'
        /\ \A b \in DOMAIN casts : b # t.cast => reached'[b] = reached[b]
        /\ \A p \in 1 .. casts[t.cast].count :
             reached'[t.cast][p] = IF p <= Advance(t.start) THEN 1 ELSE 0
    BY <2>1, <2>2, BatchLemma DEF HalfWay
  <2>6. SentReachedAll'
    BY <1>0, <2>1, <2>2, <2>5 DEF SentReachedAll, HalfWay
  <2>7. HostKnows(host[h])'
    BY <2>1, <2>2, <2>3, <2>4, <2>5 DEF HostKnows, HalfWay
  <2>8. \A g \in Hosts \ {h} : Sends(g) => host[g].cast # t.cast
    BY <2>1 DEF CastInv
  <2>9. \A g \in Hosts \ {h} : HostKnows(host[g])' /\ (Sends(g)' <=> Sends(g))
    BY <1>0, <2>1, <2>3, <2>5, <2>8 DEF HostKnows, HalfWay, Sends
  <2>10. QED
    BY <2>3, <2>5, <2>6, <2>7, <2>8, <2>9 DEF CastInv, Sends
<1>10. ASSUME NEW h \in Hosts, BatchFails(h)
      PROVE  CastInv'
  <2> DEFINE t == host[h]
  <2>1. /\ Sends(h)
        /\ Deliver(t) \/ UNCHANGED reached
        /\ UNCHANGED <<guests, casts, cap>> /\ Hosting(h, NoHost)
    BY <1>10 DEF BatchFails, Sends
  <2>2. host'[h].pc = "none"
    BY <2>1, <1>a DEF NoHost
  <2>3. CASE UNCHANGED reached
    BY <1>0, <2>1, <2>2, <2>3, CastsRest DEF HostKnows, Sends
  <2>4. CASE Deliver(t)
    <3>1. HalfWay(t)
      BY <1>0, <2>1 DEF HostKnows, Sends
    <3>2. /\ DOMAIN host' = Hosts /\ \A g \in Hosts \ {h} : host'[g] = host[g]
      BY <1>0, <2>1 DEF Hosting
    <3>3. /\ CastRows'
          /\ \A b \in DOMAIN casts : b # t.cast => reached'[b] = reached[b]
          /\ \A p \in 1 .. casts[t.cast].count :
               reached'[t.cast][p] = IF p <= Advance(t.start) THEN 1 ELSE 0
      BY <2>1, <2>4, <3>1, BatchLemma DEF HalfWay
    <3>4. SentReachedAll'
      BY <1>0, <2>1, <3>1, <3>3 DEF SentReachedAll, HalfWay
    <3>5. \A g \in Hosts \ {h} : Sends(g) => host[g].cast # t.cast
      BY <2>1 DEF CastInv
    <3>6. \A g \in Hosts \ {h} : HostKnows(host[g])' /\ (Sends(g)' <=> Sends(g))
      BY <1>0, <2>1, <3>2, <3>3, <3>5 DEF HostKnows, HalfWay, Sends
    <3>7. HostKnows(host[h])' /\ ~Sends(h)'
      BY <2>2 DEF HostKnows, Sends
    <3>8. QED
      BY <3>2, <3>3, <3>4, <3>6, <3>7 DEF CastInv, Sends
  <2>5. QED
    BY <2>1, <2>3, <2>4
<1>11. ASSUME NEW h \in Hosts, MarkSent(h)
      PROVE  CastInv'
  <2> DEFINE t == host[h]
  <2>1. /\ Sends(h) /\ t.start >= casts[t.cast].count
        /\ casts' = [casts EXCEPT ![t.cast].status = "sent"]
        /\ Hosting(h, NoHost) /\ UNCHANGED <<guests, cap, reached>>
    BY <1>11 DEF MarkSent, Sends
  <2>2. HalfWay(t)
    BY <1>0, <2>1 DEF HostKnows, Sends
  <2> DEFINE new == [casts[t.cast] EXCEPT !.status = "sent"]
  <2>a. /\ casts \in Seq(Cast) /\ t.cast \in DOMAIN casts /\ t.start \in Nat
        /\ casts[t.cast] \in Cast
    BY <1>0, <2>2 DEF CastRows, HalfWay
  <2>b. new \in Cast /\ new.count = casts[t.cast].count /\ casts[t.cast].count \in Nat
    BY <2>a DEF Cast
  <2>c. casts' = [casts EXCEPT ![t.cast] = new]
    BY <2>1, <2>a
  <2> HIDE DEF new
  <2>3. /\ DOMAIN casts' = DOMAIN casts /\ casts' \in Seq(Cast)
        /\ \A b \in DOMAIN casts : casts'[b].count = casts[b].count
        /\ \A b \in DOMAIN casts : b # t.cast => casts'[b] = casts[b]
    BY <2>a, <2>b, <2>c
  <2>4. CastRows'
    BY <1>0, <2>1, <2>3 DEF CastRows
  <2>5. \A p \in 1 .. casts[t.cast].count : reached[t.cast][p] = 1
    BY <2>1, <2>2, <2>a, <2>b DEF HalfWay
  <2>6. SentReachedAll'
    BY <1>0, <2>1, <2>3, <2>5 DEF SentReachedAll
  <2>7. /\ DOMAIN host' = Hosts /\ \A g \in Hosts \ {h} : host'[g] = host[g]
        /\ host'[h].pc = "none"
    BY <1>0, <2>1 DEF Hosting, NoHost
  <2>8. \A g \in Hosts \ {h} : Sends(g) => host[g].cast # t.cast
    BY <2>1 DEF CastInv
  <2>9. \A g \in Hosts \ {h} : HostKnows(host[g])' /\ (Sends(g)' <=> Sends(g))
    BY <1>0, <2>1, <2>3, <2>7, <2>8 DEF HostKnows, HalfWay, Sends
  <2>10. HostKnows(host[h])' /\ ~Sends(h)'
    BY <2>7 DEF HostKnows, Sends
  <2>11. QED
    BY <2>4, <2>6, <2>7, <2>9, <2>10 DEF CastInv, Sends
<1>12. QED
  BY <1>1, <1>2, <1>3, <1>4, <1>5, <1>6, <1>7, <1>8, <1>9, <1>10, <1>11
  DEF EventsNext, evars, CreateEvent, DeleteEvent

\* What hosts have sent so far is what they know, for any number of them.
THEOREM EventsInvariant == EventsSpec => []CastInv
<1>1. CastInv /\ [EventsNext]_evars => CastInv'
  BY EventsNextInv
<1>2. QED
  BY <1>1, EventsInitInv, PTL DEF EventsSpec

\* A broadcast marked as sent reached each recipient once, and no recipient gets one
\* twice, however large the cohort and whatever fails (AdminBroadcast,
\* sendViaResend).
THEOREM SentReachedAllHolds == EventsSpec => []SentReachedAll
<1>1. CastInv => SentReachedAll
  BY DEF CastInv
<1>2. QED
  BY <1>1, EventsInvariant, PTL

-----------------------------------------------------------------------------
(* From an enrolment to a student's account *)

\* A row of enrolments, and one of users.
Enrolment == [email : Emails, status : Stages, student : 0 .. MaxUsers]
User == [email : Emails, of : 0 .. MaxEnrolments, gone : BOOLEAN]

\* The tables keep their shape.
OnboardingRows ==
  /\ enrolments \in Seq(Enrolment) /\ Len(enrolments) <= MaxEnrolments
  /\ users \in Seq(User) /\ Len(users) <= MaxUsers
  /\ invitations \in [1 .. MaxEnrolments -> Invitation \cup {NoInvitation}]
  /\ \A e \in 1 .. MaxEnrolments : e > Len(enrolments) => invitations[e] = NoInvitation
  /\ issued \in 0 .. MaxInvitations /\ late \subseteq 1 .. issued

\* What any request under way has been given.
FormShape(t) ==
  /\ t.pc \in {"none", "users", "enrol", "drop", "invite", "expire", "count", "create"}
  /\ t.pc \in {"users", "enrol"} => t.email \in Emails
  /\ t.pc \in {"drop", "invite", "expire", "count", "create"} => t.e \in DOMAIN enrolments
  /\ t.pc \in {"expire", "count", "create"} => t.invite \in Invitation

\* A live student's account holds the address of its enrolment, which is why the
\* index on addresses keeps an enrolment from getting a second account.
Linked ==
  /\ \A u \in DOMAIN users : ~users[u].gone /\ users[u].of # 0 =>
       /\ users[u].of \in DOMAIN enrolments
       /\ enrolments[users[u].of].student = u
       /\ enrolments[users[u].of].email = users[u].email
  /\ \A e \in DOMAIN enrolments :
       /\ enrolments[e].student # 0 =>
            /\ enrolments[e].student \in DOMAIN users
            /\ ~users[enrolments[e].student].gone
            /\ users[enrolments[e].student].of = e
       /\ invitations[e].status = "claimed" => enrolments[e].student # 0

\* Nothing is asked of what requests have found out: the writes of a claim check it
\* again, or are refused by an index.
OnboardingInv ==
  /\ OnboardingRows /\ Linked
  /\ DOMAIN form = Forms
  /\ \A f \in Forms : FormShape(form[f])

\* Rows are counted from one upwards.
LEMMA OnboardingIndices ==
  ASSUME OnboardingRows
  PROVE  /\ Len(enrolments) \in Nat /\ DOMAIN enrolments = 1 .. Len(enrolments)
         /\ Len(users) \in Nat /\ DOMAIN users = 1 .. Len(users)
         /\ DOMAIN enrolments \subseteq 1 .. MaxEnrolments
         /\ DOMAIN users \subseteq 1 .. MaxUsers
         /\ \A e \in DOMAIN enrolments :
              enrolments[e] \in Enrolment /\ invitations[e] \in Invitation \cup {NoInvitation}
         /\ \A u \in DOMAIN users : users[u] \in User
         /\ MaxEnrolments \in Nat /\ MaxUsers \in Nat /\ MaxInvitations \in Nat
<1>1. MaxEnrolments \in Nat /\ MaxUsers \in Nat /\ MaxInvitations \in Nat
  BY OnboardingBounds
<1>2. /\ Len(enrolments) \in Nat /\ DOMAIN enrolments = 1 .. Len(enrolments)
      /\ Len(users) \in Nat /\ DOMAIN users = 1 .. Len(users)
      /\ \A e \in DOMAIN enrolments : enrolments[e] \in Enrolment
      /\ \A u \in DOMAIN users : users[u] \in User
  BY DEF OnboardingRows
<1>3. DOMAIN enrolments \subseteq 1 .. MaxEnrolments /\ DOMAIN users \subseteq 1 .. MaxUsers
  BY <1>1, <1>2 DEF OnboardingRows
<1>4. \A e \in DOMAIN enrolments : invitations[e] \in Invitation \cup {NoInvitation}
  BY <1>3 DEF OnboardingRows
<1>5. QED
  BY <1>1, <1>2, <1>3, <1>4

\* An invitation that is written is one.
LEMMA InvitationWith ==
  ASSUME NEW row \in Invitation, NEW s \in {"pending", "claimed", "expired"}
  PROVE  /\ [row EXCEPT !.status = s] \in Invitation
         /\ [row EXCEPT !.status = s].status = s
BY DEF Invitation

\* At first nobody has enrolled.
LEMMA OnboardingInitInv == OnboardingInit => OnboardingInv
<1> SUFFICES ASSUME OnboardingInit PROVE OnboardingInv
  OBVIOUS
<1>1. DOMAIN enrolments = {} /\ DOMAIN users = {} /\ Len(enrolments) = 0 /\ Len(users) = 0
  BY DEF OnboardingInit
<1>2. OnboardingRows
  BY OnboardingBounds, <1>1 DEF OnboardingInit, OnboardingRows
<1>3. Linked
  BY <1>1 DEF Linked
<1>4. DOMAIN form = Forms /\ \A f \in Forms : FormShape(form[f])
  BY DEF OnboardingInit, NoForm, FormShape
<1>5. QED
  BY <1>2, <1>3, <1>4 DEF OnboardingInv

\* The locals of one request change, and no enrolment is lost.
LEMMA FillsInv ==
  ASSUME OnboardingInv, NEW f \in Forms, NEW t, Fills(f, t), FormShape(t)',
         DOMAIN enrolments \subseteq DOMAIN enrolments', OnboardingRows', Linked'
  PROVE  OnboardingInv'
<1>1. DOMAIN form' = Forms /\ form'[f] = t /\ \A g \in Forms \ {f} : form'[g] = form[g]
  BY DEF OnboardingInv, Fills
<1>2. \A g \in Forms : FormShape(form[g])'
  BY <1>1 DEF OnboardingInv, FormShape
<1>3. QED
  BY <1>1, <1>2 DEF OnboardingInv

LEMMA FormStaysInv ==
  ASSUME OnboardingInv, UNCHANGED form, DOMAIN enrolments \subseteq DOMAIN enrolments',
         OnboardingRows', Linked'
  PROVE  OnboardingInv'
BY DEF OnboardingInv, FormShape

\* A step that only notes something in a request's locals.
LEMMA NotesInv ==
  ASSUME OnboardingInv, NEW f \in Forms, NEW t, Fills(f, t), FormShape(t),
         UNCHANGED <<enrolments, invitations, issued, late, users>>
  PROVE  OnboardingInv'
<1>1. OnboardingRows' /\ Linked' /\ FormShape(t)'
  BY DEF OnboardingInv, OnboardingRows, Linked, FormShape
<1>2. QED
  BY <1>1, FillsInv

\* A new enrolment has no account.
LEMMA NewEnrolmentKeeps ==
  ASSUME OnboardingInv, NEW m \in Emails, NewEnrolment(m),
         UNCHANGED <<invitations, issued, late, users>>
  PROVE  OnboardingRows' /\ Linked' /\ DOMAIN enrolments \subseteq DOMAIN enrolments'
<1> DEFINE new == [email |-> m, status |-> "submitted", student |-> 0]
           n == Len(enrolments) + 1
<1>0. OnboardingRows /\ Linked
  BY DEF OnboardingInv
<1>1. new \in Enrolment /\ new.student = 0
  BY OnboardingBounds DEF Enrolment
<1>2. enrolments' = Append(enrolments, new) /\ Len(enrolments) < MaxEnrolments
  BY DEF NewEnrolment
<1> HIDE DEF new
<1>3. /\ enrolments' \in Seq(Enrolment) /\ Len(enrolments') = n
      /\ DOMAIN enrolments' = DOMAIN enrolments \cup {n} /\ enrolments'[n] = new
      /\ \A e \in DOMAIN enrolments : enrolments'[e] = enrolments[e]
      /\ n \notin DOMAIN enrolments /\ n \in 1 .. MaxEnrolments
  BY <1>0, <1>1, <1>2, OnboardingIndices DEF OnboardingRows
<1>4. OnboardingRows'
  BY <1>0, <1>3, OnboardingIndices DEF OnboardingRows
<1>5. invitations'[n].status # "claimed"
  BY <1>0, <1>3, OnboardingIndices DEF OnboardingRows, NoInvitation
<1>6. Linked'
  BY <1>0, <1>1, <1>3, <1>5 DEF Linked
<1>7. QED
  BY <1>3, <1>4, <1>6

\* What is issued, dropped or expired claims nothing.
LEMMA InvitationKeeps ==
  ASSUME OnboardingInv, NEW e \in DOMAIN enrolments, NEW row,
         row = NoInvitation \/ (row \in Invitation /\ row.status # "claimed"),
         invitations' = [invitations EXCEPT ![e] = row],
         issued' \in 0 .. MaxInvitations, issued <= issued',
         UNCHANGED <<enrolments, late, users>>
  PROVE  OnboardingRows' /\ Linked'
<1>0. OnboardingRows /\ Linked
  BY DEF OnboardingInv
<1>1. /\ DOMAIN invitations' = 1 .. MaxEnrolments /\ e \in 1 .. MaxEnrolments
      /\ \A x \in 1 .. MaxEnrolments : invitations'[x] = IF x = e THEN row ELSE invitations[x]
  BY <1>0, OnboardingIndices DEF OnboardingRows
<1>2. invitations' \in [1 .. MaxEnrolments -> Invitation \cup {NoInvitation}]
  BY <1>0 DEF OnboardingRows
<1>3. OnboardingRows'
  BY <1>0, <1>1, <1>2, OnboardingIndices DEF OnboardingRows
<1>4. row.status # "claimed"
  BY DEF NoInvitation
<1>5. Linked'
  BY <1>0, <1>1, <1>4, OnboardingIndices DEF Linked
<1>6. QED
  BY <1>3, <1>5

\* A new account is linked to the enrolment that did not have one.
LEMMA ProvisionKeeps ==
  ASSUME OnboardingInv, NEW f \in Forms, CreateStudent(f)
  PROVE  OnboardingRows' /\ Linked' /\ DOMAIN enrolments \subseteq DOMAIN enrolments'
<1>0. OnboardingRows /\ Linked /\ FormShape(form[f])
  BY DEF OnboardingInv
<1>1. PICK e, invite : e = form[f].e /\ invite = form[f].invite
  OBVIOUS
<1>2. form[f].pc = "create" /\ Len(users) < MaxUsers /\ UNCHANGED <<issued, late>>
  BY DEF CreateStudent, Provision
<1>3. e \in DOMAIN enrolments /\ invite \in Invitation
  BY <1>0, <1>1, <1>2 DEF FormShape
<1> DEFINE m == enrolments[e].email
           who == [email |-> m, of |-> e, gone |-> FALSE]
           row == [invite EXCEPT !.status = "claimed"]
           n == Len(users) + 1
           was == enrolments[e]
           is == [was EXCEPT !.student = n, !.status = "accepted"]
<1>4. CASE UNCHANGED <<enrolments, invitations, users>>
  BY <1>0, <1>2, <1>4 DEF OnboardingRows, Linked
<1>5. ASSUME ~HasAccount(m), users' = Append(users, who),
             invitations' = [invitations EXCEPT ![e] = row],
             enrolments' = [enrolments EXCEPT ![e].student = Len(users'),
                                              ![e].status = "accepted"]
      PROVE  OnboardingRows' /\ Linked' /\ DOMAIN enrolments \subseteq DOMAIN enrolments'
  <2>1. who \in User /\ who.email = m /\ who.of = e /\ who.gone = FALSE
    BY <1>0, <1>3, OnboardingIndices DEF User, Enrolment
  <2>2. row \in Invitation
    BY <1>3, InvitationWith
  <2>3. /\ users' \in Seq(User) /\ Len(users') = n /\ DOMAIN users' = DOMAIN users \cup {n}
        /\ users'[n] = who /\ n \notin DOMAIN users /\ n \in 1 .. MaxUsers
        /\ \A u \in DOMAIN users : users'[u] = users[u]
    BY <1>0, <1>2, <1>5, <2>1, OnboardingIndices DEF OnboardingRows
  <2>4. is \in Enrolment /\ is.student = n /\ is.email = m
    <3>1. was \in Enrolment /\ n \in 0 .. MaxUsers /\ "accepted" \in Stages
      BY <1>0, <1>3, <2>3, OnboardingIndices, OnboardingBounds
    <3>2. QED
      BY <3>1 DEF Enrolment
  <2>5. enrolments' = [enrolments EXCEPT ![e] = is]
    BY <1>0, <1>3, <1>5, <2>3, OnboardingIndices DEF Enrolment, OnboardingRows
  <2>6. e \in 1 .. MaxEnrolments /\ e # 0
    BY <1>0, <1>3, OnboardingIndices
  <2> HIDE DEF who, row, is
  <2>7. /\ enrolments' \in Seq(Enrolment) /\ Len(enrolments') = Len(enrolments)
        /\ DOMAIN enrolments' = DOMAIN enrolments /\ enrolments'[e] = is
        /\ \A x \in DOMAIN enrolments : x # e => enrolments'[x] = enrolments[x]
    BY <1>0, <1>3, <2>4, <2>5 DEF OnboardingRows
  <2>8. /\ invitations' \in [1 .. MaxEnrolments -> Invitation \cup {NoInvitation}]
        /\ \A x \in 1 .. MaxEnrolments : x # e => invitations'[x] = invitations[x]
    BY <1>0, <1>5, <2>2 DEF OnboardingRows
  <2>9. OnboardingRows'
    BY <1>0, <1>2, <1>3, <2>3, <2>6, <2>7, <2>8, OnboardingIndices DEF OnboardingRows
  \* Whoever was its student would have had the address.
  <2>10. enrolments[e].student = 0
    BY <1>0, <1>3, <1>5, <2>6 DEF Linked, HasAccount
  <2>11. \A u \in DOMAIN users : ~users[u].gone /\ users[u].of # 0 => users[u].of # e
    BY <1>0, <2>10, OnboardingIndices DEF Linked
  <2>12. Linked'
    <3>1. \A u \in DOMAIN users' : ~users'[u].gone /\ users'[u].of # 0 =>
            /\ users'[u].of \in DOMAIN enrolments'
            /\ enrolments'[users'[u].of].student = u
            /\ enrolments'[users'[u].of].email = users'[u].email
      BY <1>0, <1>3, <2>1, <2>3, <2>4, <2>7, <2>11 DEF Linked
    <3>2. \A x \in DOMAIN enrolments' : enrolments'[x].student # 0 =>
            /\ enrolments'[x].student \in DOMAIN users'
            /\ ~users'[enrolments'[x].student].gone
            /\ users'[enrolments'[x].student].of = x
      BY <1>0, <1>3, <2>1, <2>3, <2>4, <2>7 DEF Linked
    <3>3. \A x \in DOMAIN enrolments' :
            invitations'[x].status = "claimed" => enrolments'[x].student # 0
      BY <1>0, <1>3, <2>3, <2>4, <2>7, <2>8, OnboardingIndices DEF Linked
    <3>4. QED
      BY <3>1, <3>2, <3>3 DEF Linked
  <2>13. QED
    BY <2>7, <2>9, <2>12
<1>6. QED
  BY <1>1, <1>4, <1>5 DEF CreateStudent, Provision

\* A deleted account frees its enrolment and the invitation it claimed.
LEMMA DeleteUserKeeps ==
  ASSUME OnboardingInv, NEW u \in DOMAIN users, DeleteUser(u)
  PROVE  OnboardingRows' /\ Linked' /\ DOMAIN enrolments \subseteq DOMAIN enrolments'
<1>0. OnboardingRows /\ Linked /\ UNCHANGED <<issued, late>>
  BY DEF OnboardingInv, DeleteUser
<1> DEFINE who == [users[u] EXCEPT !.gone = TRUE]
           was(e) == [enrolments[e] EXCEPT !.student = 0, !.status = "submitted"]
<1>1. who \in User /\ who.gone = TRUE
  BY <1>0, OnboardingIndices DEF User
<1>2. users' = [users EXCEPT ![u] = who]
  BY <1>0, OnboardingIndices DEF DeleteUser, User, OnboardingRows
<1>3. \A e \in DOMAIN enrolments :
        was(e) \in Enrolment /\ was(e).student = 0 /\ was(e).email = enrolments[e].email
  <2>1. 0 \in 0 .. MaxUsers /\ "submitted" \in Stages
    BY OnboardingBounds
  <2>2. \A e \in DOMAIN enrolments : enrolments[e] \in Enrolment
    BY <1>0, OnboardingIndices
  <2>3. QED
    BY <2>1, <2>2 DEF Enrolment
<1>4. /\ DOMAIN enrolments' = DOMAIN enrolments
      /\ \A e \in DOMAIN enrolments : enrolments'[e] =
           IF enrolments[e].student = u THEN was(e) ELSE enrolments[e]
  BY DEF DeleteUser, EnrolmentsOf
<1> HIDE DEF who, was
<1>5. /\ users' \in Seq(User) /\ Len(users') = Len(users) /\ DOMAIN users' = DOMAIN users
      /\ users'[u] = who /\ \A v \in DOMAIN users : v # u => users'[v] = users[v]
  BY <1>0, <1>1, <1>2 DEF OnboardingRows
<1>6. \A e \in 1 .. Len(enrolments) : enrolments'[e] \in Enrolment
  BY <1>0, <1>3, <1>4, OnboardingIndices
<1>7. enrolments' = [e \in 1 .. Len(enrolments) |-> enrolments'[e]]
  BY <1>0, OnboardingIndices DEF DeleteUser
<1>8. enrolments' \in Seq(Enrolment) /\ Len(enrolments') = Len(enrolments)
  BY <1>0, <1>6, <1>7, OnboardingIndices
<1>9. /\ DOMAIN invitations' = 1 .. MaxEnrolments
      /\ \A e \in 1 .. MaxEnrolments : invitations'[e] =
           IF e \in EnrolmentsOf(u) THEN NoInvitation ELSE invitations[e]
      /\ invitations' \in [1 .. MaxEnrolments -> Invitation \cup {NoInvitation}]
  BY <1>0 DEF DeleteUser, OnboardingRows
<1>10. OnboardingRows'
  BY <1>0, <1>5, <1>8, <1>9 DEF OnboardingRows
<1>11. Linked'
  <2>1. \A v \in DOMAIN users' : ~users'[v].gone /\ users'[v].of # 0 =>
            /\ users'[v].of \in DOMAIN enrolments'
            /\ enrolments'[users'[v].of].student = v
            /\ enrolments'[users'[v].of].email = users'[v].email
    BY <1>0, <1>1, <1>4, <1>5 DEF Linked
  <2>2. \A e \in DOMAIN enrolments' : enrolments'[e].student # 0 =>
            /\ enrolments'[e].student \in DOMAIN users'
            /\ ~users'[enrolments'[e].student].gone
            /\ users'[enrolments'[e].student].of = e
    BY <1>0, <1>3, <1>4, <1>5 DEF Linked
  <2>3. \A e \in DOMAIN enrolments' :
            invitations'[e].status = "claimed" => enrolments'[e].student # 0
    BY <1>0, <1>4, <1>9, OnboardingIndices DEF Linked, EnrolmentsOf, NoInvitation
  <2>4. QED
    BY <2>1, <2>2, <2>3 DEF Linked
<1>12. QED
  BY <1>4, <1>10, <1>11

\* One step per action of the handlers.
LEMMA OnboardingNextInv == OnboardingInv /\ [OnboardingNext]_ovars => OnboardingInv'
<1> SUFFICES ASSUME OnboardingInv, [OnboardingNext]_ovars PROVE OnboardingInv'
  OBVIOUS
<1>0. /\ OnboardingRows /\ Linked
      /\ \A f \in Forms : FormShape(form[f])
      /\ FormShape(NoForm) /\ FormShape(NoForm)'
  BY DEF OnboardingInv, FormShape, NoForm
<1>1. ASSUME NEW m \in Emails, Enrol(m) PROVE OnboardingInv'
  BY <1>1, NewEnrolmentKeeps, FormStaysInv DEF Enrol
<1>2. ASSUME NEW m \in Emails, CreateStaff(m) PROVE OnboardingInv'
  <2> DEFINE who == [email |-> m, of |-> 0, gone |-> FALSE]
             n == Len(users) + 1
  <2>1. who \in User /\ who.of = 0
    BY OnboardingBounds DEF User
  <2>2. users' = Append(users, who) /\ Len(users) < MaxUsers
        /\ UNCHANGED <<enrolments, invitations, issued, late, form>>
    BY <1>2 DEF CreateStaff
  <2> HIDE DEF who
  <2>3. /\ users' \in Seq(User) /\ Len(users') = n /\ DOMAIN users' = DOMAIN users \cup {n}
        /\ users'[n] = who /\ n \notin DOMAIN users /\ n <= MaxUsers
        /\ \A u \in DOMAIN users : users'[u] = users[u]
    BY <1>0, <2>1, <2>2, OnboardingIndices DEF OnboardingRows
  <2>4. OnboardingRows'
    BY <1>0, <2>2, <2>3 DEF OnboardingRows
  <2>5. Linked'
    BY <1>0, <2>1, <2>2, <2>3 DEF Linked
  <2>6. QED
    BY <2>2, <2>4, <2>5, FormStaysInv
<1>3. ASSUME NEW e \in DOMAIN enrolments, NEW s \in Stages, UpdateEnrolment(e, s)
      PROVE  OnboardingInv'
  <2> DEFINE is == [enrolments[e] EXCEPT !.status = s]
  <2>1. /\ is \in Enrolment /\ is.student = enrolments[e].student
        /\ is.email = enrolments[e].email
    BY <1>0, OnboardingIndices DEF Enrolment
  <2>2. enrolments' = [enrolments EXCEPT ![e] = is]
        /\ UNCHANGED <<invitations, issued, late, users, form>>
    BY <1>3 DEF UpdateEnrolment
  <2> HIDE DEF is
  <2>3. /\ enrolments' \in Seq(Enrolment) /\ Len(enrolments') = Len(enrolments)
        /\ DOMAIN enrolments' = DOMAIN enrolments /\ enrolments'[e] = is
        /\ \A x \in DOMAIN enrolments : x # e => enrolments'[x] = enrolments[x]
    BY <1>0, <2>1, <2>2 DEF OnboardingRows
  <2>4. OnboardingRows'
    BY <1>0, <2>2, <2>3 DEF OnboardingRows
  <2>5. Linked'
    BY <1>0, <2>1, <2>2, <2>3 DEF Linked
  <2>6. QED
    BY <2>2, <2>3, <2>4, <2>5, FormStaysInv
<1>4. ASSUME NEW t \in (1 .. issued) \ late, Lapse(t) PROVE OnboardingInv'
  <2>1. OnboardingRows' /\ Linked'
    BY <1>0, <1>4 DEF Lapse, OnboardingRows, Linked
  <2>2. QED
    BY <1>4, <2>1, FormStaysInv DEF Lapse
<1>5. ASSUME NEW u \in DOMAIN users, DeleteUser(u) PROVE OnboardingInv'
  BY <1>5, DeleteUserKeeps, FormStaysInv DEF DeleteUser
<1>6. ASSUME NEW f \in Forms, NEW m \in Emails, BeginAdminEnrol(f, m) PROVE OnboardingInv'
  <2>1. FormShape([pc |-> "users", email |-> m])
    BY DEF FormShape
  <2>2. QED
    BY <1>6, <2>1, NotesInv DEF BeginAdminEnrol
<1>7. ASSUME NEW f \in Forms, CountUsers(f) PROVE OnboardingInv'
  <2> DEFINE t == [form[f] EXCEPT !.pc = "enrol"]
  <2>1. form[f].pc = "users" /\ form[f].email \in Emails
    BY <1>0, <1>7 DEF CountUsers, FormShape
  <2>2. Fills(f, t) \/ Fills(f, NoForm)
    BY <1>7 DEF CountUsers
  <2>3. t.pc = "enrol" => FormShape(t)
    BY <1>0, <2>1 DEF FormShape
  <2>4. QED
    BY <1>0, <1>7, <2>2, <2>3, NotesInv DEF CountUsers
<1>8. ASSUME NEW f \in Forms, AdminEnrol(f) PROVE OnboardingInv'
  <2>1. PICK m \in Emails : m = form[f].email
    BY <1>0, <1>8 DEF AdminEnrol, FormShape
  <2>2. NewEnrolment(m) /\ Fills(f, NoForm) /\ UNCHANGED <<invitations, issued, late, users>>
    BY <1>8, <2>1 DEF AdminEnrol
  <2>3. QED
    BY <1>0, <2>2, NewEnrolmentKeeps, FillsInv
<1>9. ASSUME NEW f \in Forms, NEW e \in DOMAIN enrolments, BeginInvite(f, e)
      PROVE  OnboardingInv'
  <2>1. FormShape([pc |-> "drop", e |-> e])
    BY DEF FormShape
  <2>2. QED
    BY <1>9, <2>1, NotesInv DEF BeginInvite
<1>10. ASSUME NEW f \in Forms, NEW e \in DOMAIN enrolments, BeginClaim(f, e)
       PROVE  OnboardingInv'
  <2> DEFINE t == [pc |-> IF invitations[e].token \in late THEN "expire" ELSE "count",
                   e |-> e, invite |-> invitations[e]]
  <2>1. invitations[e] \in Invitation
    BY <1>0, <1>10, OnboardingIndices DEF BeginClaim, NoInvitation
  <2>2. FormShape(t)
    BY <2>1 DEF FormShape
  <2>3. QED
    BY <1>10, <2>2, NotesInv DEF BeginClaim
<1>11. ASSUME NEW f \in Forms, DropInvitation(f) PROVE OnboardingInv'
  <2>0. PICK t : t = [form[f] EXCEPT !.pc = "invite"]
    OBVIOUS
  <2>1. PICK e \in DOMAIN enrolments : e = form[f].e
    BY <1>0, <1>11 DEF DropInvitation, FormShape
  <2>2. /\ invitations' = [invitations EXCEPT ![e] = NoInvitation]
        /\ Fills(f, t) /\ UNCHANGED <<enrolments, issued, late, users>>
    BY <1>11, <2>0, <2>1 DEF DropInvitation
  <2>3. OnboardingRows' /\ Linked'
    <3>1. issued' \in 0 .. MaxInvitations /\ issued <= issued'
      BY <1>0, <2>2, OnboardingIndices DEF OnboardingRows
    <3>2. QED
      BY <2>2, <3>1, InvitationKeeps
  <2>4. FormShape(t)'
    <3>1. t.pc = "invite" /\ t.e = e
      BY <1>0, <1>11, <2>0, <2>1 DEF FormShape, DropInvitation
    <3>2. QED
      BY <2>2, <3>1 DEF FormShape
  <2>5. QED
    BY <2>2, <2>3, <2>4, FillsInv
<1>12. ASSUME NEW f \in Forms, InsertInvitation(f) PROVE OnboardingInv'
  <2>1. PICK e \in DOMAIN enrolments : e = form[f].e
    BY <1>0, <1>12 DEF InsertInvitation, FormShape
  <2>2. Fills(f, NoForm) /\ UNCHANGED <<enrolments, late, users>>
    BY <1>12 DEF InsertInvitation
  <2>3. CASE UNCHANGED <<issued, invitations>>
    BY <1>0, <2>2, <2>3, FillsInv DEF OnboardingRows, Linked
  <2>4. ASSUME issued < MaxInvitations, issued' = issued + 1,
               invitations' = [invitations EXCEPT ![e] = [token |-> issued', status |-> "pending"]]
        PROVE  OnboardingInv'
    <3> DEFINE row == [token |-> issued + 1, status |-> "pending"]
    <3>1. issued' \in 0 .. MaxInvitations /\ issued <= issued' /\ issued + 1 \in 1 .. MaxInvitations
      BY <1>0, <2>4, OnboardingIndices DEF OnboardingRows
    <3>2. row \in Invitation /\ row.status # "claimed"
      BY <3>1 DEF Invitation
    <3>3. invitations' = [invitations EXCEPT ![e] = row]
      BY <2>4
    <3> HIDE DEF row
    <3>4. OnboardingRows' /\ Linked'
      BY <2>2, <3>1, <3>2, <3>3, InvitationKeeps
    <3>5. QED
      BY <1>0, <2>2, <3>4, FillsInv
  <2>5. QED
    BY <1>12, <2>1, <2>3, <2>4 DEF InsertInvitation
<1>13. ASSUME NEW f \in Forms, MarkExpired(f) PROVE OnboardingInv'
  <2>1. PICK e \in DOMAIN enrolments, invite \in Invitation :
          e = form[f].e /\ invite = form[f].invite
    BY <1>0, <1>13 DEF MarkExpired, FormShape
  <2> DEFINE row == [invite EXCEPT !.status = "expired"]
  <2>2. Fills(f, NoForm) /\ UNCHANGED <<enrolments, issued, late, users>>
    BY <1>13 DEF MarkExpired
  <2>3. invitations' = invitations \/ invitations' = [invitations EXCEPT ![e] = row]
    BY <1>13, <2>1 DEF MarkExpired
  <2>4. row \in Invitation /\ row.status # "claimed"
    BY InvitationWith
  <2> HIDE DEF row
  <2>5. issued' \in 0 .. MaxInvitations /\ issued <= issued'
    BY <1>0, <2>2, OnboardingIndices DEF OnboardingRows
  <2>6. OnboardingRows' /\ Linked'
    <3>1. CASE invitations' = invitations
      BY <1>0, <2>2, <3>1 DEF OnboardingRows, Linked
    <3>2. CASE invitations' = [invitations EXCEPT ![e] = row]
      BY <2>2, <2>4, <2>5, <3>2, InvitationKeeps
    <3>3. QED
      BY <2>3, <3>1, <3>2
  <2>7. QED
    BY <1>0, <2>2, <2>6, FillsInv
<1>14. ASSUME NEW f \in Forms, CountExisting(f) PROVE OnboardingInv'
  <2> DEFINE t == [form[f] EXCEPT !.pc = "create"]
  <2>1. Fills(f, t) \/ Fills(f, NoForm)
    BY <1>14 DEF CountExisting
  <2>2. t.pc = "create" => FormShape(t)
    BY <1>0, <1>14 DEF CountExisting, FormShape
  <2>3. t.pc = "create"
    BY <1>0, <1>14 DEF CountExisting
  <2>4. QED
    BY <1>0, <1>14, <2>1, <2>2, <2>3, NotesInv DEF CountExisting
<1>15. ASSUME NEW f \in Forms, CreateStudent(f) PROVE OnboardingInv'
  <2>1. Fills(f, NoForm)
    BY <1>15 DEF CreateStudent, Provision
  <2>2. QED
    BY <1>0, <1>15, <2>1, ProvisionKeeps, FillsInv
<1>16. ASSUME NEW f \in Forms, DropForm(f) PROVE OnboardingInv'
  BY <1>0, <1>16, NotesInv DEF DropForm
<1>17. CASE UNCHANGED ovars
  BY <1>17 DEF ovars, OnboardingInv, OnboardingRows, Linked, FormShape
<1>18. QED
  BY <1>1, <1>2, <1>3, <1>4, <1>5, <1>6, <1>7, <1>8, <1>9, <1>10, <1>11, <1>12, <1>13,
     <1>14, <1>15, <1>16, <1>17 DEF OnboardingNext

\* Enrolments, accounts and invitations stay linked however requests overlap and
\* fail.
THEOREM OnboardingInvariant == OnboardingSpec => []OnboardingInv
<1>1. OnboardingInit => OnboardingInv
  BY OnboardingInitInv
<1>2. OnboardingInv /\ [OnboardingNext]_ovars => OnboardingInv'
  BY OnboardingNextInv
<1>3. QED
  BY <1>1, <1>2, PTL DEF OnboardingSpec

\* A student's account and its enrolment point at each other, and an invitation is
\* claimed only while there is such an account, for any number of enrolments,
\* invitations, accounts and requests (ClaimInvitation, AdminDeleteUser).
THEOREM ClaimIsWholeHolds == OnboardingSpec => []ClaimIsWhole
<1>1. OnboardingInv => ClaimIsWhole
  BY DEF OnboardingInv, Linked, ClaimIsWhole
<1>2. QED
  BY <1>1, OnboardingInvariant, PTL

------------------------------------------------------------------------------
(* The e-mail about a notice *)

MailKnows(t) ==
  /\ t = [pc |-> "mail", mode |-> t.mode, items |-> t.items, left |-> t.left,
          todo |-> t.todo]
  /\ t.mode \in {"per_event", "digest"}
  /\ t.items \subseteq notices /\ t.todo \subseteq notices
  /\ t.left \subseteq t.items /\ t.items \cap t.todo = {}
  /\ \A m, n \in t.items : m.user = n.user
  /\ (\E n \in t.items : n.user \in Unreachable) => t.left = t.items
  /\ \A n \in t.items \ t.left : mails[n] > 0

MarkKnows(t) ==
  /\ t = [pc |-> "mark", items |-> t.items, todo |-> t.todo]
  /\ t.items \subseteq notices /\ t.todo \subseteq notices
  /\ t.items \cap t.todo = {}
  /\ \A n \in t.items : mails[n] > 0 \/ n \in muted

\* What a worker has read, and has done about it.
TaskKnows(t) ==
  \/ t = Resting
  \/ t = [pc |-> "sweep", todo |-> t.todo] /\ t.todo \subseteq Notice
  \/ t = [pc |-> "send", todo |-> t.todo] /\ t.todo \subseteq notices
  \/ MailKnows(t)
  \/ MarkKnows(t)

\* Replica i's pass may still e-mail n, or has e-mailed it and not marked it yet.
Owes(i, n) ==
  \/ task[i].pc = "send" /\ n \in task[i].todo
  \/ task[i].pc = "mail" /\ n \in task[i].left \cup task[i].todo
  \/ task[i].pc = "mark" /\ n \in task[i].todo

Done(i, n) ==
  \/ task[i].pc = "mail" /\ n \in task[i].items \ task[i].left
  \/ task[i].pc = "mark" /\ n \in task[i].items

Owing(n) == {i \in Replicas : Owes(i, n)}
Doing(n) == {i \in Replicas : Done(i, n)}

\* Before n is marked, every e-mail but those paid for by a fault has a replica that
\* is about to mark it; afterwards only replicas that read it before may repeat it.
Accounted(n) ==
  /\ n \notin emailed => mails[n] <= faults + Cardinality(Doing(n))
  /\ n \in emailed => mails[n] + Cardinality(Owing(n)) <= faults + Cardinality(running)

NoticesInv ==
  /\ NoticesTypeOK /\ MarkedWasMailed
  /\ \A i \in Replicas : TaskKnows(task[i]) /\ (task[i] = Resting \/ i \in running)
  /\ \A n \in Notice : Accounted(n)

One(p) == IF p THEN 1 ELSE 0

\* What a step of replica i does to the account of n.
Books(i, n) ==
  \/ /\ n \notin emailed /\ n \notin emailed'
     /\ mails'[n] + faults + One(Done(i, n)) <= mails[n] + faults' + One(Done(i, n))'
  \/ /\ n \in emailed /\ n \in emailed'
     /\ mails'[n] + faults + One(Owes(i, n))' <= mails[n] + faults' + One(Owes(i, n))
  \/ /\ n \notin emailed /\ n \in emailed'
     /\ mails'[n] = mails[n] /\ faults' = faults
     /\ Done(i, n) /\ ~Owes(i, n)'

Effect(i) ==
  /\ UNCHANGED <<situation, people, running, read, changes>>
  /\ faults' \in 0 .. MaxFaults /\ faults <= faults'
  /\ \E t : Turns(i, t)
  /\ TaskKnows(task[i])' /\ (task'[i] = Resting \/ i \in running)
  /\ notices \subseteq notices' /\ notices' \subseteq Notice
  /\ emailed' \subseteq notices' /\ emailed \subseteq emailed'
  /\ mails' \in [Notice -> Nat] /\ \A n \in Notice : mails'[n] >= mails[n]
  /\ muted \subseteq muted' /\ muted' \subseteq Notice
  /\ \A n \in emailed' \ emailed : mails[n] > 0 \/ n \in muted
  /\ \A n \in Notice : Books(i, n)

-----------------------------------------------------------------------------
(* Counting replicas *)

LEMMA OneChanges ==
  ASSUME NEW S, NEW T, IsFiniteSet(S), IsFiniteSet(T), NEW i, S \ {i} = T \ {i}
  PROVE  /\ Cardinality(S) \in Nat /\ Cardinality(T) \in Nat
         /\ Cardinality(S) + One(i \in T) = Cardinality(T) + One(i \in S)
<1> DEFINE R == S \ {i}
<1>1. IsFiniteSet(R) /\ i \notin R
  BY FS_Subset
<1>2. Cardinality(R) \in Nat /\ Cardinality(R \cup {i}) = Cardinality(R) + 1
  BY <1>1, FS_CardinalityType, FS_AddElement
<1>3. Cardinality(S) = Cardinality(R) + One(i \in S)
  <2>1. CASE i \in S
    <3>1. S = R \cup {i}
      BY <2>1
    <3>2. QED
      BY <1>2, <2>1, <3>1 DEF One
  <2>2. CASE i \notin S
    <3>1. S = R
      BY <2>2
    <3>2. QED
      BY <1>2, <2>2, <3>1 DEF One
  <2>3. QED
    BY <2>1, <2>2
<1>4. Cardinality(T) = Cardinality(R) + One(i \in T)
  <2>1. CASE i \in T
    <3>1. T = R \cup {i}
      BY <2>1
    <3>2. QED
      BY <1>2, <2>1, <3>1 DEF One
  <2>2. CASE i \notin T
    <3>1. T = R
      BY <2>2
    <3>2. QED
      BY <1>2, <2>2, <3>1 DEF One
  <2>3. QED
    BY <2>1, <2>2
<1>5. One(i \in S) \in {0, 1} /\ One(i \in T) \in {0, 1}
  BY DEF One
<1> HIDE DEF R
<1>6. QED
  BY <1>2, <1>3, <1>4, <1>5

LEMMA DisjointWithin ==
  ASSUME NEW S, NEW T, NEW R, IsFiniteSet(R), S \subseteq R, T \subseteq R, S \cap T = {}
  PROVE  Cardinality(S) + Cardinality(T) <= Cardinality(R)
<1>1. IsFiniteSet(S) /\ IsFiniteSet(T)
  BY FS_Subset
<1>2. Cardinality(S \cup T) = Cardinality(S) + Cardinality(T) - Cardinality(S \cap T)
  BY <1>1, FS_Union
<1>3. Cardinality(S \cap T) = 0
  BY FS_EmptySet
<1>4. Cardinality(S \cup T) <= Cardinality(R)
  BY FS_Subset
<1>5. Cardinality(S) \in Nat /\ Cardinality(T) \in Nat
  BY <1>1, FS_CardinalityType
<1>6. QED
  BY <1>2, <1>3, <1>4, <1>5

LEMMA OwesOrDone ==
  ASSUME NoticesInv, NEW i \in Replicas, NEW n
  PROVE  /\ ~(Owes(i, n) /\ Done(i, n))
         /\ Owes(i, n) \/ Done(i, n) => i \in running
<1>1. TaskKnows(task[i]) /\ (task[i] = Resting \/ i \in running)
  BY DEF NoticesInv
<1>2. QED
  BY <1>1 DEF TaskKnows, MailKnows, MarkKnows, Owes, Done, Resting

\* The replicas that owe an e-mail, or have done it, differ by the one that moved.
LEMMA OneMoves ==
  ASSUME NoticesInv, NEW i \in Replicas, \E t : Turns(i, t), NEW n
  PROVE  /\ IsFiniteSet(Doing(n)) /\ IsFiniteSet(Doing(n)')
         /\ IsFiniteSet(Owing(n)) /\ IsFiniteSet(Owing(n)')
         /\ Doing(n) \ {i} = Doing(n)' \ {i} /\ Owing(n) \ {i} = Owing(n)' \ {i}
         /\ (i \in Doing(n) <=> Done(i, n)) /\ (i \in Doing(n)' <=> Done(i, n)')
         /\ (i \in Owing(n) <=> Owes(i, n)) /\ (i \in Owing(n)' <=> Owes(i, n)')
<1>1. IsFiniteSet(Replicas) /\ DOMAIN task = Replicas
  BY NoticeBounds DEF NoticesInv, NoticesTypeOK
<1>2. \A j \in Replicas \ {i} : task'[j] = task[j]
  BY <1>1 DEF Turns
<1>3. \A j \in Replicas \ {i} : (Done(j, n) <=> Done(j, n)') /\ (Owes(j, n) <=> Owes(j, n)')
  BY <1>2 DEF Done, Owes
<1>4. /\ Doing(n) \subseteq Replicas /\ Doing(n)' \subseteq Replicas
      /\ Owing(n) \subseteq Replicas /\ Owing(n)' \subseteq Replicas
  BY DEF Doing, Owing
<1>5. /\ IsFiniteSet(Doing(n)) /\ IsFiniteSet(Doing(n)')
      /\ IsFiniteSet(Owing(n)) /\ IsFiniteSet(Owing(n)')
  BY <1>1, <1>4, FS_Subset
<1>6. QED
  BY <1>3, <1>5 DEF Doing, Owing

LEMMA BooksBalance ==
  ASSUME NoticesInv, NEW i \in Replicas, Effect(i), NEW n \in Notice
  PROVE  Accounted(n)'
<1>0. /\ Accounted(n) /\ Books(i, n)
      /\ mails[n] \in Nat /\ mails'[n] \in Nat /\ faults \in Nat /\ faults' \in Nat
      /\ running' = running /\ running \subseteq Replicas /\ IsFiniteSet(running)
      /\ Cardinality(running) \in Nat
  <2>1. /\ mails[n] \in Nat /\ mails'[n] \in Nat /\ faults \in Nat /\ faults' \in Nat
        /\ running' = running /\ running \subseteq Replicas
    BY NoticeBounds DEF NoticesInv, NoticesTypeOK, Effect
  <2>2. IsFiniteSet(running) /\ Cardinality(running) \in Nat
    BY <2>1, NoticeBounds, FS_Subset, FS_CardinalityType
  <2>3. QED
    BY <2>1, <2>2 DEF NoticesInv, Effect
<1>1. /\ IsFiniteSet(Doing(n)) /\ IsFiniteSet(Doing(n)')
      /\ IsFiniteSet(Owing(n)) /\ IsFiniteSet(Owing(n)')
      /\ Doing(n) \ {i} = Doing(n)' \ {i} /\ Owing(n) \ {i} = Owing(n)' \ {i}
      /\ (i \in Doing(n) <=> Done(i, n)) /\ (i \in Doing(n)' <=> Done(i, n)')
      /\ (i \in Owing(n) <=> Owes(i, n)) /\ (i \in Owing(n)' <=> Owes(i, n)')
  BY OneMoves DEF Effect
<1>2. /\ Cardinality(Doing(n)) \in Nat /\ Cardinality(Doing(n)') \in Nat
      /\ Cardinality(Doing(n)) + One(Done(i, n))'
           = Cardinality(Doing(n)') + One(Done(i, n))
  <2>1. /\ Cardinality(Doing(n)) \in Nat /\ Cardinality(Doing(n)') \in Nat
        /\ Cardinality(Doing(n)) + One(i \in Doing(n)')
             = Cardinality(Doing(n)') + One(i \in Doing(n))
    BY <1>1, OneChanges
  <2>2. QED
    BY <1>1, <2>1 DEF One
<1>3. /\ Cardinality(Owing(n)) \in Nat /\ Cardinality(Owing(n)') \in Nat
      /\ Cardinality(Owing(n)) + One(Owes(i, n))'
           = Cardinality(Owing(n)') + One(Owes(i, n))
  <2>1. /\ Cardinality(Owing(n)) \in Nat /\ Cardinality(Owing(n)') \in Nat
        /\ Cardinality(Owing(n)) + One(i \in Owing(n)')
             = Cardinality(Owing(n)') + One(i \in Owing(n))
    BY <1>1, OneChanges
  <2>2. QED
    BY <1>1, <2>1 DEF One
<1>4. One(Done(i, n)) \in {0, 1} /\ One(Done(i, n))' \in {0, 1}
      /\ One(Owes(i, n)) \in {0, 1} /\ One(Owes(i, n))' \in {0, 1}
  BY DEF One
<1>5. CASE n \notin emailed /\ n \notin emailed'
  <2>1. mails[n] <= faults + Cardinality(Doing(n))
    BY <1>0, <1>5 DEF Accounted
  <2>2. mails'[n] + faults + One(Done(i, n)) <= mails[n] + faults' + One(Done(i, n))'
    BY <1>0, <1>5 DEF Books
  <2>3. mails'[n] <= faults' + Cardinality(Doing(n)')
    BY <1>0, <1>2, <1>4, <2>1, <2>2
  <2>4. QED
    BY <1>5, <2>3 DEF Accounted
<1>6. CASE n \in emailed /\ n \in emailed'
  <2>1. mails[n] + Cardinality(Owing(n)) <= faults + Cardinality(running)
    BY <1>0, <1>6 DEF Accounted
  <2>2. mails'[n] + faults + One(Owes(i, n))' <= mails[n] + faults' + One(Owes(i, n))
    BY <1>0, <1>6 DEF Books
  <2>3. mails'[n] + Cardinality(Owing(n)') <= faults' + Cardinality(running)
    BY <1>0, <1>3, <1>4, <2>1, <2>2
  <2>4. QED
    BY <1>0, <1>6, <2>3 DEF Accounted
<1>7. CASE n \notin emailed /\ n \in emailed'
  <2>1. /\ mails[n] <= faults + Cardinality(Doing(n))
        /\ mails'[n] = mails[n] /\ faults' = faults /\ Done(i, n) /\ ~Owes(i, n)'
    BY <1>0, <1>7 DEF Accounted, Books
  <2>2. Doing(n) \subseteq running /\ Owing(n) \subseteq running /\ Owing(n) \cap Doing(n) = {}
    BY OwesOrDone DEF Doing, Owing
  <2>3. Owing(n)' \subseteq Owing(n)
    BY <1>1, <2>1
  <2>4. Cardinality(Doing(n)) + Cardinality(Owing(n)') <= Cardinality(running)
    BY <1>0, <2>2, <2>3, DisjointWithin
  <2>5. mails'[n] + Cardinality(Owing(n)') <= faults' + Cardinality(running)
    BY <1>0, <1>2, <1>3, <2>1, <2>4
  <2>6. QED
    BY <1>0, <1>7, <2>5 DEF Accounted
<1>8. CASE n \in emailed /\ n \notin emailed'
  BY <1>8 DEF Effect
<1>9. QED
  BY <1>5, <1>6, <1>7, <1>8
-----------------------------------------------------------------------------
(* The steps of a worker *)

LEMMA Typed ==
  ASSUME NoticesInv
  PROVE  /\ faults \in 0 .. MaxFaults /\ MaxFaults \in Nat /\ DOMAIN task = Replicas
         /\ notices \subseteq Notice /\ emailed \subseteq notices /\ muted \subseteq Notice
         /\ mails \in [Notice -> Nat] /\ mode \in [Staff -> Modes]
         /\ \A i \in Replicas : TaskKnows(task[i]) /\ (task[i] = Resting \/ i \in running)
         /\ \A i \in Replicas : \A t : Turns(i, t) => task'[i] = t
BY NoticeBounds DEF NoticesInv, NoticesTypeOK, Turns

\* Mail rests: nothing done is given up but for a fault, and of what is marked
\* nothing is read anew.
LEMMA QuietEffect ==
  ASSUME NoticesInv, NEW i \in Replicas,
         UNCHANGED <<situation, people, running, read, emailed, mails, changes>>,
         faults' \in 0 .. MaxFaults, faults <= faults',
         \E t : Turns(i, t), TaskKnows(task[i])', task'[i] = Resting \/ i \in running,
         notices \subseteq notices', notices' \subseteq Notice,
         muted \subseteq muted', muted' \subseteq Notice,
         \A n \in Notice : Done(i, n) => Done(i, n)' \/ faults < faults',
         \A n \in Notice : Owes(i, n)' => n \notin emailed \/ Owes(i, n)
  PROVE  Effect(i)
<1>1. /\ faults \in Nat /\ faults' \in Nat /\ mails \in [Notice -> Nat] /\ emailed \subseteq notices
  BY Typed
<1>2. \A n \in Notice : mails'[n] = mails[n] /\ mails[n] \in Nat
  BY <1>1
<1>3. ASSUME NEW n \in Notice
      PROVE  Books(i, n)
  <2>1. CASE n \in emailed
    <3>1. One(Owes(i, n))' <= One(Owes(i, n))
      BY <2>1 DEF One
    <3>2. One(Owes(i, n)) \in {0, 1} /\ One(Owes(i, n))' \in {0, 1}
      BY DEF One
    <3>3. QED
      BY <1>1, <1>2, <2>1, <3>1, <3>2 DEF Books
  <2>2. CASE n \notin emailed
    <3>1. One(Done(i, n)) <= One(Done(i, n))' \/ faults < faults'
      BY DEF One
    <3>2. One(Done(i, n)) \in {0, 1} /\ One(Done(i, n))' \in {0, 1}
      BY DEF One
    <3>3. faults + One(Done(i, n)) <= faults' + One(Done(i, n))'
      BY <1>1, <3>1, <3>2
    <3>4. QED
      BY <1>1, <1>2, <2>2, <3>2, <3>3 DEF Books
  <2>3. QED
    BY <2>1, <2>2
<1>4. QED
  BY <1>1, <1>2, <1>3 DEF Effect

LEMMA RestingKnows == TaskKnows(Resting) /\ Resting.pc = "rest"
BY DEF TaskKnows, Resting

LEMMA SweepEffect ==
  ASSUME NoticesInv, NEW i \in Replicas, BeginSweep(i) PROVE Effect(i)
<1>1. PICK todo \in SUBSET Notice : Turns(i, [pc |-> "sweep", todo |-> todo])
  BY DEF BeginSweep, Wanted
<1>2. task'[i] = [pc |-> "sweep", todo |-> todo]
  BY <1>1, Typed
<1>3. TaskKnows(task[i])' /\ task'[i].pc = "sweep"
  BY <1>2 DEF TaskKnows
<1>4. task[i] = Resting /\ task[i].pc = "rest" /\ i \in running
  BY RestingKnows DEF BeginSweep
<1>5. /\ UNCHANGED <<situation, people, running, inbox, mails, muted, changes>>
      /\ faults' \in 0 .. MaxFaults /\ faults <= faults'
  BY Typed DEF BeginSweep
<1>6. (\A n : ~Done(i, n)) /\ (\A n : ~Owes(i, n)')
  BY <1>3, <1>4 DEF Done, Owes
<1>7. QED
  BY <1>1, <1>3, <1>4, <1>5, <1>6, Typed, QuietEffect DEF inbox

LEMMA RaiseEffect ==
  ASSUME NoticesInv, NEW i \in Replicas, Raise(i) PROVE Effect(i)
<1>1. /\ task[i].pc = "sweep" /\ task[i] = [pc |-> "sweep", todo |-> task[i].todo]
      /\ task[i].todo \subseteq Notice /\ i \in running
  BY Typed, RestingKnows DEF Raise, TaskKnows, MailKnows, MarkKnows
<1>2. PICK n \in task[i].todo :
        /\ Turns(i, [task[i] EXCEPT !.todo = @ \ {n}])
        /\ \/ notices' = notices \cup {o \in {n} : ~Raised(o)} /\ UNCHANGED faults
           \/ faults < MaxFaults /\ faults' = faults + 1 /\ UNCHANGED notices
  BY DEF Raise
<1>3. task'[i] = [pc |-> "sweep", todo |-> task[i].todo \ {n}]
  BY <1>1, <1>2, Typed
<1>4. TaskKnows(task[i])' /\ task'[i].pc = "sweep"
  BY <1>1, <1>3 DEF TaskKnows
<1>5. notices \subseteq notices' /\ notices' \subseteq Notice
  BY <1>1, <1>2, Typed
<1>6. faults' \in 0 .. MaxFaults /\ faults <= faults'
  BY <1>2, Typed
<1>7. (\A m : ~Done(i, m)) /\ (\A m : ~Owes(i, m)')
  BY <1>1, <1>4 DEF Done, Owes
<1>8. UNCHANGED <<situation, people, running, read, emailed, mails, muted, changes>>
  BY DEF Raise
<1>9. QED
  BY <1>1, <1>2, <1>4, <1>5, <1>6, <1>7, <1>8, Typed, QuietEffect

LEMMA ReadEffect ==
  ASSUME NoticesInv, NEW i \in Replicas, ReadPending(i) PROVE Effect(i)
<1>1. task[i].pc = "sweep" /\ i \in running
  BY Typed, RestingKnows DEF ReadPending
<1>2. task'[i] = [pc |-> "send", todo |-> Pending]
  BY Typed DEF ReadPending
<1>3. TaskKnows(task[i])' /\ task'[i].pc = "send"
  BY <1>2 DEF TaskKnows, Pending, ReadPending, inbox
<1>4. (\A n : ~Done(i, n)) /\ (\A n : Owes(i, n)' => n \notin emailed)
  BY <1>1, <1>2 DEF Done, Owes, Pending
<1>5. /\ UNCHANGED <<situation, people, running, inbox, mails, muted, faults, changes>>
      /\ \E t : Turns(i, t)
  BY DEF ReadPending
<1>6. QED
  BY <1>1, <1>3, <1>4, <1>5, Typed, QuietEffect DEF inbox
LEMMA SendKnows ==
  ASSUME NoticesInv, NEW i \in Replicas, task[i].pc = "send"
  PROVE  /\ task[i] = [pc |-> "send", todo |-> task[i].todo]
         /\ task[i].todo \subseteq notices /\ i \in running
BY Typed, RestingKnows DEF TaskKnows, MailKnows, MarkKnows

LEMMA Skips ==
  ASSUME NEW i, NEW u, task[i] = [pc |-> "send", todo |-> task[i].todo]
  PROVE  Skip(i, u) = [pc |-> "send", todo |-> task[i].todo \ Items(i, u)]
<1> DEFINE todo == task[i].todo
           items == Items(i, u)
<1>1. Skip(i, u) = [task[i] EXCEPT !.todo = @ \ items]
  BY DEF Skip
<1>2. task[i] = [pc |-> "send", todo |-> todo]
  OBVIOUS
<1> HIDE DEF items, todo
<1>3. Skip(i, u) = [pc |-> "send", todo |-> todo \ items]
  BY <1>1, <1>2
<1>4. QED
  BY <1>3 DEF items, todo

\* A user's turn in the pass: the next task is about what was still to do.
LEMMA TurnEffect ==
  ASSUME NoticesInv, NEW i \in Replicas, NEW u \in Staff, task[i].pc = "send",
         UNCHANGED <<situation, people, running, inbox, mails, changes>>,
         faults' \in 0 .. MaxFaults, faults <= faults',
         muted \subseteq muted', muted' \subseteq muted \cup Items(i, u),
         \/ Turns(i, Skip(i, u))
         \/ \E m \in {"per_event", "digest"} : Turns(i, Written(i, u, m))
         \/ /\ Turns(i, [pc |-> "mark", items |-> Items(i, u), todo |-> Skip(i, u).todo])
            /\ Items(i, u) \subseteq muted'
  PROVE  Effect(i)
<1> DEFINE items == Items(i, u)
           rest == task[i].todo \ items
<1>1. /\ task[i] = [pc |-> "send", todo |-> task[i].todo]
      /\ task[i].todo \subseteq notices /\ i \in running
  BY SendKnows
<1>2. /\ items \subseteq task[i].todo /\ rest \subseteq task[i].todo /\ items \cap rest = {}
      /\ \A m, n \in items : m.user = n.user
  BY DEF Items
<1>3. Skip(i, u) = [pc |-> "send", todo |-> rest]
  BY <1>1, Skips
<1>4. /\ notices' = notices /\ muted' \subseteq Notice
      /\ \A n : ~Done(i, n)
      /\ \A n \in task[i].todo : Owes(i, n)
  BY <1>1, <1>2, Typed DEF inbox, Done, Owes
<1> HIDE DEF items, rest
<1>5. TaskKnows(task[i])' /\ \A n : Owes(i, n)' => n \in task[i].todo
  <2>1. CASE Turns(i, Skip(i, u))
    <3>1. task'[i] = [pc |-> "send", todo |-> rest]
      BY <2>1, <1>3, Typed
    <3>2. TaskKnows(task[i])'
      BY <3>1, <1>1, <1>2, <1>4 DEF TaskKnows
    <3>3. QED
      BY <3>1, <3>2, <1>2 DEF Owes
  <2>2. ASSUME NEW m \in {"per_event", "digest"}, Turns(i, Written(i, u, m))
        PROVE  TaskKnows(task[i])' /\ \A n : Owes(i, n)' => n \in task[i].todo
    <3>1. task'[i] = [pc |-> "mail", mode |-> m, items |-> items, left |-> items,
                      todo |-> rest]
      BY <2>2, Typed DEF Written, items, rest
    <3>2. MailKnows(task[i])'
      BY <3>1, <1>1, <1>2, <1>4 DEF MailKnows
    <3>3. TaskKnows(task[i])'
      BY <3>2 DEF TaskKnows
    <3>4. QED
      BY <3>1, <3>3, <1>2 DEF Owes
  <2>3. CASE /\ Turns(i, [pc |-> "mark", items |-> Items(i, u), todo |-> Skip(i, u).todo])
             /\ Items(i, u) \subseteq muted'
    <3>1. task'[i] = [pc |-> "mark", items |-> items, todo |-> rest] /\ items \subseteq muted'
      BY <2>3, <1>3, Typed DEF items
    <3>2. MarkKnows(task[i])'
      BY <3>1, <1>1, <1>2, <1>4 DEF MarkKnows
    <3>3. TaskKnows(task[i])'
      BY <3>2 DEF TaskKnows
    <3>4. QED
      BY <3>1, <3>3, <1>2 DEF Owes
  <2>4. QED
    BY <2>1, <2>2, <2>3
<1>6. \E t : Turns(i, t)
  <2>1. CASE Turns(i, Skip(i, u))
    BY <2>1
  <2>2. ASSUME NEW m, Turns(i, Written(i, u, m)) PROVE \E t : Turns(i, t)
    BY <2>2
  <2>3. ASSUME Turns(i, [pc |-> "mark", items |-> Items(i, u), todo |-> Skip(i, u).todo])
        PROVE  \E t : Turns(i, t)
    BY <2>3
  <2>4. QED
    BY <2>1, <2>2, <2>3
<1>7. QED
  BY <1>1, <1>4, <1>5, <1>6, Typed, QuietEffect DEF inbox

LEMMA AddressEffect ==
  ASSUME NoticesInv, NEW i \in Replicas, NEW u \in Staff, Address(i, u) PROVE Effect(i)
<1>1. /\ task[i].pc = "send" /\ Items(i, u) \subseteq task[i].todo
      /\ UNCHANGED <<situation, people, running, inbox, mails, faults, changes>>
      /\ mode[u] \in {"per_event", "digest", "none"}
  BY Typed DEF Address, Items, Modes
<1>2. faults' \in 0 .. MaxFaults /\ faults <= faults'
  BY <1>1, Typed
<1>3. CASE u \notin active
  <2>1. Turns(i, Skip(i, u)) /\ muted' = muted
    BY <1>3 DEF Address
  <2>2. QED
    BY <1>1, <1>2, <2>1, TurnEffect
<1>4. CASE u \in active /\ mode[u] = "none"
  <2>1. /\ Turns(i, [pc |-> "mark", items |-> Items(i, u), todo |-> Skip(i, u).todo])
        /\ muted' = muted \cup Items(i, u)
    BY <1>4 DEF Address
  <2>2. QED
    BY <1>1, <1>2, <2>1, TurnEffect
<1>5. CASE u \in active /\ mode[u] # "none"
  <2>1. Turns(i, Written(i, u, mode[u])) /\ muted' = muted
    BY <1>5 DEF Address
  <2>2. QED
    BY <1>1, <1>2, <1>5, <2>1, TurnEffect
<1>6. QED
  BY <1>3, <1>4, <1>5

LEMMA AddressFailsEffect ==
  ASSUME NoticesInv, NEW i \in Replicas, NEW u \in Staff, AddressFails(i, u)
  PROVE  Effect(i)
<1>1. /\ task[i].pc = "send" /\ faults' \in 0 .. MaxFaults /\ faults <= faults'
      /\ UNCHANGED <<situation, people, running, inbox, mails, muted, changes>>
      /\ Turns(i, Skip(i, u)) \/ Turns(i, Written(i, u, "digest"))
  BY Typed DEF AddressFails
<1>2. QED
  BY <1>1, TurnEffect

LEMMA MailIsKnown ==
  ASSUME NoticesInv, NEW i \in Replicas, task[i].pc = "mail"
  PROVE  MailKnows(task[i]) /\ i \in running
BY Typed, RestingKnows DEF TaskKnows, MarkKnows

LEMMA MarkIsKnown ==
  ASSUME NoticesInv, NEW i \in Replicas, task[i].pc = "mark"
  PROVE  MarkKnows(task[i]) /\ i \in running
BY Typed, RestingKnows DEF TaskKnows, MailKnows

\* An e-mail goes out: each notice in it was owed, and is done or paid by a fault.
LEMMA LetterEffect ==
  ASSUME NoticesInv, NEW i \in Replicas, NEW letter \in SUBSET Notice, Reach(letter),
         UNCHANGED <<situation, people, running, inbox, muted, changes>>,
         faults' \in 0 .. MaxFaults, faults <= faults', i \in running,
         \E t : Turns(i, t), TaskKnows(task[i])',
         \A n \in letter : /\ ~Done(i, n) /\ Owes(i, n)
                           /\ faults < faults' \/ (Done(i, n)' /\ ~Owes(i, n)'),
         \A n \in Notice \ letter : /\ Done(i, n) => Done(i, n)' \/ faults < faults'
                                    /\ Owes(i, n)' => Owes(i, n)
  PROVE  Effect(i)
<1>1. /\ faults \in Nat /\ faults' \in Nat /\ mails \in [Notice -> Nat]
      /\ emailed \subseteq notices /\ notices \subseteq Notice /\ muted \subseteq Notice
  BY Typed
<1>2. /\ mails' = [n \in Notice |-> IF n \in letter THEN mails[n] + 1 ELSE mails[n]]
      /\ emailed' = emailed /\ notices' = notices /\ read' = read /\ muted' = muted
  BY DEF Reach, inbox
<1>3. /\ mails' \in [Notice -> Nat]
      /\ \A n \in Notice : mails'[n] = mails[n] + One(n \in letter) /\ mails[n] \in Nat
  BY <1>1, <1>2 DEF One
<1>4. ASSUME NEW n \in Notice
      PROVE  Books(i, n) /\ mails'[n] >= mails[n]
  <2>1. /\ One(Done(i, n)) \in {0, 1} /\ One(Done(i, n))' \in {0, 1}
        /\ One(Owes(i, n)) \in {0, 1} /\ One(Owes(i, n))' \in {0, 1}
        /\ One(n \in letter) \in {0, 1}
    BY DEF One
  <2>2. /\ One(n \in letter) + One(Done(i, n)) <= One(Done(i, n))' \/ faults < faults'
        /\ One(n \in letter) + One(Done(i, n)) <= 1
        /\ One(n \in letter) + One(Owes(i, n))' <= One(Owes(i, n)) \/ faults < faults'
        /\ One(Owes(i, n))' <= One(Owes(i, n))
    BY DEF One
  <2>3. /\ One(n \in letter) + faults + One(Done(i, n)) <= faults' + One(Done(i, n))'
        /\ One(n \in letter) + faults + One(Owes(i, n))' <= faults' + One(Owes(i, n))
    BY <1>1, <2>1, <2>2
  <2>4. CASE n \in emailed
    BY <1>1, <1>2, <1>3, <2>1, <2>3, <2>4 DEF Books
  <2>5. CASE n \notin emailed
    BY <1>1, <1>2, <1>3, <2>1, <2>3, <2>5 DEF Books
  <2>6. QED
    BY <1>3, <2>1, <2>4, <2>5
<1>5. QED
  BY <1>1, <1>2, <1>3, <1>4 DEF Effect

LEMMA MailEffect ==
  ASSUME NoticesInv, NEW i \in Replicas, Mail(i) PROVE Effect(i)
<1> DEFINE t == task[i]
<1>1. MailKnows(t) /\ i \in running /\ t.pc = "mail"
  BY MailIsKnown DEF Mail
<1>2. PICK letter \in Letters(t) :
        /\ \A n \in letter : n.user \notin Unreachable
        /\ Reach(letter)
        /\ Turns(i, IF t.left = letter
                    THEN [pc |-> "mark", items |-> t.items, todo |-> t.todo]
                    ELSE [t EXCEPT !.left = @ \ letter])
  BY DEF Mail
<1>3. /\ t.items \subseteq Notice /\ t.left \subseteq t.items
      /\ t.items \cap t.todo = {} /\ letter \subseteq t.left
      /\ t = [pc |-> "mail", mode |-> t.mode, items |-> t.items, left |-> t.left,
              todo |-> t.todo]
  BY <1>1, <1>2, Typed DEF MailKnows, Letters
<1>4. UNCHANGED <<situation, people, running, inbox, muted, changes>> /\ faults' = faults
  BY DEF Mail
<1>5. \A n \in Notice : mails'[n] = IF n \in letter THEN mails[n] + 1 ELSE mails[n]
  BY <1>2 DEF Reach
<1>6. \A n \in t.items : n \in letter \/ mails[n] > 0 => mails'[n] > 0
  BY <1>3, <1>5, Typed
<1>7. \A n \in letter : ~Done(i, n) /\ Owes(i, n)
  BY <1>1, <1>3 DEF Done, Owes
<1>8. /\ TaskKnows(task[i])'
      /\ \A n \in letter : Done(i, n)' /\ ~Owes(i, n)'
      /\ \A n \in Notice \ letter : (Done(i, n) => Done(i, n)') /\ (Owes(i, n)' => Owes(i, n))
  <2>1. CASE t.left = letter
    <3>1. task'[i] = [pc |-> "mark", items |-> t.items, todo |-> t.todo]
      BY <1>2, <2>1, Typed
    <3>2. MarkKnows(task[i])'
      BY <3>1, <1>1, <1>3, <1>4, <1>6, <2>1 DEF MarkKnows, MailKnows, inbox
    <3>3. QED
      BY <3>1, <3>2, <1>1, <1>3, <2>1 DEF TaskKnows, Done, Owes
  <2>2. CASE t.left # letter
    <3>1. task'[i] = [pc |-> "mail", mode |-> t.mode, items |-> t.items,
                      left |-> t.left \ letter, todo |-> t.todo]
      <4>1. task'[i] = [t EXCEPT !.left = @ \ letter]
        BY <1>2, <2>2, Typed
      <4> HIDE DEF t
      <4>2. QED
        BY <4>1, <1>3
    <3>2. \A n \in t.items : n.user \notin Unreachable \/ letter = {}
      BY <1>1, <1>2, <1>3 DEF MailKnows
    <3>3. MailKnows(task[i])'
      <4>1. (\E n \in t.items : n.user \in Unreachable) => t.left \ letter = t.items
        BY <1>1, <3>2 DEF MailKnows
      <4>2. \A n \in t.items \ (t.left \ letter) : mails'[n] > 0
        BY <1>1, <1>6 DEF MailKnows
      <4>3. QED
        BY <3>1, <4>1, <4>2, <1>1, <1>3, <1>4 DEF MailKnows, inbox
    <3>4. QED
      BY <3>1, <3>3, <1>1, <1>3 DEF TaskKnows, Done, Owes
  <2>3. QED
    BY <2>1, <2>2
<1>9. \E s : Turns(i, s)
  BY <1>2
<1>10. faults' \in 0 .. MaxFaults /\ faults <= faults'
  BY <1>4, Typed
<1>11. letter \in SUBSET Notice
  BY <1>3
<1>12. QED
  BY <1>1, <1>2, <1>4, <1>7, <1>8, <1>9, <1>10, <1>11, LetterEffect

\* An error while a user is mailed: what was done is done again, at the price of a
\* fault, or nothing was done, as this user cannot be reached.
LEMMA MailFailsEffect ==
  ASSUME NoticesInv, NEW i \in Replicas, MailFails(i) PROVE Effect(i)
<1> DEFINE t == task[i]
<1>1. MailKnows(t) /\ i \in running /\ t.pc = "mail"
  BY MailIsKnown DEF MailFails
<1>2. PICK letter \in Letters(t) :
        IF \E n \in letter : n.user \in Unreachable
        THEN UNCHANGED <<mails, faults>>
        ELSE /\ faults < MaxFaults /\ faults' = faults + 1
             /\ Reach(letter) \/ UNCHANGED mails
  BY DEF MailFails
<1>3. /\ t.items \subseteq notices /\ t.items \subseteq Notice /\ t.left \subseteq t.items
      /\ t.todo \subseteq notices /\ letter \subseteq t.left
  BY <1>1, <1>2, Typed DEF MailKnows, Letters
<1>4. /\ UNCHANGED <<situation, people, running, inbox, muted, changes>>
      /\ Turns(i, AfterError(t))
  BY DEF MailFails
<1>5. task'[i] = [pc |-> "send", todo |-> t.todo]
  BY <1>4, Typed DEF AfterError
<1>6. TaskKnows(task[i])'
  BY <1>3, <1>4, <1>5 DEF TaskKnows, inbox
<1>7. \A n : Owes(i, n)' => Owes(i, n)
  BY <1>1, <1>5 DEF Owes
<1>8. faults' \in 0 .. MaxFaults /\ faults <= faults'
  BY <1>2, Typed
<1>9. CASE UNCHANGED mails
  <2>1. \A n : Done(i, n) => faults < faults'
    <3>1. CASE \E n \in letter : n.user \in Unreachable
      BY <3>1, <1>1, <1>3 DEF MailKnows, Done
    <3>2. CASE ~\E n \in letter : n.user \in Unreachable
      BY <3>2, <1>2, Typed
    <3>3. QED
      BY <3>1, <3>2
  <2>2. QED
    BY <1>1, <1>4, <1>6, <1>7, <1>8, <1>9, <2>1, Typed, QuietEffect DEF inbox
<1>10. CASE Reach(letter) /\ faults' = faults + 1
  <2>1. faults < faults'
    BY <1>10, Typed
  <2>2. \A n \in letter : ~Done(i, n) /\ Owes(i, n)
    BY <1>1, <1>3 DEF Done, Owes
  <2>3. letter \in SUBSET Notice
    BY <1>3
  <2>4. QED
    BY <1>1, <1>4, <1>6, <1>7, <1>8, <1>10, <2>1, <2>2, <2>3, LetterEffect
<1>11. QED
  BY <1>2, <1>9, <1>10

\* The notices of a user are marked, or the UPDATE fails.
LEMMA MarkEffect ==
  ASSUME NoticesInv, NEW i \in Replicas, Mark(i) PROVE Effect(i)
<1> DEFINE t == task[i]
<1>1. MarkKnows(t) /\ i \in running /\ t.pc = "mark"
  BY MarkIsKnown DEF Mark
<1>2. /\ UNCHANGED <<situation, people, running, notices, read, mails, muted, changes>>
      /\ task'[i] = [pc |-> "send", todo |-> t.todo] /\ \E s : Turns(i, s)
  BY Typed DEF Mark
<1>3. /\ t.items \subseteq notices /\ t.todo \subseteq notices /\ notices \subseteq Notice
      /\ emailed \subseteq notices /\ t.items \cap t.todo = {}
      /\ \A n \in t.items : mails[n] > 0 \/ n \in muted
  BY <1>1, Typed DEF MarkKnows
<1>4. TaskKnows(task[i])'
  BY <1>2, <1>3 DEF TaskKnows
<1>5. \A n : /\ Owes(i, n)' <=> n \in t.todo
             /\ Owes(i, n) <=> n \in t.todo
             /\ Done(i, n) <=> n \in t.items
             /\ ~Done(i, n)'
  BY <1>1, <1>2 DEF Owes, Done
<1>6. CASE UNCHANGED emailed /\ faults < MaxFaults /\ faults' = faults + 1
  <2>1. faults' \in 0 .. MaxFaults /\ faults < faults' /\ faults <= faults'
    BY <1>6, Typed
  <2>2. QED
    BY <1>1, <1>2, <1>4, <1>5, <1>6, <2>1, Typed, QuietEffect
<1>7. CASE emailed' = emailed \cup t.items /\ UNCHANGED faults
  <2>1. /\ faults' \in 0 .. MaxFaults /\ faults <= faults' /\ faults \in Nat
        /\ mails \in [Notice -> Nat] /\ muted \subseteq Notice
        /\ \A n \in Notice : mails[n] \in Nat /\ mails'[n] = mails[n]
    BY <1>2, <1>7, Typed
  <2>2. ASSUME NEW n \in Notice PROVE Books(i, n)
    <3>1. /\ One(Owes(i, n)) \in {0, 1} /\ One(Owes(i, n))' \in {0, 1}
          /\ One(Done(i, n)) \in {0, 1} /\ One(Done(i, n))' \in {0, 1}
      BY DEF One
    <3>2. CASE n \in emailed
      <4>1. One(Owes(i, n))' = One(Owes(i, n))
        BY <1>5 DEF One
      <4>2. QED
        BY <1>7, <2>1, <3>1, <3>2, <4>1 DEF Books
    <3>3. CASE n \notin emailed /\ n \in t.items
      BY <1>3, <1>5, <1>7, <2>1, <3>3 DEF Books
    <3>4. CASE n \notin emailed /\ n \notin t.items
      <4>1. One(Done(i, n)) = 0 /\ One(Done(i, n))' = 0
        BY <1>5, <3>4 DEF One
      <4>2. QED
        BY <1>7, <2>1, <3>1, <3>4, <4>1 DEF Books
    <3>5. QED
      BY <3>2, <3>3, <3>4
  <2>3. /\ emailed' \subseteq notices' /\ emailed \subseteq emailed'
        /\ \A n \in emailed' \ emailed : mails[n] > 0 \/ n \in muted
    BY <1>2, <1>3, <1>7
  <2>4. mails' \in [Notice -> Nat] /\ \A n \in Notice : mails'[n] >= mails[n]
    BY <1>2, <2>1
  <2>5. QED
    BY <1>1, <1>2, <1>3, <1>4, <2>1, <2>2, <2>3, <2>4 DEF Effect
<1>8. QED
  BY <1>6, <1>7 DEF Mark

\* A pass that ends, and one that a fault ends.
LEMMA EndEffect ==
  ASSUME NoticesInv, NEW i \in Replicas, EndPass(i) \/ Crash(i) PROVE Effect(i)
<1>1. /\ Turns(i, Resting) /\ faults' \in 0 .. MaxFaults /\ faults <= faults'
      /\ task[i].pc = "send" \/ faults < faults'
      /\ UNCHANGED <<situation, people, running, inbox, mails, muted, changes>>
  <2>1. faults \in 0 .. MaxFaults /\ MaxFaults \in Nat
    BY Typed
  <2>2. CASE EndPass(i)
    BY <2>1, <2>2 DEF EndPass
  <2>3. CASE Crash(i)
    BY <2>1, <2>3 DEF Crash
  <2>4. QED
    BY <2>2, <2>3
<1>a. task'[i] = Resting
  BY <1>1, Typed
<1>b. TaskKnows(task[i])'
  BY <1>a DEF TaskKnows
<1>2. \A n : ~Owes(i, n)'
  BY <1>a, RestingKnows DEF Owes
<1>3. \A n : Done(i, n) => faults < faults'
  BY <1>1 DEF Done
<1>4. QED
  BY <1>1, <1>a, <1>b, <1>2, <1>3, Typed, QuietEffect DEF inbox

LEMMA WorkerEffect ==
  ASSUME NoticesInv, NEW i \in Replicas, Worker(i) \/ Crash(i) PROVE Effect(i)
<1>1. ASSUME NEW u \in Staff, Address(i, u) \/ AddressFails(i, u) PROVE Effect(i)
  BY <1>1, AddressEffect, AddressFailsEffect
<1>2. QED
  BY <1>1, SweepEffect, RaiseEffect, ReadEffect, MailEffect, MailFailsEffect, MarkEffect,
     EndEffect DEF Worker

-----------------------------------------------------------------------------
(* The invariant *)

\* What a worker knows stays true: rows stay, and so do e-mails.
LEMMA MailersKnow ==
  ASSUME NoticesInv, NEW i \in Replicas, Effect(i), NEW j \in Replicas
  PROVE  TaskKnows(task[j])' /\ (task'[j] = Resting \/ j \in running')
<1>1. CASE j = i
  BY <1>1 DEF Effect
<1>2. CASE j # i
  <2>1. task'[j] = task[j] /\ running' = running
    BY <1>2, Typed DEF Effect, Turns
  <2>2. TaskKnows(task[j]) /\ (task[j] = Resting \/ j \in running)
    BY Typed
  <2>3. /\ notices \subseteq notices' /\ notices \subseteq Notice /\ muted \subseteq muted'
        /\ \A n \in Notice : mails[n] > 0 => mails'[n] > 0
    <3>1. \A n \in Notice : mails[n] \in Nat /\ mails'[n] \in Nat /\ mails'[n] >= mails[n]
      BY Typed DEF Effect
    <3>2. QED
      BY <3>1, Typed DEF Effect
  <2>4. CASE task[j] = Resting
    BY <2>1, <2>4 DEF TaskKnows
  <2>5. CASE task[j] = [pc |-> "sweep", todo |-> task[j].todo] /\ task[j].todo \subseteq Notice
    BY <2>1, <2>2, <2>5 DEF TaskKnows
  <2>6. CASE task[j] = [pc |-> "send", todo |-> task[j].todo] /\ task[j].todo \subseteq notices
    BY <2>1, <2>2, <2>3, <2>6 DEF TaskKnows
  <2>7. CASE MailKnows(task[j])
    <3>1. MailKnows(task[j])'
      BY <2>1, <2>3, <2>7 DEF MailKnows
    <3>2. QED
      BY <2>1, <2>2, <3>1 DEF TaskKnows
  <2>8. CASE MarkKnows(task[j])
    <3>1. MarkKnows(task[j])'
      BY <2>1, <2>3, <2>8 DEF MarkKnows
    <3>2. QED
      BY <2>1, <2>2, <3>1 DEF TaskKnows
  <2>9. QED
    BY <2>2, <2>4, <2>5, <2>6, <2>7, <2>8 DEF TaskKnows
<1>3. QED
  BY <1>1, <1>2

LEMMA KnownIsTask ==
  ASSUME NEW j \in Replicas, TaskKnows(task[j])', notices' \subseteq Notice
  PROVE  task'[j] \in Task \cup {Resting}
<1> DEFINE t == task'[j]
<1>1. CASE t = Resting
  BY <1>1
<1>2. CASE t = [pc |-> "sweep", todo |-> t.todo] /\ t.todo \subseteq Notice
  BY <1>2 DEF Task
<1>3. CASE t = [pc |-> "send", todo |-> t.todo] /\ t.todo \subseteq notices'
  BY <1>3 DEF Task
<1>4. CASE MailKnows(task[j])'
  BY <1>4 DEF Task, MailKnows
<1>5. CASE MarkKnows(task[j])'
  BY <1>5 DEF Task, MarkKnows
<1>6. QED
  BY <1>1, <1>2, <1>3, <1>4, <1>5 DEF TaskKnows

LEMMA EffectInv ==
  ASSUME NoticesInv, NEW i \in Replicas, Effect(i)
  PROVE  NoticesInv'
<1>1. \A n \in Notice : Accounted(n)'
  BY BooksBalance
<1>2. \A j \in Replicas : TaskKnows(task[j])' /\ (task'[j] = Resting \/ j \in running')
  BY MailersKnow
<1>3. NoticesTypeOK /\ MarkedWasMailed
  BY DEF NoticesInv
<1>4. notices' \subseteq Notice
  BY DEF Effect
<1>5. task' \in [Replicas -> Task \cup {Resting}]
  <2>1. \A j \in Replicas : task'[j] \in Task \cup {Resting}
    BY <1>2, <1>4, KnownIsTask
  <2>2. task' = [j \in Replicas |-> task'[j]]
    BY <1>3 DEF NoticesTypeOK, Effect, Turns
  <2>3. QED
    BY <2>1, <2>2
<1>6. NoticesTypeOK'
  BY <1>3, <1>4, <1>5 DEF NoticesTypeOK, Effect, situation, people
<1>7. MarkedWasMailed'
  <2>1. ASSUME NEW n \in emailed' PROVE mails'[n] > 0 \/ n \in muted'
    <3>1. n \in Notice /\ mails[n] \in Nat /\ mails'[n] \in Nat /\ mails'[n] >= mails[n]
      BY <1>3, <1>4 DEF Effect, NoticesTypeOK
    <3>2. mails[n] > 0 \/ n \in muted
      BY <1>3 DEF MarkedWasMailed, Effect
    <3>3. QED
      BY <3>1, <3>2 DEF Effect
  <2>2. QED
    BY <2>1 DEF MarkedWasMailed
<1>8. QED
  BY <1>1, <1>2, <1>6, <1>7 DEF NoticesInv

\* What everyone else does touches nothing that the invariant speaks of.
LEMMA AroundInv ==
  ASSUME NoticesInv, Around \/ UNCHANGED nvars
  PROVE  NoticesInv'
<1>1. NoticesTypeOK /\ MaxMark \in Nat /\ MaxChanges \in Nat
  BY NoticeBounds DEF NoticesInv
<1> DEFINE Kept ==
      /\ NoticesTypeOK'
      /\ UNCHANGED <<running, notices, emailed, mails, muted, task, faults>>
<1>2. Kept
  <2>1. CASE UNCHANGED nvars
    BY <1>1, <2>1 DEF NoticesTypeOK, nvars, situation, people, inbox
  <2>2. ASSUME NEW n \in Notice, MarkRead(n)
        PROVE  Kept
    BY <1>1, <2>2 DEF NoticesTypeOK, MarkRead, Unread, situation, people
  <2>3. ASSUME NEW u \in Staff, MarkAllRead(u)
        PROVE  Kept
    BY <1>1, <2>3 DEF NoticesTypeOK, MarkAllRead, situation, people
  <2>4. ASSUME Change
        PROVE  /\ changes' \in 0 .. MaxChanges
               /\ UNCHANGED <<running, inbox, mails, muted, task, faults>>
    BY <1>1, <2>4 DEF NoticesTypeOK, Change
  <2>5. ASSUME NEW u \in Staff, ToggleActive(u)
        PROVE  Kept
    BY <1>1, <2>4, <2>5 DEF NoticesTypeOK, ToggleActive, situation, inbox
  <2>6. ASSUME NEW u \in Staff, NEW m \in Modes, SetMode(u, m)
        PROVE  Kept
    BY <1>1, <2>4, <2>6 DEF NoticesTypeOK, SetMode, situation, inbox
  <2>7. ASSUME NEW c \in Contracts, NEW date \in 0 .. MaxMark, MoveRenewal(c, date)
        PROVE  Kept
    BY <1>1, <2>4, <2>7 DEF NoticesTypeOK, MoveRenewal, people, inbox
  <2>8. ASSUME NEW m \in Works \cup Deals, Stir(m)
        PROVE  Kept
    BY <1>1, <2>4, <2>8 DEF NoticesTypeOK, Stir, people, inbox
  <2>9. ASSUME NextWeek
        PROVE  Kept
    BY <1>1, <2>4, <2>9 DEF NoticesTypeOK, NextWeek, people, inbox
  <2> HIDE DEF Kept
  <2>10. QED
    BY <2>1, <2>2, <2>3, <2>5, <2>6, <2>7, <2>8, <2>9 DEF Around
<1>3. MarkedWasMailed'
  BY <1>2 DEF NoticesInv, MarkedWasMailed
<1>4. ASSUME NEW j \in Replicas
      PROVE  TaskKnows(task[j])' /\ (task'[j] = Resting \/ j \in running')
  <2>1. TaskKnows(task[j]) /\ (task[j] = Resting \/ j \in running)
    BY Typed
  <2>2. task' = task /\ notices' = notices /\ mails' = mails /\ muted' = muted
    BY <1>2
  <2>3. TaskKnows(task[j])'
    BY <2>1, <2>2 DEF TaskKnows, MailKnows, MarkKnows
  <2>4. QED
    BY <1>2, <2>1, <2>3
<1>5. ASSUME NEW n \in Notice PROVE Accounted(n)'
  <2>1. Accounted(n)
    BY DEF NoticesInv
  <2>2. \A j \in Replicas : (Done(j, n)' <=> Done(j, n)) /\ (Owes(j, n)' <=> Owes(j, n))
    BY <1>2 DEF Done, Owes
  <2>3. Doing(n)' = Doing(n) /\ Owing(n)' = Owing(n)
    BY <2>2 DEF Doing, Owing
  <2>4. QED
    BY <1>2, <2>1, <2>3 DEF Accounted
<1>6. QED
  BY <1>2, <1>3, <1>4, <1>5 DEF NoticesInv

LEMMA NoticesInitInv == NoticesInit => NoticesInv
<1> SUFFICES ASSUME NoticesInit PROVE NoticesInv
  OBVIOUS
<1>1. NoticesTypeOK
  BY NoticeBounds DEF NoticesInit, NoticesTypeOK
<1>2. MarkedWasMailed
  BY DEF NoticesInit, MarkedWasMailed
<1>3. \A i \in Replicas : task[i] = Resting /\ TaskKnows(task[i])
  BY RestingKnows DEF NoticesInit
<1>4. ASSUME NEW n \in Notice PROVE Accounted(n)
  <2>1. \A i \in Replicas : ~Done(i, n)
    BY <1>3, RestingKnows DEF Done
  <2>2. Doing(n) = {}
    BY <2>1 DEF Doing
  <2>3. Cardinality(Doing(n)) = 0
    BY <2>2, FS_EmptySet
  <2>4. mails[n] = 0 /\ faults = 0 /\ n \notin emailed
    BY DEF NoticesInit
  <2>5. QED
    BY <2>3, <2>4 DEF Accounted
<1>5. QED
  BY <1>1, <1>2, <1>3, <1>4 DEF NoticesInv

LEMMA NoticesStepInv == NoticesInv /\ [NoticesNext]_nvars => NoticesInv'
<1> SUFFICES ASSUME NoticesInv, [NoticesNext]_nvars PROVE NoticesInv'
  OBVIOUS
<1>1. ASSUME NEW i \in Replicas, Worker(i) \/ Crash(i) PROVE NoticesInv'
  BY <1>1, WorkerEffect, EffectInv
<1>2. CASE Around \/ UNCHANGED nvars
  BY <1>2, AroundInv
<1>3. QED
  BY <1>1, <1>2 DEF NoticesNext

\* The books on e-mails balance in every state (SendPending, markEmailed).
THEOREM NoticesInvariant == NoticesSpec => []NoticesInv
BY NoticesInitInv, NoticesStepInv, PTL DEF NoticesSpec

\* The worker of every replica, the inbox and its history are what they are meant
\* to be (StartNotificationWorker).
THEOREM NoticesTypeCorrect == NoticesSpec => []NoticesTypeOK
<1>1. NoticesInv => NoticesTypeOK
  BY DEF NoticesInv
<1>2. QED
  BY <1>1, NoticesInvariant, PTL

\* What is marked as e-mailed reached its user, or they had switched e-mail off
\* (SendPending: unmarked after an error, "so the next pass retries").
THEOREM MarkedWasMailedHolds == NoticesSpec => []MarkedWasMailed
<1>1. NoticesInv => MarkedWasMailed
  BY DEF NoticesInv
<1>2. QED
  BY <1>1, NoticesInvariant, PTL

\* A reminder goes out once per replica at most, and once more for each fault.
THEOREM RepeatsAreAccountedForHolds == NoticesSpec => []RepeatsAreAccountedFor
<1>1. NoticesInv => RepeatsAreAccountedFor
  <2> SUFFICES ASSUME NoticesInv, NEW n \in Notice
               PROVE  mails[n] <= Cardinality(running) + faults
    BY DEF RepeatsAreAccountedFor
  <2>1. mails[n] \in Nat /\ faults \in Nat /\ Accounted(n)
    BY Typed DEF NoticesInv
  <2>2. /\ Doing(n) \subseteq running /\ Owing(n) \subseteq running
        /\ IsFiniteSet(running)
    <3>1. running \subseteq Replicas
      BY DEF NoticesInv, NoticesTypeOK
    <3>2. QED
      BY <3>1, NoticeBounds, FS_Subset, OwesOrDone DEF Doing, Owing
  <2>3. /\ Cardinality(Doing(n)) \in Nat /\ Cardinality(Owing(n)) \in Nat
        /\ Cardinality(running) \in Nat /\ Cardinality(Doing(n)) <= Cardinality(running)
    BY <2>2, FS_Subset, FS_CardinalityType
  <2>4. QED
    BY <2>1, <2>3 DEF Accounted
<1>2. QED
  BY <1>1, NoticesInvariant, PTL

-----------------------------------------------------------------------------
(* The shape of a capstone *)

AllStatuses == OpenStatuses \cup {"completed"}
Percents == {Percent(n) : n \in 0 .. Cardinality(Milestones)}

\* A row says one of its kind's answers, and is reviewed once it says another than
\* the first; a file it has is stored.
Answered(p) ==
  /\ \E k \in DOMAIN Answers(p.kind) : p.status = Answers(p.kind)[k]
  /\ p.reviewed = (p.status # Answers(p.kind)[1])
  /\ p.file \in 0 .. stored

\* What a request on milestones is about to write.
HandShape(t) ==
  /\ t.pc = "write" => t.m \in Milestones /\ t.status \in AllStatuses
  /\ t.pc = "progress" => t.completed \in 0 .. Cardinality(Milestones)

SheetInv ==
  /\ milestone \in [Milestones -> AllStatuses] /\ dated = Completed
  /\ progress \in {Born} \cup Percents
  /\ Len(papers) <= MaxPapers /\ \A i \in DOMAIN papers : Answered(papers[i])
  /\ \A h \in Hands : HandShape(hand[h])

LEMMA CompletedAreCounted == Cardinality(Completed) \in 0 .. Cardinality(Milestones)
<1>1. Completed \subseteq Milestones /\ IsFiniteSet(Milestones)
  BY HubBounds DEF Completed
<1>2. /\ IsFiniteSet(Completed) /\ Cardinality(Completed) \in Nat
      /\ Cardinality(Milestones) \in Nat
      /\ Cardinality(Completed) <= Cardinality(Milestones)
  BY <1>1, FS_Subset, FS_CardinalityType
<1>3. QED
  BY <1>2

\* A request's locals change, and no row.
LEMMA SheetTakes ==
  ASSUME HubInv, SheetInv, NEW h \in Hands, NEW t, Takes(h, t), HandShape(t),
         UNCHANGED papers, stored' \in Nat, stored <= stored',
         milestone' \in [Milestones -> AllStatuses], dated' = Completed',
         progress' \in {Born} \cup Percents
  PROVE  SheetInv'
<1>1. \A g \in Hands : hand'[g] = IF g = h THEN t ELSE hand[g]
  BY DEF HubInv, Takes
<1>2. \A g \in Hands : HandShape(hand[g])'
  BY <1>1 DEF SheetInv, HandShape
<1>3. stored \in Nat
  BY DEF HubInv, Rows
<1>4. \A i \in DOMAIN papers : Answered(papers[i])'
  BY <1>3 DEF SheetInv, Answered
<1>5. QED
  BY <1>2, <1>4 DEF SheetInv, Percents, Percent

\* A row that says nothing yet.
LEMMA SheetGrows ==
  ASSUME HubInv, SheetInv, NEW kind \in Steps \cup {"progress", "extension"},
         NEW file \in 0 .. stored, NewPaper(kind, file),
         UNCHANGED <<milestone, dated, progress, stored>>,
         \A h \in Hands : HandShape(hand[h])'
  PROVE  SheetInv'
<1>1. PICK says : says = Answers(kind)
  OBVIOUS
<1>2. 1 \in DOMAIN says /\ says[1] \in Says
  BY <1>1 DEF Answers, Says
<1> DEFINE p == [kind |-> kind, status |-> says[1], reviewed |-> FALSE, file |-> file]
<1>3. papers' = Append(papers, p) /\ Len(papers) < MaxPapers
  BY <1>1 DEF NewPaper
<1>4. p \in Paper /\ Answered(p)
  <2>1. p \in Paper
    BY <1>2 DEF Paper, HubInv, Rows
  <2>2. /\ Answers(p.kind) = says /\ p.status = says[1]
        /\ p.reviewed = FALSE /\ p.file \in 0 .. stored
    BY <1>1
  <2>3. QED
    BY <1>2, <2>1, <2>2 DEF Answered
<1> HIDE DEF p
<1>5. papers \in Seq(Paper)
  BY DEF HubInv, Rows
<1>6. /\ Len(papers') = Len(papers) + 1 /\ Len(papers) \in Nat
      /\ \A i \in DOMAIN papers' : (i \in DOMAIN papers /\ papers'[i] = papers[i]) \/ papers'[i] = p
  BY <1>3, <1>4, <1>5
<1>7. \A i \in DOMAIN papers' : Answered(papers'[i])
  BY <1>4, <1>6 DEF SheetInv
<1>8. \A i \in DOMAIN papers' : Answered(papers[i])'
  BY <1>7 DEF Answered
<1>9. Len(papers') <= MaxPapers
  BY <1>3, <1>6, HubBounds
<1>10. QED
  BY <1>8, <1>9 DEF SheetInv, Completed, Percents, Percent

\* One step per action.
LEMMA SheetNext == HubInv /\ SheetInv /\ [HubNext]_hvars => SheetInv'
<1> SUFFICES ASSUME HubInv, SheetInv, [HubNext]_hvars PROVE SheetInv'
  OBVIOUS
<1>0. /\ stored \in Nat /\ DOMAIN hand = Hands /\ papers \in Seq(Paper)
      /\ \A h \in Hands : HandKnows(hand[h]) /\ HandShape(hand[h])
      /\ milestone \in [Milestones -> AllStatuses] /\ dated = Completed
      /\ progress \in {Born} \cup Percents
  BY DEF HubInv, Rows, SheetInv
<1>1. ASSUME NEW h \in Hands, NEW t, Takes(h, t), HandShape(t),
             UNCHANGED <<milestone, dated, progress, papers, stored>>
      PROVE  SheetInv'
  BY <1>0, <1>1, SheetTakes DEF Completed
<1>2. ASSUME NEW h \in Hands, NEW m \in Milestones, NEW s \in AllStatuses,
             BeginRecount(h, m) \/ BeginMilestone(h, m, s)
      PROVE  SheetInv'
  <2>1. HandShape([pc |-> "count"]) /\ HandShape([pc |-> "write", m |-> m, status |-> s])
    BY DEF HandShape
  <2>2. CASE BeginRecount(h, m)
    BY <1>1, <2>1, <2>2 DEF BeginRecount, Starts
  <2>3. CASE BeginMilestone(h, m, s)
    BY <1>1, <2>1, <2>3 DEF BeginMilestone, Starts
  <2>4. QED
    BY <1>2, <2>2, <2>3
<1>3. ASSUME NEW h \in Hands, WriteMilestone(h) PROVE SheetInv'
  <2>1. PICK m, s : m = hand[h].m /\ s = hand[h].status
    OBVIOUS
  <2>2. m \in Milestones /\ s \in AllStatuses
    BY <1>0, <1>3, <2>1 DEF WriteMilestone, HandShape
  <2>3. /\ milestone' = [milestone EXCEPT ![m] = s]
        /\ dated' = With(dated, m, s = "completed")
        /\ Takes(h, [pc |-> "count"]) /\ UNCHANGED <<progress, papers, stored>>
    BY <1>3, <2>1 DEF WriteMilestone
  <2>4. milestone' \in [Milestones -> AllStatuses]
    BY <1>0, <2>2, <2>3
  <2>5. dated' = Completed'
    <3>1. \A n \in Milestones : milestone'[n] = IF n = m THEN s ELSE milestone[n]
      BY <1>0, <2>2, <2>3
    <3>2. Completed' = {n \in Milestones : IF n = m THEN s = "completed"
                                           ELSE milestone[n] = "completed"}
      BY <3>1 DEF Completed
    <3>3. QED
      BY <1>0, <2>2, <2>3, <3>2 DEF With, Completed
  <2>6. HandShape([pc |-> "count"])
    BY DEF HandShape
  <2>7. QED
    BY <1>0, <2>3, <2>4, <2>5, <2>6, SheetTakes
<1>4. ASSUME NEW h \in Hands, CountCompleted(h) PROVE SheetInv'
  <2>1. HandShape([pc |-> "progress", completed |-> Cardinality(Completed)])
    BY CompletedAreCounted DEF HandShape
  <2>2. QED
    BY <1>1, <1>4, <2>1 DEF CountCompleted
<1>5. ASSUME NEW h \in Hands, SetProgress(h) PROVE SheetInv'
  <2>1. PICK n : n = hand[h].completed
    OBVIOUS
  <2>2. n \in 0 .. Cardinality(Milestones)
    BY <1>0, <1>5, <2>1 DEF SetProgress, HandShape
  <2>3. progress' \in Percents
    BY <1>5, <2>1, <2>2 DEF SetProgress, Percents
  <2>4. HandShape(NoHand)
    BY DEF HandShape, NoHand
  <2>5. QED
    BY <1>0, <1>5, <2>3, <2>4, SheetTakes DEF SetProgress, Completed
<1>6. ASSUME NEW h \in Hands, Overlook(h) \/ DropHand(h) PROVE SheetInv'
  <2>1. /\ HandShape([pc |-> "count"]) /\ HandShape(NoHand)
        /\ HandShape([pc |-> "progress", completed |-> 0])
    <3>1. Cardinality(Milestones) \in Nat
      BY HubBounds, FS_CardinalityType
    <3>2. 0 \in 0 .. Cardinality(Milestones)
      BY <3>1
    <3>3. QED
      BY <3>2 DEF HandShape, NoHand
  <2>2. PICK t \in {[pc |-> "count"], NoHand, [pc |-> "progress", completed |-> 0]} : Takes(h, t)
    BY <1>6 DEF Overlook, DropHand
  <2>3. QED
    BY <1>1, <1>6, <2>1, <2>2 DEF Overlook, DropHand
<1>7. ASSUME NEW h \in Hands, NEW k \in DOMAIN Pipeline, BeginSubmission(h, k) PROVE SheetInv'
  <2>1. PICK t : t = [pc |-> IF k = 1 THEN "store" ELSE "gate", k |-> k]
    OBVIOUS
  <2>2. HandShape(t)
    BY <2>1 DEF HandShape
  <2>3. QED
    BY <1>1, <1>7, <2>1, <2>2 DEF BeginSubmission
<1>8. ASSUME NEW h \in Hands, CheckPrevious(h) PROVE SheetInv'
  <2>1. PICK t : t = [hand[h] EXCEPT !.pc = "store"]
    OBVIOUS
  <2>2. hand[h].pc = "gate" /\ hand[h] = [pc |-> "gate", k |-> hand[h].k]
    BY <1>0, <1>8 DEF CheckPrevious, HandKnows
  <2>3. HandShape(t) /\ HandShape(NoHand)
    BY <2>1, <2>2 DEF HandShape, NoHand
  <2>4. Takes(h, t) \/ Takes(h, NoHand)
    BY <1>8, <2>1 DEF CheckPrevious
  <2>5. QED
    BY <1>1, <1>8, <2>3, <2>4 DEF CheckPrevious
<1>9. ASSUME NEW h \in Hands, StoreUpload(h) PROVE SheetInv'
  <2>1. PICK t : t = [pc |-> "insert", kind |-> Pipeline[hand[h].k], file |-> stored']
    OBVIOUS
  <2>2. HandShape(t)
    BY <2>1 DEF HandShape
  <2>3. stored' \in Nat /\ stored <= stored'
    BY <1>0, <1>9 DEF StoreUpload
  <2>4. QED
    BY <1>0, <1>9, <2>1, <2>2, <2>3, SheetTakes DEF StoreUpload, Completed
<1>10. ASSUME NEW h \in Hands, InsertSubmission(h) PROVE SheetInv'
  <2>1. PICK kind, file : kind = hand[h].kind /\ file = hand[h].file
    OBVIOUS
  <2>2. kind \in Steps /\ file \in 0 .. stored
    BY <1>0, <1>10, <2>1 DEF InsertSubmission, HandKnows
  <2>3. NewPaper(kind, file) /\ Takes(h, NoHand)
    BY <1>10, <2>1 DEF InsertSubmission
  <2>4. \A g \in Hands : HandShape(hand[g])'
    <3>1. \A g \in Hands : hand'[g] = hand[g] \/ hand'[g] = NoHand
      BY <1>0, <2>3 DEF Takes
    <3>2. QED
      BY <1>0, <3>1 DEF HandShape, NoHand
  <2>5. QED
    BY <1>10, <2>2, <2>3, <2>4, SheetGrows DEF InsertSubmission
<1>11. ASSUME ReportProgress \/ RequestExtension PROVE SheetInv'
  <2>1. PICK kind \in {"progress", "extension"} : NewPaper(kind, 0)
    BY <1>11 DEF ReportProgress, RequestExtension
  <2>2. UNCHANGED <<milestone, dated, progress, stored, hand>>
    BY <1>11 DEF ReportProgress, RequestExtension
  <2>3. \A g \in Hands : HandShape(hand[g])'
    BY <1>0, <2>2 DEF HandShape
  <2>4. 0 \in 0 .. stored
    BY <1>0
  <2>5. QED
    BY <2>1, <2>2, <2>3, <2>4, SheetGrows
<1>12. ASSUME NEW i \in DOMAIN papers, NEW k \in DOMAIN Answers(papers[i].kind),
              Answer(i, Answers(papers[i].kind)[k])
       PROVE  SheetInv'
  <2>1. PICK says : says = Answers(papers[i].kind)
    OBVIOUS
  <2>a. PICK answer : answer = says[k]
    OBVIOUS
  <2>b. PICK first \in BOOLEAN : first = (answer # says[1])
    OBVIOUS
  <2>c. PICK p : p = [papers[i] EXCEPT !.status = answer, !.reviewed = first]
    OBVIOUS
  <2>2. /\ answer = says[k] /\ first = (answer # says[1])
        /\ p = [papers[i] EXCEPT !.status = answer, !.reviewed = first]
    BY <2>a, <2>b, <2>c
  <2>3. papers[i] \in Paper
    BY <1>0
  <2>4. /\ papers' = [papers EXCEPT ![i].status = answer, ![i].reviewed = first]
        /\ UNCHANGED <<milestone, dated, progress, stored, hand>>
    BY <1>12, <2>1, <2>2 DEF Answer
  <2>5. papers' = [papers EXCEPT ![i] = p]
    BY <1>0, <2>2, <2>3, <2>4 DEF Paper
  <2>6. /\ p.kind = papers[i].kind /\ p.file = papers[i].file
        /\ p.status = answer /\ p.reviewed = first
    BY <2>2, <2>3 DEF Paper
  <2>7. Answered(p)
    BY <2>1, <2>2, <2>6 DEF SheetInv, Answered
  <2>8. /\ DOMAIN papers' = DOMAIN papers
        /\ \A j \in DOMAIN papers : papers'[j] = IF j = i THEN p ELSE papers[j]
    BY <1>0, <2>5
  <2>9. Len(papers') = Len(papers)
    BY <1>0, <2>5
  <2>10. \A j \in DOMAIN papers' : Answered(papers'[j])
    BY <2>7, <2>8 DEF SheetInv
  <2>11. \A j \in DOMAIN papers' : Answered(papers[j])'
    BY <2>4, <2>10 DEF Answered
  <2>12. QED
    BY <2>4, <2>9, <2>11 DEF SheetInv, Completed, Percents, Percent, HandShape
<1>13. ASSUME UNCHANGED hvars PROVE SheetInv'
  BY <1>13 DEF hvars, SheetInv, Completed, Percents, Percent, HandShape, Answered
<1>14. QED
  BY <1>2, <1>3, <1>4, <1>5, <1>6, <1>7, <1>8, <1>9, <1>10, <1>11, <1>12, <1>13
  DEF HubNext, ReviewSubmission, RespondProgressReport, RespondExtension, AllStatuses

\* The milestones with a date are the completed ones, progress is a share that can be
\* counted, and a row is marked as reviewed exactly when it says more than at first
\* (UpdateMilestone, AdminReviewSubmission), whatever overlaps or fails.
THEOREM HubTypesHold == HubSpec => []HubTypeOK
<1>1. HubInit => SheetInv
  <2> SUFFICES ASSUME HubInit PROVE SheetInv
    OBVIOUS
  <2>1. \A h \in Hands : HandShape(hand[h])
    BY DEF HubInit, HandShape, NoHand
  <2>2. QED
    BY <2>1, HubBounds DEF HubInit, SheetInv, AllStatuses, Completed
<1>2. HubInv /\ SheetInv /\ [HubNext]_hvars => SheetInv'
  BY SheetNext
<1>3. ASSUME HubInv, SheetInv PROVE HubTypeOK
  <2>1. ASSUME NEW i \in DOMAIN papers
        PROVE  /\ papers[i].status \in
                    {Answers(papers[i].kind)[k] : k \in DOMAIN Answers(papers[i].kind)}
               /\ papers[i].reviewed = (papers[i].status # Answers(papers[i].kind)[1])
               /\ papers[i].file \in 0 .. stored
    BY <1>3 DEF SheetInv, Answered
  <2>2. QED
    BY <1>3, <2>1 DEF HubInv, Rows, SheetInv, Completed, Percents, AllStatuses, HubTypeOK
<1>4. QED
  BY <1>1, <1>2, <1>3, HubInvariant, PTL DEF HubSpec

\* Enrolments, invitations and accounts keep their shape, and a request is never about
\* a row that is not there (ClaimInvitation, AdminCreateInvitation).
THEOREM OnboardingTypesHold == OnboardingSpec => []OnboardingTypeOK
<1>1. ASSUME OnboardingInv PROVE OnboardingTypeOK
  <2>1. OnboardingRows /\ \A f \in Forms : FormShape(form[f])
    BY <1>1 DEF OnboardingInv
  <2>2. \A f \in Forms : form[f].pc \in {"expire", "count", "create"} =>
          form[f].invite \in Invitation /\ form[f].e \in DOMAIN enrolments
    BY <2>1 DEF FormShape
  <2>3. issued <= MaxInvitations
    BY <2>1, OnboardingBounds DEF OnboardingRows
  <2>4. QED
    BY <2>1, <2>2, <2>3 DEF OnboardingRows, Enrolment, User, OnboardingTypeOK
<1>2. QED
  BY <1>1, OnboardingInvariant, PTL

-----------------------------------------------------------------------------
(* The shape of an event *)

EventRows == {NoEvent} \cup [published : BOOLEAN, capacity : Capacities, live : BOOLEAN]

\* What a request is about to save, or to send.
HostShape(t) ==
  /\ t.pc = "save" => t.event \in Plans
  /\ t.pc = "queue" => t.count \in 0 .. MaxGuests

GuestInv ==
  /\ event \in EventRows /\ cap \in Caps \cup {0}
  /\ Len(guests) <= MaxGuests /\ Len(casts) <= MaxCasts
  /\ \A b \in DOMAIN casts : casts[b].count <= MaxGuests
  /\ \A h \in Hosts : HostShape(host[h])

LEMMA ConfirmedFit ==
  ASSUME CastRows, Len(guests) <= MaxGuests
  PROVE  Cardinality(Confirmed) \in 0 .. MaxGuests
<1>1. /\ DOMAIN guests = 1 .. Len(guests) /\ Len(guests) \in Nat
      /\ Confirmed \subseteq 1 .. Len(guests)
  BY DEF CastRows, Confirmed
<1>2. ASSUME NEW n \in Nat PROVE IsFiniteSet(1 .. n) /\ Cardinality(1 .. n) = n
  BY FS_Interval
<1>3. /\ IsFiniteSet(Confirmed) /\ Cardinality(Confirmed) <= Len(guests)
      /\ Cardinality(Confirmed) \in Nat
  <2>1. IsFiniteSet(1 .. Len(guests)) /\ Cardinality(1 .. Len(guests)) = Len(guests)
    BY <1>1, <1>2
  <2>2. IsFiniteSet(Confirmed) /\ Cardinality(Confirmed) <= Cardinality(1 .. Len(guests))
    BY <1>1, <2>1, FS_Subset
  <2>3. QED
    BY <2>1, <2>2, FS_CardinalityType
<1>4. QED
  BY <1>1, <1>3, EventBounds

\* One host goes on, and no row gets too large.
LEMMA GuestTakes ==
  ASSUME CastInv, GuestInv, NEW h \in Hosts, NEW t, Hosting(h, t), HostShape(t),
         event' \in EventRows, UNCHANGED cap, Len(guests') <= MaxGuests,
         Len(casts') <= MaxCasts,
         \A b \in DOMAIN casts' : casts'[b].count <= MaxGuests
  PROVE  GuestInv'
<1>1. \A g \in Hosts : host'[g] = IF g = h THEN t ELSE host[g]
  BY DEF CastInv, Hosting
<1>2. \A g \in Hosts : HostShape(host[g])'
  BY <1>1 DEF GuestInv, HostShape
<1>3. QED
  BY <1>2 DEF GuestInv, EventRows

LEMMA GuestNext == CastInv /\ GuestInv /\ [EventsNext]_evars => GuestInv'
<1> SUFFICES ASSUME CastInv, GuestInv, [EventsNext]_evars PROVE GuestInv'
  OBVIOUS
<1>0. /\ DOMAIN host = Hosts /\ CastRows /\ casts \in Seq(Cast)
      /\ event \in EventRows /\ Plans \subseteq EventRows
      /\ \A h \in Hosts : HostKnows(host[h]) /\ HostShape(host[h])
      /\ Len(guests) <= MaxGuests /\ Len(casts) <= MaxCasts
      /\ \A b \in DOMAIN casts : casts[b].count <= MaxGuests
  BY DEF CastInv, CastRows, GuestInv, EventRows, Plans
<1>1. ASSUME NEW h \in Hosts, NEW t, Hosting(h, t), HostShape(t),
             event' \in EventRows, UNCHANGED <<guests, casts, cap>>
      PROVE  GuestInv'
  BY <1>0, <1>1, GuestTakes
<1>2. ASSUME UNCHANGED <<guests, casts, cap, host>>, event' \in EventRows PROVE GuestInv'
  BY <1>0, <1>2 DEF GuestInv, HostShape
<1>3. ASSUME NEW plan \in Plans, CreateEvent(plan) PROVE GuestInv'
  BY <1>0, <1>2, <1>3 DEF CreateEvent
<1>4. ASSUME DeleteEvent PROVE GuestInv'
  <2>1. event' \in EventRows
    BY <1>0, <1>4 DEF DeleteEvent, EventRows, NoEvent
  <2>2. QED
    BY <1>2, <1>4, <2>1 DEF DeleteEvent
<1>5. ASSUME NEW plan \in Plans, NEW h \in Hosts, BeginUpdateEvent(h, plan) PROVE GuestInv'
  <2>1. HostShape([pc |-> "save", event |-> plan])
    BY DEF HostShape
  <2>2. QED
    BY <1>0, <1>1, <1>5, <2>1 DEF BeginUpdateEvent, Begins
<1>6. HostShape(NoHost)
  BY DEF HostShape, NoHost
<1>7. ASSUME NEW h \in Hosts, SaveEvent(h) PROVE GuestInv'
  <2>1. event' \in EventRows
    BY <1>0, <1>7 DEF SaveEvent, HostShape
  <2>2. QED
    BY <1>1, <1>6, <1>7, <2>1 DEF SaveEvent
<1>8. ASSUME NEW h \in Hosts, BeginReserve(h) PROVE GuestInv'
  <2>1. HostShape([pc |-> "reserve"])
    BY DEF HostShape
  <2>2. QED
    BY <1>0, <1>1, <1>8, <2>1 DEF BeginReserve, Begins
<1>9. ASSUME NEW h \in Hosts, InsertReservation(h) PROVE GuestInv'
  <2>1. Len(guests') = Len(guests) + 1 /\ Len(guests) \in Nat
    BY <1>0, <1>9 DEF InsertReservation, CastRows
  <2>2. Len(guests') <= MaxGuests
    BY <1>9, <2>1, EventBounds DEF InsertReservation
  <2>3. QED
    BY <1>0, <1>6, <1>9, <2>2, GuestTakes DEF InsertReservation
<1>10. ASSUME NEW g \in DOMAIN guests, ApproveReservation(g) PROVE GuestInv'
  <2>1. Len(guests') = Len(guests)
    BY <1>0, <1>10 DEF ApproveReservation, CastRows
  <2>2. QED
    BY <1>0, <1>10, <2>1 DEF ApproveReservation, GuestInv, HostShape, EventRows
<1>11. ASSUME NEW h \in Hosts, BeginBroadcast(h) PROVE GuestInv'
  <2>1. PICK n \in Found : Hosting(h, [pc |-> "queue", count |-> n])
    BY <1>11 DEF BeginBroadcast, Begins
  <2>2. n \in 0 .. MaxGuests
    BY <1>0, ConfirmedFit, EventBounds DEF Found
  <2>3. HostShape([pc |-> "queue", count |-> n])
    BY <2>2 DEF HostShape
  <2>4. QED
    BY <1>0, <1>1, <1>11, <2>1, <2>3 DEF BeginBroadcast
<1>12. ASSUME NEW h \in Hosts, QueueBroadcast(h) PROVE GuestInv'
  <2>1. PICK n : n = host[h].count
    OBVIOUS
  <2>2. PICK t \in {NoHost, [pc |-> "send", cast |-> Len(casts'), start |-> 0]} : Hosting(h, t)
    BY <1>12 DEF QueueBroadcast
  <2>3. HostShape(t)
    BY <1>6, <2>2 DEF HostShape
  <2>4. n \in 0 .. MaxGuests
    BY <1>0, <1>12, <2>1 DEF QueueBroadcast, HostShape
  <2>5. PICK c : c = [count |-> n, status |-> "queued"]
    OBVIOUS
  <2>6. c \in Cast /\ c.count <= MaxGuests
    BY <2>4, <2>5, EventBounds DEF Cast
  <2>7. casts' = Append(casts, c) /\ Len(casts) < MaxCasts
    BY <1>12, <2>1, <2>5 DEF QueueBroadcast
  <2>8. /\ Len(casts') <= MaxCasts
        /\ \A b \in DOMAIN casts' : (b \in DOMAIN casts /\ casts'[b] = casts[b]) \/ casts'[b] = c
    BY <1>0, <2>6, <2>7, EventBounds
  <2>9. \A b \in DOMAIN casts' : casts'[b].count <= MaxGuests
    BY <1>0, <2>6, <2>8
  <2>10. QED
    BY <1>0, <1>12, <2>2, <2>3, <2>8, <2>9, GuestTakes DEF QueueBroadcast
<1>13. ASSUME NEW h \in Hosts, SendBatch(h) \/ BatchFails(h) PROVE GuestInv'
  <2>1. PICK t : t = [host[h] EXCEPT !.start = Advance(@)]
    OBVIOUS
  <2>2. host[h].pc = "send" /\ HalfWay(host[h])
    BY <1>0, <1>13 DEF SendBatch, BatchFails, HostKnows
  <2>3. t.pc = "send"
    BY <2>1, <2>2 DEF HalfWay
  <2>4. HostShape(t)
    BY <2>3 DEF HostShape
  <2>5. Hosting(h, t) \/ Hosting(h, NoHost)
    BY <1>13, <2>1 DEF SendBatch, BatchFails
  <2>6. UNCHANGED <<event, guests, casts, cap>>
    BY <1>13 DEF SendBatch, BatchFails
  <2>7. QED
    BY <1>0, <1>1, <1>6, <2>4, <2>5, <2>6
<1>14. ASSUME NEW h \in Hosts, MarkSent(h) PROVE GuestInv'
  <2>1. PICK b : b = host[h].cast
    OBVIOUS
  <2>2. b \in DOMAIN casts /\ casts' = [casts EXCEPT ![b].status = "sent"]
    BY <1>0, <1>14, <2>1 DEF MarkSent, HostKnows, HalfWay
  <2>3. Len(casts') = Len(casts) /\ DOMAIN casts' = DOMAIN casts
    BY <1>0, <2>2
  <2>4. \A c \in DOMAIN casts : casts'[c].count = casts[c].count
    BY <1>0, <2>2 DEF Cast
  <2>5. QED
    BY <1>0, <1>6, <1>14, <2>3, <2>4, GuestTakes DEF MarkSent
<1>15. ASSUME NEW h \in Hosts, DropHost(h) PROVE GuestInv'
  BY <1>0, <1>1, <1>6, <1>15 DEF DropHost
<1>16. ASSUME UNCHANGED evars PROVE GuestInv'
  BY <1>0, <1>2, <1>16 DEF evars
<1>17. QED
  BY <1>3, <1>4, <1>5, <1>7, <1>8, <1>9, <1>10, <1>11, <1>12, <1>13, <1>14, <1>15, <1>16
  DEF EventsNext

\* The event, its reservations and broadcasts keep their shape; no broadcast is to
\* more recipients than there were reservations (AdminBroadcast).
THEOREM EventsTypesHold == EventsSpec => []EventsTypeOK
<1>1. EventsInit => GuestInv
  <2> SUFFICES ASSUME EventsInit PROVE GuestInv
    OBVIOUS
  <2>1. \A h \in Hosts : HostShape(host[h])
    BY DEF EventsInit, HostShape, NoHost
  <2>2. QED
    BY <2>1, EventBounds DEF EventsInit, GuestInv, EventRows
<1>2. CastInv /\ GuestInv /\ [EventsNext]_evars => GuestInv'
  BY GuestNext
<1>3. ASSUME CastInv, GuestInv PROVE EventsTypeOK
  <2>1. event = NoEvent \/ \E e \in Plans, l \in BOOLEAN : event = [e EXCEPT !.live = l]
    <3>1. ASSUME event # NoEvent
          PROVE  \E e \in Plans, l \in BOOLEAN : event = [e EXCEPT !.live = l]
      <4>1. event \in [published : BOOLEAN, capacity : Capacities, live : BOOLEAN]
        BY <1>3, <3>1 DEF GuestInv, EventRows
      <4>2. [event EXCEPT !.live = TRUE] \in Plans /\ event.live \in BOOLEAN
        BY <4>1 DEF Plans
      <4>3. event = [[event EXCEPT !.live = TRUE] EXCEPT !.live = event.live]
        BY <4>1
      <4>4. QED
        BY <4>2, <4>3
    <3>2. QED
      BY <3>1
  <2>2. casts \in Seq([count : 0 .. MaxGuests, status : {"queued", "sent"}])
    <3> DEFINE Small == [count : 0 .. MaxGuests, status : {"queued", "sent"}]
    <3>1. casts \in Seq(Cast) /\ \A b \in DOMAIN casts : casts[b].count <= MaxGuests
      BY <1>3 DEF CastInv, CastRows, GuestInv
    <3>2. \A b \in DOMAIN casts : casts[b] \in Cast
      BY <3>1
    <3>3. \A b \in DOMAIN casts : casts[b] \in Small
      BY <3>1, <3>2, EventBounds DEF Cast
    <3> HIDE DEF Small
    <3>4. casts \in Seq(Small)
      BY <3>1, <3>3
    <3>5. QED
      BY <3>4 DEF Small
  <2>3. QED
    BY <1>3, <2>1, <2>2 DEF CastInv, CastRows, GuestInv, EventsTypeOK
<1>4. QED
  BY <1>1, <1>2, <1>3, EventsInvariant, PTL DEF EventsSpec

-----------------------------------------------------------------------------
(* The components side by side *)

\* A step of the whole is a step of each component, or leaves it alone.
LEMMA PartsStep ==
  ASSUME [Next]_<<lvars, cvars, ovars, pvars, dvars, hvars, tvars, evars, part>>
  PROVE  /\ [LandedNext]_lvars /\ [ContractsNext]_cvars /\ [OnboardingNext]_ovars
         /\ [PayablesNext]_pvars /\ [DealsNext]_dvars /\ [HubNext]_hvars
         /\ [TillsNext]_tvars /\ [EventsNext]_evars
BY DEF Next, Rest

\* Whatever is explored of the whole is a behaviour of each component, so that each
\* component's theorems hold of it.
LEMMA PartsRun ==
  Spec => /\ LandedSpec /\ ContractsSpec /\ OnboardingSpec /\ PayablesSpec
          /\ DealsSpec /\ HubSpec /\ TillsSpec /\ EventsSpec
<1>1. Spec => LandedSpec
  <2>1. Init => LandedInit
    BY DEF Init
  <2>2. [Next]_<<lvars, cvars, ovars, pvars, dvars, hvars, tvars, evars, part>> => [LandedNext]_lvars
    BY PartsStep
  <2>3. QED
    BY <2>1, <2>2, PTL DEF Spec, LandedSpec
<1>2. Spec => ContractsSpec
  <2>1. Init => ContractsInit
    BY DEF Init
  <2>2. [Next]_<<lvars, cvars, ovars, pvars, dvars, hvars, tvars, evars, part>> => [ContractsNext]_cvars
    BY PartsStep
  <2>3. QED
    BY <2>1, <2>2, PTL DEF Spec, ContractsSpec
<1>3. Spec => OnboardingSpec
  <2>1. Init => OnboardingInit
    BY DEF Init
  <2>2. [Next]_<<lvars, cvars, ovars, pvars, dvars, hvars, tvars, evars, part>> => [OnboardingNext]_ovars
    BY PartsStep
  <2>3. QED
    BY <2>1, <2>2, PTL DEF Spec, OnboardingSpec
<1>4. Spec => PayablesSpec
  <2>1. Init => PayablesInit
    BY DEF Init
  <2>2. [Next]_<<lvars, cvars, ovars, pvars, dvars, hvars, tvars, evars, part>> => [PayablesNext]_pvars
    BY PartsStep
  <2>3. QED
    BY <2>1, <2>2, PTL DEF Spec, PayablesSpec
<1>5. Spec => DealsSpec
  <2>1. Init => DealsInit
    BY DEF Init
  <2>2. [Next]_<<lvars, cvars, ovars, pvars, dvars, hvars, tvars, evars, part>> => [DealsNext]_dvars
    BY PartsStep
  <2>3. QED
    BY <2>1, <2>2, PTL DEF Spec, DealsSpec
<1>6. Spec => HubSpec
  <2>1. Init => HubInit
    BY DEF Init
  <2>2. [Next]_<<lvars, cvars, ovars, pvars, dvars, hvars, tvars, evars, part>> => [HubNext]_hvars
    BY PartsStep
  <2>3. QED
    BY <2>1, <2>2, PTL DEF Spec, HubSpec
<1>7. Spec => TillsSpec
  <2>1. Init => TillsInit
    BY DEF Init
  <2>2. [Next]_<<lvars, cvars, ovars, pvars, dvars, hvars, tvars, evars, part>> => [TillsNext]_tvars
    BY PartsStep
  <2>3. QED
    BY <2>1, <2>2, PTL DEF Spec, TillsSpec
<1>8. Spec => EventsSpec
  <2>1. Init => EventsInit
    BY DEF Init
  <2>2. [Next]_<<lvars, cvars, ovars, pvars, dvars, hvars, tvars, evars, part>> => [EventsNext]_evars
    BY PartsStep
  <2>3. QED
    BY <2>1, <2>2, PTL DEF Spec, EventsSpec
<1>9. QED
  BY <1>1, <1>2, <1>3, <1>4, <1>5, <1>6, <1>7, <1>8

\* Every row of the smaller components, and every local of a request, keeps its
\* shape (the handlers of landed_cost.go, documents.go, signatures.go, payables.go,
\* counter.go and handlers.go), for any bounds, slots and values.
THEOREM BackOfficeTypesHold == Spec => []BackOfficeTypeOK
<1>1. BackOfficeTypeOK <=>
        /\ LandedTypeOK /\ ContractsTypeOK /\ OnboardingTypeOK /\ PayablesTypeOK
        /\ DealsTypeOK /\ HubTypeOK /\ TillsTypeOK /\ EventsTypeOK
  BY DEF BackOfficeTypeOK
<1>2. QED
  BY <1>1, PartsRun, LandedTypesHold, ContractsTypesHold, OnboardingTypesHold,
     PayablesTypesHold, DealsTypesHold, HubTypesHold, TillsTypesHold, EventsTypesHold, PTL
==============================================================================
