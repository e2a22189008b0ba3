--------------------------------- MODULE Hub ---------------------------------
(***************************************************************************)
(* A student's capstone: its milestones and the progress they make up, the *)
(* files handed in step by step, progress reports and extension requests   *)
(* (src/internal/handlers/handlers.go).                                    *)
(*                                                                         *)
(* One student's rows: every statement is keyed on the profile, or on a row*)
(* that was found to be the profile's.  Texts, feedback, comments and what *)
(* is asked of an uploaded file are left out.                              *)
(***************************************************************************)
EXTENDS Naturals, Sequences, FiniteSets

CONSTANTS
  Milestones,         \* of the profile
  Oriented,           \* those a new profile has completed
  OpenStatuses,       \* statuses other than completed
  Mentors, Students,  \* slots for their requests running at once
  MaxPapers, MaxFiles \* bounds: rows handed in, files stored

Hands == Mentors \cup Students

ASSUME HubBounds ==
  /\ IsFiniteSet(Milestones) /\ Milestones # {} /\ Oriented \subseteq Milestones
  /\ OpenStatuses # {} /\ "completed" \notin OpenStatuses
  /\ Mentors \cap Students = {} /\ MaxPapers \in Nat /\ MaxFiles \in Nat

VARIABLES
  milestone,  \* milestone[m]: its status
  dated,      \* those with completed_at
  progress,   \* student_profiles.progress_pct
  papers,     \* submissions, progress_reports and extension_requests rows, in
              \* creation order; reviewed stands for reviewed_at and decided_at
  stored,     \* how many files the store has; their numbers are their keys
  hand,       \* hand[h]: locals of a request
  signedOff,  \* history: milestones a mentor completed, and none reopened since
  admitted,   \* history: submissions that were accepted at some time
  smooth      \* history: no two requests ran at once so far, and none failed

hvars == <<milestone, dated, progress, papers, stored, hand, signedOff, admitted, smooth>>

Pipeline == <<"proposal", "report", "final">>
Steps == {Pipeline[k] : k \in DOMAIN Pipeline}

\* What a row can say; it is created with the first.
Answers(kind) ==
  IF kind = "progress" THEN <<"submitted", "reviewed">>
  ELSE IF kind = "extension" THEN <<"pending", "approved", "denied">>
  ELSE <<"submitted", "accepted", "revise">>

NoHand == [pc |-> "none"]
Born == 15  \* progress_pct of a new profile
Percent(n) == (n * 100) \div Cardinality(Milestones)

HubTypeOK ==
  /\ milestone \in [Milestones -> OpenStatuses \cup {"completed"}]
  /\ dated = {m \in Milestones : milestone[m] = "completed"}
  /\ progress \in {Born} \cup {Percent(n) : n \in 0 .. Cardinality(Milestones)}
  /\ Len(papers) <= MaxPapers
  /\ \A i \in DOMAIN papers :
       LET p == papers[i] says == Answers(p.kind) IN
       /\ p.status \in {says[k] : k \in DOMAIN says}
       /\ p.reviewed = (p.status # says[1])
       /\ p.file \in 0 .. stored
  /\ admitted \subseteq DOMAIN papers

\* As ClaimInvitation leaves it.
HubInit ==
  /\ milestone \in [Milestones -> OpenStatuses \cup {"completed"}]
  /\ dated = Oriented /\ Oriented = {m \in Milestones : milestone[m] = "completed"}
  /\ progress = Born /\ papers = <<>> /\ stored = 0
  /\ hand = [h \in Hands |-> NoHand]
  /\ signedOff = Oriented /\ admitted = {} /\ smooth = TRUE

-----------------------------------------------------------------------------
Takes(h, t) == hand' = [hand EXCEPT ![h] = t]
HandsFree == \A h \in Hands : hand[h] = NoHand

\* A request that starts while another runs ends the smooth part of the run.
Starts(h, t) ==
  /\ hand[h] = NoHand
  /\ Takes(h, t)
  /\ smooth' = (smooth /\ HandsFree)

(* UpdateMilestone and AdminUpdateMilestone *)

\* Mutant of Locked: no look at the milestone.
LockedNever(m) == FALSE

Locked(m) == milestone[m] = "completed"

BeginMilestone(h, m, status) ==
  /\ h \in Students => status # "completed" /\ ~Locked(m)
  /\ Starts(h, [pc |-> "write", m |-> m, status |-> status])
  /\ UNCHANGED <<milestone, dated, progress, papers, stored, signedOff, admitted>>

\* Nothing sent but feedback, or nothing at all: progress is counted anew.
BeginRecount(h, m) ==
  /\ h \in Students => ~Locked(m)
  /\ Starts(h, [pc |-> "count"])
  /\ UNCHANGED <<milestone, dated, progress, papers, stored, signedOff, admitted>>

With(set, x, in) == IF in THEN set \cup {x} ELSE set \ {x}

WriteMilestone(h) ==
  LET t == hand[h] done == t.status = "completed" IN
  /\ t.pc = "write"
  /\ milestone' = [milestone EXCEPT ![t.m] = t.status]
  /\ dated' = With(dated, t.m, done)
  /\ signedOff' = IF h \in Mentors THEN With(signedOff, t.m, done) ELSE signedOff
  /\ Takes(h, [pc |-> "count"])
  /\ UNCHANGED <<progress, papers, stored, admitted, smooth>>

Completed == {m \in Milestones : milestone[m] = "completed"}

CountCompleted(h) ==
  /\ hand[h].pc = "count"
  /\ Takes(h, [pc |-> "progress", completed |-> Cardinality(Completed)])
  /\ UNCHANGED <<milestone, dated, progress, papers, stored, signedOff, admitted, smooth>>

SetProgress(h) ==
  /\ hand[h].pc = "progress"
  /\ progress' = Percent(hand[h].completed)
  /\ Takes(h, NoHand)
  /\ UNCHANGED <<milestone, dated, papers, stored, signedOff, admitted, smooth>>

\* The error of a statement of these two is not looked at: the request goes on,
\* with nothing written or with a count of none.
Overlook(h) ==
  /\ hand[h].pc \in {"write", "count", "progress"}
  /\ Takes(h, CASE hand[h].pc = "write" -> [pc |-> "count"]
                [] hand[h].pc = "count" -> [pc |-> "progress", completed |-> 0]
                [] hand[h].pc = "progress" -> NoHand)
  /\ smooth' = FALSE
  /\ UNCHANGED <<milestone, dated, progress, papers, stored, signedOff, admitted>>

-----------------------------------------------------------------------------
(* CreateSubmission, gated by checkSubmissionGate *)

\* Mutant of Accepted: it is enough that something was handed in.
AcceptedOrNot(kind) == \E i \in DOMAIN papers : papers[i].kind = kind

Accepted(kind) ==
  \E i \in DOMAIN papers : papers[i].kind = kind /\ papers[i].status = "accepted"

\* Not for a step that is accepted already, unless that count fails and is zero.
BeginSubmission(h, k) ==
  /\ h \in Students /\ hand[h] = NoHand
  /\ \/ ~Accepted(Pipeline[k]) /\ smooth' = (smooth /\ HandsFree)
     \/ smooth' = FALSE
  /\ Takes(h, [pc |-> IF k = 1 THEN "store" ELSE "gate", k |-> k])
  /\ UNCHANGED <<milestone, dated, progress, papers, stored, signedOff, admitted>>

CheckPrevious(h) ==
  /\ hand[h].pc = "gate"
  /\ Takes(h, IF Accepted(Pipeline[hand[h].k - 1]) THEN [hand[h] EXCEPT !.pc = "store"]
              ELSE NoHand)
  /\ UNCHANGED <<milestone, dated, progress, papers, stored, signedOff, admitted, smooth>>

StoreUpload(h) ==
  /\ hand[h].pc = "store" /\ stored < MaxFiles
  /\ stored' = stored + 1
  /\ Takes(h, [pc |-> "insert", kind |-> Pipeline[hand[h].k], file |-> stored'])
  /\ UNCHANGED <<milestone, dated, progress, papers, signedOff, admitted, smooth>>

NewPaper(kind, file) ==
  /\ Len(papers) < MaxPapers
  /\ papers' = Append(papers, [kind |-> kind, status |-> Answers(kind)[1],
                               reviewed |-> FALSE, file |-> file])

InsertSubmission(h) ==
  /\ hand[h].pc = "insert"
  /\ NewPaper(hand[h].kind, hand[h].file)
  /\ Takes(h, NoHand)
  /\ UNCHANGED <<milestone, dated, progress, stored, signedOff, admitted, smooth>>

\* CreateProgressReport
ReportProgress ==
  /\ NewPaper("progress", 0)
  /\ UNCHANGED <<milestone, dated, progress, stored, hand, signedOff, admitted, smooth>>

\* CreateExtensionRequest
RequestExtension ==
  /\ NewPaper("extension", 0)
  /\ UNCHANGED <<milestone, dated, progress, stored, hand, signedOff, admitted, smooth>>

\* One UPDATE, whatever the row says now: an answer can be changed and taken back.
Answer(i, answer) ==
  /\ papers' = [papers EXCEPT ![i].status = answer,
                              ![i].reviewed = (answer # Answers(papers[i].kind)[1])]
  /\ admitted' = IF answer = "accepted" THEN admitted \cup {i} ELSE admitted
  /\ UNCHANGED <<milestone, dated, progress, stored, hand, signedOff, smooth>>

\* AdminReviewSubmission
ReviewSubmission(i, answer) == papers[i].kind \in Steps /\ Answer(i, answer)

\* AdminRespondProgressReport
RespondProgressReport(i, answer) == papers[i].kind = "progress" /\ Answer(i, answer)

\* AdminRespondExtension
RespondExtension(i, answer) == papers[i].kind = "extension" /\ Answer(i, answer)

\* The replica dies, a statement of an upload fails, or storing its file does.
DropHand(h) ==
  /\ hand[h] # NoHand
  /\ Takes(h, NoHand) /\ smooth' = FALSE
  /\ UNCHANGED <<milestone, dated, progress, papers, stored, signedOff, admitted>>

HubNext ==
  \/ \E h \in Hands :
       \/ \E m \in Milestones :
            BeginRecount(h, m)
            \/ \E s \in OpenStatuses \cup {"completed"} : BeginMilestone(h, m, s)
       \/ WriteMilestone(h) \/ CountCompleted(h) \/ SetProgress(h) \/ Overlook(h)
       \/ \E k \in DOMAIN Pipeline : BeginSubmission(h, k)
       \/ CheckPrevious(h) \/ StoreUpload(h) \/ InsertSubmission(h)
       \/ DropHand(h)
  \/ ReportProgress \/ RequestExtension
  \/ \E i \in DOMAIN papers : \E k \in DOMAIN Answers(papers[i].kind) :
       LET answer == Answers(papers[i].kind)[k] IN
       \/ ReviewSubmission(i, answer)
       \/ RespondProgressReport(i, answer)
       \/ RespondExtension(i, answer)

HubSpec == HubInit /\ [][HubNext]_hvars

-----------------------------------------------------------------------------
\* "Each step unlocks only once the previous step has a mentor-accepted
\* submission" (submissionStageOrder): however uploads, reviews and failures
\* overlap, and though acceptances are taken back, whatever is handed in for a
\* step has its file, and an earlier row of the step before that was accepted.
StepsInOrder ==
  \A i \in DOMAIN papers : papers[i].kind \in Steps =>
    /\ papers[i].file \in 1 .. stored
    /\ \A k \in 2 .. Len(Pipeline) : papers[i].kind = Pipeline[k] =>
         \E j \in admitted : j < i /\ papers[j].kind = Pipeline[k - 1]

\* "Completion is a sign-off, not a self-report", and what is completed is
\* "locked for the student" (UpdateMilestone): while requests take turns and none
\* fails, progress is the share of milestones that mentors have signed off, as
\* soon as a sign-off is given or taken back.
ProgressIsSignedOffInTurn ==
  smooth /\ HandsFree =>
    \/ progress = Percent(Cardinality(signedOff))
    \/ progress = Born /\ signedOff = Oriented

\* "A mentor-completed milestone is locked for the student" (UpdateMilestone): one
\* that a mentor signed off stays completed, though requests overlap, until a
\* mentor says otherwise.
SignedOffStays == \A m \in signedOff : milestone[m] = "completed"
=============================================================================
