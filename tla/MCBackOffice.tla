---------------------------- MODULE MCBackOffice ----------------------------
(* Instances of the smaller components for TLC.  They share no state, so one  *)
(* run explores one after the other: which one is chosen at the start.        *)
EXTENDS LandedCost, Contracts, Onboarding, Payables, Deals, Hub, Tills, Events, TLC

CONSTANTS lease, memo, survey, pitch

VARIABLE part

\* Every weight vector of one to three lines with weights up to two, all zero
\* and all equal among them.
Scale == 0 .. 2
SmallBases == [1 .. 1 -> Scale] \cup [1 .. 2 -> Scale] \cup [1 .. 3 -> Scale]

\* Of the parts that are not chosen only one initial state is kept.
Init ==
  /\ LandedInit /\ ContractsInit /\ OnboardingInit /\ PayablesInit /\ DealsInit
  /\ HubInit /\ TillsInit /\ EventsInit
  /\ part \in {"landed", "contracts", "onboarding", "payables", "deals",
               "hub", "tills", "events"}
  /\ part # "landed" => basis = <<0>>
  /\ \/ contract = NoContract
     \/ /\ part = "contracts" /\ contract.status = "sent"
        /\ bytes \in {<<Missing>>, <<File(lease, 0)>>}
  /\ milestone[pitch] = "pending"
  /\ part # "events" => cap = 0

Rest ==
  /\ part # "landed" => UNCHANGED lvars
  /\ part # "contracts" => UNCHANGED cvars
  /\ part # "onboarding" => UNCHANGED ovars
  /\ part # "payables" => UNCHANGED pvars
  /\ part # "deals" => UNCHANGED dvars
  /\ part # "hub" => UNCHANGED hvars
  /\ part # "tills" => UNCHANGED tvars
  /\ part # "events" => UNCHANGED evars
  /\ UNCHANGED part

Next ==
  \/ part = "landed" /\ LandedNext /\ Rest
  \/ part = "contracts" /\ ContractsNext /\ Rest
  \/ part = "onboarding" /\ OnboardingNext /\ Rest
  \/ part = "payables" /\ PayablesNext /\ Rest
  \/ part = "deals" /\ DealsNext /\ Rest
  \/ part = "hub" /\ HubNext /\ Rest
  \/ part = "tills" /\ TillsNext /\ Rest
  \/ part = "events" /\ EventsNext /\ Rest

Spec == Init /\ [][Next]_<<lvars, cvars, ovars, pvars, dvars, hvars, tvars, evars, part>>

BackOfficeTypeOK ==
  /\ LandedTypeOK /\ ContractsTypeOK /\ OnboardingTypeOK /\ PayablesTypeOK
  /\ DealsTypeOK /\ HubTypeOK /\ TillsTypeOK /\ EventsTypeOK

\* A capstone while its milestones are worked at and nothing is handed in, and
\* one whose milestones rest while papers are handed in, one of them, while nobody
\* uploads, a report or an extension request.
Busy(pcs) == \A h \in Hands : hand[h].pc \in pcs \cup {"none"}

MilestonesOnly == papers = <<>> /\ stored = 0 /\ Busy({"write", "count", "progress"})

PapersOnly ==
  /\ progress = Born /\ signedOff = Oriented /\ dated = Oriented
  /\ milestone[pitch] = "pending"
  /\ Busy({"gate", "store", "insert"})
  /\ \A i \in DOMAIN papers : papers[i].kind \in Steps \/ (Len(papers) = 1 /\ Busy({}))

\* Failing contract handlers, and what becomes of a saved image, while they take
\* turns; edits of deals, and requests at the tills, up to where two overlap.  A
\* draft does what a contract that was sent does, but sign, and an enrolment that
\* is accepted without an account does what a submitted one does.
Explored ==
  /\ oneAtATime /\ (turns \/ (breaks = 0 /\ image = "never"))
  /\ contract = NoContract \/ contract.status # "draft"
  /\ \A e \in DOMAIN enrolments :
       enrolments[e].status = "accepted" => enrolments[e].student # 0
  /\ queued
  /\ MilestonesOnly \/ PapersOnly

\* The slots of the parts' requests are the same two: only one part moves.  So
\* are the operators, who are told apart by nothing.
Symmetry == Permutations(Clerks) \cup Permutations(Operators)
=============================================================================
