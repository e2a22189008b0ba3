----------------------------- MODULE Onboarding -----------------------------
(***************************************************************************)
(* From an enrolment to a student's account: applying, being invited,      *)
(* claiming the invitation, and the deletion of the account that makes it  *)
(* possible again (src/internal/handlers/handlers.go and the invitations   *)
(* of src/internal/services/auth.go).                                      *)
(***************************************************************************)
EXTENDS Naturals, Sequences

CONSTANTS
  Emails,          \* addresses, in lower case
  Stages,          \* statuses an enrolment may be given
  Forms,           \* slots for requests running at once
  MaxEnrolments,   \* bound: enrolments
  MaxInvitations,  \* bound: invitations issued
  MaxUsers         \* bound: accounts ever created

ASSUME OnboardingBounds ==
  /\ {"submitted", "accepted"} \subseteq Stages
  /\ MaxEnrolments \in Nat /\ MaxInvitations \in Nat /\ MaxUsers \in Nat

VARIABLES
  enrolments,   \* enrollments rows, in creation order: student is an account or 0
  invitations,  \* invitations[e]: the row the unique index leaves room for, if any
  issued,       \* how many invitations were issued; a row's number is its token
  late,         \* those whose time is over
  users,        \* users rows, in creation order, the deleted ones marked gone;
                \* of is the enrolment in the student's profile, 0 for staff
  form          \* form[f]: locals of a request

ovars == <<enrolments, invitations, issued, late, users, form>>

NoForm == [pc |-> "none"]
NoInvitation == [status |-> "none"]

Invitation == [token : 1 .. MaxInvitations, status : {"pending", "claimed", "expired"}]

OnboardingTypeOK ==
  /\ enrolments \in Seq([email : Emails, status : Stages, student : 0 .. MaxUsers])
  /\ invitations \in [1 .. MaxEnrolments -> Invitation \cup {NoInvitation}]
  /\ \A e \in 1 .. MaxEnrolments : e > Len(enrolments) => invitations[e] = NoInvitation
  /\ issued <= MaxInvitations /\ late \subseteq 1 .. issued
  /\ users \in Seq([email : Emails, of : 0 .. MaxEnrolments, gone : BOOLEAN])
  /\ \A f \in Forms : form[f].pc \in {"expire", "count", "create"} =>
       form[f].invite \in Invitation /\ form[f].e \in DOMAIN enrolments

OnboardingInit ==
  /\ enrolments = <<>> /\ users = <<>>
  /\ invitations = [e \in 1 .. MaxEnrolments |-> NoInvitation]
  /\ issued = 0 /\ late = {}
  /\ form = [f \in Forms |-> NoForm]

-----------------------------------------------------------------------------
Fills(f, t) == form' = [form EXCEPT ![f] = t]

\* The unique index on users.email.
HasAccount(m) == \E u \in DOMAIN users : users[u].email = m /\ ~users[u].gone

NewEnrolment(m) ==
  /\ Len(enrolments) < MaxEnrolments
  /\ enrolments' = Append(enrolments, [email |-> m, status |-> "submitted", student |-> 0])

\* CreateEnrollment, public: an address may enrol again and again.
Enrol(m) ==
  /\ NewEnrolment(m)
  /\ UNCHANGED <<invitations, issued, late, users, form>>

\* AdminCreateEnrollment: no enrolment of that address, and no account.
BeginAdminEnrol(f, m) ==
  /\ form[f] = NoForm
  /\ \A e \in DOMAIN enrolments : enrolments[e].email # m
  /\ Fills(f, [pc |-> "users", email |-> m])
  /\ UNCHANGED <<enrolments, invitations, issued, late, users>>

CountUsers(f) ==
  /\ form[f].pc = "users"
  /\ Fills(f, IF HasAccount(form[f].email) THEN NoForm ELSE [form[f] EXCEPT !.pc = "enrol"])
  /\ UNCHANGED <<enrolments, invitations, issued, late, users>>

AdminEnrol(f) ==
  /\ form[f].pc = "enrol"
  /\ NewEnrolment(form[f].email)
  /\ Fills(f, NoForm)
  /\ UNCHANGED <<invitations, issued, late, users>>

\* UpdateEnrollment: any status, whatever the student's account.
UpdateEnrolment(e, s) ==
  /\ enrolments' = [enrolments EXCEPT ![e].status = s]
  /\ UNCHANGED <<invitations, issued, late, users, form>>

(* GenerateInvitation: whatever was there is deleted for good, then a new one *)

BeginInvite(f, e) ==
  /\ form[f] = NoForm
  /\ Fills(f, [pc |-> "drop", e |-> e])
  /\ UNCHANGED <<enrolments, invitations, issued, late, users>>

DropInvitation(f) ==
  /\ form[f].pc = "drop"
  /\ invitations' = [invitations EXCEPT ![form[f].e] = NoInvitation]
  /\ Fills(f, [form[f] EXCEPT !.pc = "invite"])
  /\ UNCHANGED <<enrolments, issued, late, users>>

\* The unique index refuses a second row of the enrolment.
InsertInvitation(f) ==
  /\ form[f].pc = "invite"
  /\ IF invitations[form[f].e] = NoInvitation
     THEN /\ issued < MaxInvitations /\ issued' = issued + 1
          /\ invitations' = [invitations EXCEPT ![form[f].e] =
                               [token |-> issued', status |-> "pending"]]
     ELSE UNCHANGED <<issued, invitations>>
  /\ Fills(f, NoForm)
  /\ UNCHANGED <<enrolments, late, users>>

\* Seven days go by.
Lapse(t) ==
  /\ late' = late \cup {t}
  /\ UNCHANGED <<enrolments, invitations, issued, users, form>>

(* ClaimInvitation *)

\* db.Save of a row read before: its UPDATE, or the INSERT that follows when the
\* row is gone, which the index refuses while another row is there.
Saves(e, row) == invitations[e] = NoInvitation \/ invitations[e].token = row.token

BeginClaim(f, e) ==
  LET row == invitations[e] IN
  /\ form[f] = NoForm /\ row.status = "pending"
  /\ Fills(f, [pc |-> IF row.token \in late THEN "expire" ELSE "count",
               e |-> e, invite |-> row])
  /\ UNCHANGED <<enrolments, invitations, issued, late, users>>

\* Its error is not looked at.
MarkExpired(f) ==
  LET t == form[f] IN
  /\ t.pc = "expire"
  /\ invitations' = IF Saves(t.e, t.invite)
                    THEN [invitations EXCEPT ![t.e] = [t.invite EXCEPT !.status = "expired"]]
                    ELSE invitations
  /\ Fills(f, NoForm)
  /\ UNCHANGED <<enrolments, issued, late, users>>

CountExisting(f) ==
  /\ form[f].pc = "count"
  /\ Fills(f, IF HasAccount(enrolments[form[f].e].email)
              THEN NoForm ELSE [form[f] EXCEPT !.pc = "create"])
  /\ UNCHANGED <<enrolments, invitations, issued, late, users>>

\* One transaction: account, profile, invitation and enrolment, or nothing.
Provision(f, free) ==
  LET t == form[f] IN
  /\ t.pc = "create" /\ Len(users) < MaxUsers
  /\ IF free /\ Saves(t.e, t.invite)
     THEN /\ users' = Append(users, [email |-> enrolments[t.e].email, of |-> t.e, gone |-> FALSE])
          /\ invitations' = [invitations EXCEPT ![t.e] = [t.invite EXCEPT !.status = "claimed"]]
          /\ enrolments' = [enrolments EXCEPT ![t.e].student = Len(users'),
                                              ![t.e].status = "accepted"]
     ELSE UNCHANGED <<enrolments, invitations, users>>
  /\ Fills(f, NoForm)
  /\ UNCHANGED <<issued, late>>

\* Mutant of CreateStudent: without the unique index two claims make two accounts.
CreateStudentUnindexed(f) == Provision(f, TRUE)

CreateStudent(f) ==
  Provision(f, form[f].pc = "create" /\ ~HasAccount(enrolments[form[f].e].email))

-----------------------------------------------------------------------------
\* CreateUser makes staff; whoever had the address first keeps it.
CreateStaff(m) ==
  /\ Len(users) < MaxUsers /\ ~HasAccount(m)
  /\ users' = Append(users, [email |-> m, of |-> 0, gone |-> FALSE])
  /\ UNCHANGED <<enrolments, invitations, issued, late, form>>

\* The enrolments an account is the student of.
EnrolmentsOf(u) == {e \in DOMAIN enrolments : enrolments[e].student = u}

\* AdminDeleteUser, one transaction: the enrolment is reopened and its invitation
\* dropped, so that the same person can be invited again.
DeleteUser(u) ==
  /\ ~users[u].gone
  /\ users' = [users EXCEPT ![u].gone = TRUE]
  /\ enrolments' = [e \in DOMAIN enrolments |->
       IF e \in EnrolmentsOf(u)
       THEN [enrolments[e] EXCEPT !.student = 0, !.status = "submitted"]
       ELSE enrolments[e]]
  /\ invitations' = [e \in DOMAIN invitations |->
       IF e \in EnrolmentsOf(u) THEN NoInvitation ELSE invitations[e]]
  /\ UNCHANGED <<issued, late, form>>

\* A statement fails or the replica dies.
DropForm(f) ==
  /\ form[f] # NoForm
  /\ Fills(f, NoForm)
  /\ UNCHANGED <<enrolments, invitations, issued, late, users>>

OnboardingNext ==
  \/ \E m \in Emails : Enrol(m) \/ CreateStaff(m)
  \/ \E e \in DOMAIN enrolments, s \in Stages : UpdateEnrolment(e, s)
  \/ \E t \in (1 .. issued) \ late : Lapse(t)
  \/ \E u \in DOMAIN users : DeleteUser(u)
  \/ \E f \in Forms :
       \/ \E m \in Emails : BeginAdminEnrol(f, m)
       \/ CountUsers(f) \/ AdminEnrol(f)
       \/ \E e \in DOMAIN enrolments : BeginInvite(f, e) \/ BeginClaim(f, e)
       \/ DropInvitation(f) \/ InsertInvitation(f)
       \/ MarkExpired(f) \/ CountExisting(f) \/ CreateStudent(f)
       \/ DropForm(f)

OnboardingSpec == OnboardingInit /\ [][OnboardingNext]_ovars

-----------------------------------------------------------------------------
\* Claiming is whole and deleting an account undoes all of it, so that "the same
\* person can be onboarded again" (ClaimInvitation, AdminDeleteUser): a student's
\* account and its enrolment point at each other, and an invitation is claimed
\* only while there is such an account, however claims, invitations, expiry and
\* deletions overlap.
ClaimIsWhole ==
  /\ \A u \in DOMAIN users :
       ~users[u].gone /\ users[u].of # 0 => enrolments[users[u].of].student = u
  /\ \A e \in DOMAIN enrolments :
       LET u == enrolments[e].student IN
       /\ u # 0 => ~users[u].gone /\ users[u].of = e
       /\ invitations[e].status = "claimed" => u # 0
=============================================================================
