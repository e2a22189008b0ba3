---------------------------- MODULE Notifications ----------------------------
(***************************************************************************)
(* Reminders: what the sweep raises, the inbox it raises them into, and    *)
(* the e-mail about what nobody has read (src/internal/services/notify.go, *)
(* handlers/notifications.go).                                             *)
(*                                                                         *)
(* Every replica runs the worker: a sweep and then a sending pass, again   *)
(* and again.  Which rows a sweep selects, and whose role may read them,   *)
(* is kept as the situation it finds: a live contract's renewal date when  *)
(* it is in the window, work that waits for a mentor, a deal that has gone *)
(* quiet.  Mail is taken to be configured; without it a pass ends at once. *)
(***************************************************************************)
EXTENDS Naturals, FiniteSets

CONSTANTS
  Staff,        \* users whose roles may read what the sweep is about
  Unreachable,  \* those whose address refuses every e-mail
  Contracts,    \* with a renewal date
  Works,        \* submissions and extension requests
  Deals,        \* opportunities
  Owner,        \* Owner[d]: the user a deal belongs to
  MaxMark,      \* bound: renewal dates, and weeks
  Replicas,
  MaxFaults,    \* bound: crashes and failed statements or e-mails
  MaxChanges    \* bound: changes of the situation, of users and preferences

Matters == Contracts \cup Works \cup Deals

ASSUME NoticeBounds ==
  /\ IsFiniteSet(Replicas) /\ Unreachable \subseteq Staff
  /\ Owner \in [Deals -> Staff]
  /\ MaxMark \in Nat \ {0} /\ MaxFaults \in Nat /\ MaxChanges \in Nat

VARIABLES
  renewal,  \* renewal[c]: date a reminder is due for, 0 when none is
  waiting,  \* works waiting too long, and deals without movement
  week,     \* ISO week
  active,   \* users.is_active
  mode,     \* mode[u]: notification_preferences.email_mode, digest by default
  notices,  \* notifications rows
  read,     \* those with read_at,
  emailed,  \* and those with emailed_at
  mails,    \* history: mails[n]: e-mails that reached the user with n in them
  muted,    \* history: notices marked because their user wants no e-mail
  running,  \* the replicas there are
  task,     \* task[i]: locals of the worker of replica i
  faults, changes

situation == <<renewal, waiting, week>>   \* what a sweep finds
people == <<active, mode>>
inbox == <<notices, read, emailed>>
nvars == <<situation, people, running, inbox, mails, muted, task, faults, changes>>

Modes == {"per_event", "digest", "none"}
Notice == [user : Staff, about : Matters, mark : 0 .. MaxMark]
Resting == [pc |-> "rest"]

Task ==
  [pc : {"sweep", "send"}, todo : SUBSET Notice]
  \cup [pc : {"mail"}, mode : {"per_event", "digest"}, items : SUBSET Notice,
        left : SUBSET Notice, todo : SUBSET Notice]
  \cup [pc : {"mark"}, items : SUBSET Notice, todo : SUBSET Notice]

NoticesTypeOK ==
  /\ renewal \in [Contracts -> 0 .. MaxMark]
  /\ waiting \subseteq Works \cup Deals
  /\ week \in 1 .. MaxMark
  /\ active \subseteq Staff /\ mode \in [Staff -> Modes]
  /\ running \subseteq Replicas
  /\ notices \subseteq Notice /\ read \subseteq notices /\ emailed \subseteq notices
  /\ mails \in [Notice -> Nat] /\ muted \subseteq Notice
  /\ task \in [Replicas -> Task \cup {Resting}]
  /\ faults \in 0 .. MaxFaults /\ changes \in 0 .. MaxChanges

NoticesInit ==
  /\ renewal \in [Contracts -> 0 .. MaxMark]
  /\ waiting \in SUBSET (Works \cup Deals) /\ week = 1
  /\ active \in SUBSET Staff /\ mode \in [Staff -> Modes]
  /\ running \in SUBSET Replicas \ {{}}
  /\ notices = {} /\ read = {} /\ emailed = {} /\ muted = {}
  /\ mails = [n \in Notice |-> 0]
  /\ task = [i \in Replicas |-> Resting]
  /\ faults = 0 /\ changes = 0

-----------------------------------------------------------------------------
(* Sweep *)

\* Deals go to their owner alone, whether active or not.
Recipients(m) == IF m \in Deals THEN {Owner[m]} ELSE active

\* A renewal is keyed on its date, a quiet deal on the week.
Due ==
  {<<c, renewal[c]>> : c \in {c \in Contracts : renewal[c] # 0}}
  \cup {<<w, 0>> : w \in waiting \cap Works}
  \cup {<<d, week>> : d \in waiting \cap Deals}

Wanted == {n \in Notice : <<n.about, n.mark>> \in Due /\ n.user \in Recipients(n.about)}

\* Mutant of Raised: the key leaves out the renewal date and the week.
RaisedOnce(n) == \E o \in notices : o.user = n.user /\ o.about = n.about

\* The unique index on the dedupe key: Raise then does nothing.
Raised(n) == n \in notices

Turns(i, t) == task' = [task EXCEPT ![i] = t]

\* A read that fails is taken to have found nothing.
BeginSweep(i) ==
  /\ i \in running /\ task[i] = Resting
  /\ \/ Turns(i, [pc |-> "sweep", todo |-> Wanted]) /\ UNCHANGED faults
     \/ \E missed \in {Contracts, Works, Deals} :
          /\ faults < MaxFaults /\ faults' = faults + 1
          /\ Turns(i, [pc |-> "sweep", todo |-> {n \in Wanted : n.about \notin missed}])
  /\ UNCHANGED <<situation, people, running, inbox, mails, muted, changes>>

\* Raise; an error is ignored.
Raise(i) ==
  /\ task[i].pc = "sweep"
  /\ \E n \in task[i].todo :
       /\ \/ /\ notices' = notices \cup {o \in {n} : ~Raised(o)}
             /\ UNCHANGED faults
          \/ faults < MaxFaults /\ faults' = faults + 1 /\ UNCHANGED notices
       /\ Turns(i, [task[i] EXCEPT !.todo = @ \ {n}])
  /\ UNCHANGED <<situation, people, running, read, emailed, mails, muted, changes>>

-----------------------------------------------------------------------------
(* SendPending *)

\* Mutant of Pending: what was e-mailed is pending until it is read.
PendingUnread == notices \ read

Pending == notices \ (emailed \cup read)

ReadPending(i) ==
  /\ task[i].pc = "sweep" /\ task[i].todo = {}
  /\ Turns(i, [pc |-> "send", todo |-> Pending])
  /\ UNCHANGED <<situation, people, running, inbox, mails, muted, faults, changes>>

Items(i, u) == {n \in task[i].todo : n.user = u}

Written(i, u, m) ==
  [pc |-> "mail", mode |-> m, items |-> Items(i, u), left |-> Items(i, u),
   todo |-> task[i].todo \ Items(i, u)]

Skip(i, u) == [task[i] EXCEPT !.todo = @ \ Items(i, u)]

\* The next user of the pass, in no particular order: nobody who is inactive.
Address(i, u) ==
  LET silent == u \in active /\ mode[u] = "none" IN
  /\ task[i].pc = "send" /\ Items(i, u) # {}
  /\ Turns(i, IF u \notin active THEN Skip(i, u)
              ELSE IF silent THEN [pc |-> "mark", items |-> Items(i, u),
                                   todo |-> Skip(i, u).todo]
              ELSE Written(i, u, mode[u]))
  /\ muted' = IF silent THEN muted \cup Items(i, u) ELSE muted
  /\ UNCHANGED <<situation, people, running, inbox, mails, faults, changes>>

\* A read fails: that of the user, who is skipped, or that of their preference,
\* and they get a digest whatever it says.
AddressFails(i, u) ==
  /\ task[i].pc = "send" /\ Items(i, u) # {} /\ faults < MaxFaults
  /\ faults' = faults + 1
  /\ \/ Turns(i, Skip(i, u))
     \/ u \in active /\ Turns(i, Written(i, u, "digest"))
  /\ UNCHANGED <<situation, people, running, inbox, mails, muted, changes>>

\* What the next e-mail covers: all that is left, or one notice.
Letters(t) == IF t.mode = "digest" THEN {t.left} ELSE {{n} : n \in t.left}

Reach(letter) ==
  mails' = [n \in Notice |-> IF n \in letter THEN mails[n] + 1 ELSE mails[n]]

Mail(i) ==
  LET t == task[i] IN
  /\ t.pc = "mail"
  /\ \E letter \in Letters(t) :
       /\ \A n \in letter : n.user \notin Unreachable
       /\ Reach(letter)
       /\ Turns(i, IF t.left = letter
                   THEN [pc |-> "mark", items |-> t.items, todo |-> t.todo]
                   ELSE [t EXCEPT !.left = @ \ letter])
  /\ UNCHANGED <<situation, people, running, inbox, muted, faults, changes>>

\* Mutant of AfterError: the loop over a user's notices is left, and what comes
\* after it is not.
AfterErrorMarks(t) == [pc |-> "mark", items |-> t.items, todo |-> t.todo]

\* Everything of this user's stays unmarked, and the next user's turn comes.
AfterError(t) == [pc |-> "send", todo |-> t.todo]

\* An error, which does not say that the e-mail did not go out.
MailFails(i) ==
  LET t == task[i] IN
  /\ t.pc = "mail"
  /\ \E letter \in Letters(t) :
       IF \E n \in letter : n.user \in Unreachable
       THEN UNCHANGED <<mails, faults>>
       ELSE /\ faults < MaxFaults /\ faults' = faults + 1
            /\ Reach(letter) \/ UNCHANGED mails
  /\ Turns(i, AfterError(t))
  /\ UNCHANGED <<situation, people, running, inbox, muted, changes>>

\* markEmailed: one UPDATE that asks nothing, its error ignored.
Mark(i) ==
  /\ task[i].pc = "mark"
  /\ \/ emailed' = emailed \cup task[i].items /\ UNCHANGED faults
     \/ faults < MaxFaults /\ faults' = faults + 1 /\ UNCHANGED emailed
  /\ Turns(i, [pc |-> "send", todo |-> task[i].todo])
  /\ UNCHANGED <<situation, people, running, notices, read, mails, muted, changes>>

EndPass(i) ==
  /\ task[i].pc = "send" /\ task[i].todo = {}
  /\ Turns(i, Resting)
  /\ UNCHANGED <<situation, people, running, inbox, mails, muted, faults, changes>>

\* The replica dies, or the read of what is pending fails.
Crash(i) ==
  /\ task[i] # Resting /\ faults < MaxFaults
  /\ faults' = faults + 1
  /\ Turns(i, Resting)
  /\ UNCHANGED <<situation, people, running, inbox, mails, muted, changes>>

-----------------------------------------------------------------------------
(* What goes on around the worker *)

\* Mutant of Unread: an upsert, which makes the row it does not find.
Upserted(n) == n \notin read

Unread(n) == n \in notices \ read

\* AdminMarkNotificationRead
MarkRead(n) ==
  /\ Unread(n)
  /\ read' = read \cup {n}
  /\ UNCHANGED <<situation, people, running, notices, emailed, mails, muted, task,
                 faults, changes>>

\* AdminMarkAllNotificationsRead
MarkAllRead(u) ==
  /\ read' = read \cup {n \in notices : n.user = u}
  /\ UNCHANGED <<situation, people, running, notices, emailed, mails, muted, task,
                 faults, changes>>

Change ==
  /\ changes < MaxChanges /\ changes' = changes + 1
  /\ UNCHANGED <<running, inbox, mails, muted, task, faults>>

\* AdminSetNotificationPreference
SetMode(u, m) ==
  /\ m # mode[u]
  /\ Change /\ mode' = [mode EXCEPT ![u] = m]
  /\ UNCHANGED <<situation, active>>

\* AdminUpdateUser and AdminDeleteUser, as far as the worker sees it.
ToggleActive(u) ==
  /\ Change /\ active' = IF u \in active THEN active \ {u} ELSE active \cup {u}
  /\ UNCHANGED <<situation, mode>>

\* A contract is edited, a work handed in or reviewed, a deal left or touched.
MoveRenewal(c, date) ==
  /\ date # renewal[c]
  /\ Change /\ renewal' = [renewal EXCEPT ![c] = date]
  /\ UNCHANGED <<waiting, week, people>>

Stir(m) ==
  /\ Change /\ waiting' = IF m \in waiting THEN waiting \ {m} ELSE waiting \cup {m}
  /\ UNCHANGED <<renewal, week, people>>

NextWeek ==
  /\ week < MaxMark /\ week' = week + 1
  /\ Change
  /\ UNCHANGED <<renewal, waiting, people>>

Worker(i) ==
  BeginSweep(i) \/ Raise(i) \/ ReadPending(i) \/ Mail(i) \/ MailFails(i)
  \/ Mark(i) \/ EndPass(i) \/ \E u \in Staff : Address(i, u) \/ AddressFails(i, u)

Around ==
  \/ \E n \in Notice : MarkRead(n)
  \/ \E u \in Staff : MarkAllRead(u) \/ ToggleActive(u) \/ \E m \in Modes : SetMode(u, m)
  \/ \E c \in Contracts, date \in 0 .. MaxMark : MoveRenewal(c, date)
  \/ \E m \in Works \cup Deals : Stir(m)
  \/ NextWeek

NoticesNext == (\E i \in Replicas : Worker(i) \/ Crash(i)) \/ Around

NoticesSpec == NoticesInit /\ [][NoticesNext]_nvars

\* The ticker of every replica keeps ticking, and a pass under way goes on; no
\* user has to do anything.
NoticesFairSpec == NoticesSpec /\ \A i \in Replicas : WF_nvars(Worker(i))

-----------------------------------------------------------------------------
\* "Leave them unmarked so the next pass retries rather than losing them"
\* (SendPending): what is marked as e-mailed has reached its user, unless they
\* had e-mail switched off when their turn came.
MarkedWasMailed == \A n \in emailed : mails[n] > 0 \/ n \in muted

\* A reminder is e-mailed once, and again only for a crash, an error after it
\* went out, or another replica at it at the same time: "every replica would
\* run the sweep and send duplicate email" (SECURITY.md), but no more than that.
RepeatsAreAccountedFor ==
  \A n \in Notice : mails[n] <= Cardinality(running) + faults

\* "Moving the renewal raises a fresh reminder", and a deal that stays stalled
\* nags again each week (Sweep), though its owner was told before: what stays due
\* is raised, and what is raised is e-mailed or read in the end, for everyone who
\* is active and can be reached, while another's address refuses every e-mail.
NoticesGetOut ==
  \A n \in {n \in Notice : n.user \notin Unreachable} :
    (n \in Wanted \cup notices)
      ~> (n \in emailed \cup read \/ n \notin Wanted \cup notices \/ n.user \notin active)
=============================================================================
