-------------------------------- MODULE Relay --------------------------------
(***************************************************************************)
(* What the sessions of an account promise, without handlers, token rows   *)
(* or version numbers: a session is a baton that is carried by one ticket  *)
(* at a time, and passed on to a ticket nobody has had.  What ends the     *)
(* sessions does not reach a baton between two tickets; a baton that is    *)
(* dropped is never picked up.  A change of the secret costs a slip and    *)
(* takes every baton that is carried.  Sessions implements this.           *)
(***************************************************************************)
EXTENDS Integers

CONSTANTS
  Tickets,  \* what a baton is carried with; a session has the name of its first
  Slips     \* what a change of the secret costs

VARIABLES
  baton,    \* baton[f]: the session that began with ticket f
  handed,   \* the tickets handed out so far
  entry,    \* something in circulation opens the door
  secret,   \* how often the secret was changed
  slip      \* slip[j] \in {"none", "unused", "used"}

rvars == <<baton, handed, entry, secret, slip>>

NotBegun == [is |-> "none"]
Carried(t) == [is |-> "carried", by |-> t]
Passing == [is |-> "passing"]
Dropped == [is |-> "dropped"]

Taken == [f \in Tickets |->
            IF baton[f].is = "carried" THEN Dropped ELSE baton[f]]

RInit ==
  /\ baton = [f \in Tickets |-> NotBegun]
  /\ handed = {}
  /\ entry = FALSE
  /\ secret = 0
  /\ slip = [j \in Slips |-> "none"]

Enter ==
  /\ entry' = TRUE
  /\ UNCHANGED <<baton, handed, secret, slip>>

Start(f) ==
  /\ f \notin handed /\ baton[f] = NotBegun
  /\ baton' = [baton EXCEPT ![f] = Carried(f)]
  /\ handed' = handed \cup {f}
  /\ UNCHANGED <<entry, secret, slip>>

\* The ticket is worth nothing from here on.
LetGo(f) ==
  /\ baton[f].is = "carried"
  /\ baton' = [baton EXCEPT ![f] = Passing]
  /\ UNCHANGED <<handed, entry, secret, slip>>

PassTo(f, t) ==
  /\ baton[f] = Passing /\ t \notin handed
  /\ baton' = [baton EXCEPT ![f] = Carried(t)]
  /\ handed' = handed \cup {t}
  /\ UNCHANGED entry \/ entry' = TRUE
  /\ UNCHANGED <<secret, slip>>

Drop(f) ==
  /\ baton[f].is \in {"carried", "passing"}
  /\ baton' = [baton EXCEPT ![f] = Dropped]
  /\ UNCHANGED <<handed, entry, secret, slip>>

DropAll ==
  /\ baton' = Taken
  /\ UNCHANGED <<handed, entry, secret, slip>>

Lock ==
  /\ entry' = FALSE
  /\ UNCHANGED <<baton, handed, secret, slip>>

Offer(j) ==
  /\ slip[j] = "none"
  /\ slip' = [slip EXCEPT ![j] = "unused"]
  /\ UNCHANGED <<baton, handed, entry, secret>>

Withdraw ==
  /\ slip' = [j \in Slips |-> IF slip[j] = "unused" THEN "used" ELSE slip[j]]
  /\ UNCHANGED <<baton, handed, entry, secret>>

Change(j) ==
  /\ slip[j] = "unused"
  /\ slip' = [slip EXCEPT ![j] = "used"]
  /\ secret' = secret + 1
  /\ baton' = Taken
  /\ entry' = FALSE
  /\ UNCHANGED handed

RNext ==
  \/ Enter \/ DropAll \/ Lock \/ Withdraw
  \/ \E f \in Tickets :
       \/ Start(f) \/ LetGo(f) \/ Drop(f)
       \/ \E t \in Tickets : PassTo(f, t)
  \/ \E j \in Slips : Offer(j) \/ Change(j)

RSpec == RInit /\ [][RNext]_rvars
=============================================================================
