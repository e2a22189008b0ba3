------------------------------- MODULE Events -------------------------------
(***************************************************************************)
(* An event, the reservations for it, and what is broadcast to those whose *)
(* reservation is confirmed (src/internal/handlers/handlers.go, with       *)
(* SendBroadcastEmail and sendViaResend of src/internal/services).         *)
(***************************************************************************)
EXTENDS Naturals, Sequences, FiniteSets

CONSTANTS
  Capacities,  \* of an event; 0 for no limit
  Caps,        \* recipients a request to the mail service may name, the visible
               \* To among them; SMTP is a service that takes any number
  Hosts,       \* slots for requests running at once
  MaxGuests, MaxCasts  \* bounds: reservations, broadcasts

ASSUME EventBounds ==
  /\ Capacities \subseteq Nat /\ Caps \subseteq Nat \ {0, 1}
  /\ MaxGuests \in Nat /\ MaxCasts \in Nat

VARIABLES
  event,    \* its row
  guests,   \* guests[g]: status of a reservations row, in creation order
  casts,    \* broadcasts rows, in creation order
  cap,      \* the limit of the service that is configured, 0 for none
  host,     \* host[h]: locals of a request
  reached   \* history: reached[b][p]: e-mails that reached recipient p of broadcast b

evars == <<event, guests, casts, cap, host, reached>>

NoEvent == [live |-> FALSE]
NoHost == [pc |-> "none"]
Plans == [published : BOOLEAN, capacity : Capacities, live : {TRUE}]

EventsTypeOK ==
  /\ event = NoEvent \/ \E e \in Plans, l \in BOOLEAN : event = [e EXCEPT !.live = l]
  /\ guests \in Seq({"pending", "confirmed"}) /\ Len(guests) <= MaxGuests
  /\ casts \in Seq([count : 0 .. MaxGuests, status : {"queued", "sent"}])
  /\ Len(casts) <= MaxCasts /\ cap \in Caps \cup {0}
  /\ DOMAIN reached = DOMAIN casts
  /\ \A b \in DOMAIN casts : reached[b] \in [1 .. casts[b].count -> Nat]

EventsInit ==
  /\ event = NoEvent /\ guests = <<>> /\ casts = <<>> /\ reached = <<>>
  /\ cap \in Caps \cup {0}
  /\ host = [h \in Hosts |-> NoHost]

-----------------------------------------------------------------------------
Hosting(h, t) == host' = [host EXCEPT ![h] = t]
Begins(h, t) == host[h] = NoHost /\ Hosting(h, t)

Confirmed == {g \in DOMAIN guests : guests[g] = "confirmed"}

\* How many a query for the confirmed finds; one that fails finds nobody, and the
\* error is not looked at.
Found == {Cardinality(Confirmed), 0}

\* AdminCreateEvent
CreateEvent(plan) ==
  /\ event = NoEvent
  /\ event' = plan
  /\ UNCHANGED <<guests, casts, cap, host, reached>>

\* AdminUpdateEvent: what was sent is put into the row that was read ...
BeginUpdateEvent(h, plan) ==
  /\ event.live
  /\ Begins(h, [pc |-> "save", event |-> plan])
  /\ UNCHANGED <<event, guests, casts, cap, reached>>

\* ... and db.Save writes all of it, inserting it again where it was deleted.
SaveEvent(h) ==
  /\ host[h].pc = "save"
  /\ event' = host[h].event
  /\ Hosting(h, NoHost)
  /\ UNCHANGED <<guests, casts, cap, reached>>

\* AdminDeleteEvent
DeleteEvent ==
  /\ event.live
  /\ event' = [event EXCEPT !.live = FALSE]
  /\ UNCHANGED <<guests, casts, cap, host, reached>>

(* CreateReservation, public: not once as many are confirmed as there is room *)

BeginReserve(h) ==
  /\ event.live /\ event.published
  /\ event.capacity > 0 => \E n \in Found : n < event.capacity
  /\ Begins(h, [pc |-> "reserve"])
  /\ UNCHANGED <<event, guests, casts, cap, reached>>

InsertReservation(h) ==
  /\ host[h].pc = "reserve" /\ Len(guests) < MaxGuests
  /\ guests' = Append(guests, "pending")
  /\ Hosting(h, NoHost)
  /\ UNCHANGED <<event, casts, cap, reached>>

\* AdminApproveReservation, which asks for no room: what it saves differs from
\* what it read in the status alone.
ApproveReservation(g) ==
  /\ guests' = [guests EXCEPT ![g] = "confirmed"]
  /\ UNCHANGED <<event, casts, cap, host, reached>>

-----------------------------------------------------------------------------
(* AdminBroadcast *)

BeginBroadcast(h) ==
  /\ event.live
  /\ \E n \in Found : Begins(h, [pc |-> "queue", count |-> n])
  /\ UNCHANGED <<event, guests, casts, cap, reached>>

\* Nothing is sent to nobody, nor without a service.
QueueBroadcast(h) ==
  LET n == host[h].count IN
  /\ host[h].pc = "queue" /\ Len(casts) < MaxCasts
  /\ casts' = Append(casts, [count |-> n, status |-> "queued"])
  /\ reached' = Append(reached, [p \in 1 .. n |-> 0])
  /\ Hosting(h, IF cap = 0 \/ n = 0 THEN NoHost
               ELSE [pc |-> "send", cast |-> Len(casts'), start |-> 0])
  /\ UNCHANGED <<event, guests, cap>>

PerBatch == cap - 1

\* Mutant of Advance: the slot of the visible To is counted in.
AdvanceByCap(start) == start + cap

Advance(start) == start + PerBatch

\* The recipients from start on, counted from zero, as many as a batch holds.
Slice(start, n) == {p \in 1 .. n : start < p /\ p <= start + PerBatch}

Deliver(t) ==
  reached' = [reached EXCEPT ![t.cast] =
    [p \in DOMAIN @ |->
       IF p \in Slice(t.start, casts[t.cast].count) THEN @[p] + 1 ELSE @[p]]]

SendBatch(h) ==
  LET t == host[h] IN
  /\ t.pc = "send" /\ t.start < casts[t.cast].count
  /\ Deliver(t)
  /\ Hosting(h, [t EXCEPT !.start = Advance(@)])
  /\ UNCHANGED <<event, guests, casts, cap>>

\* An error, whether or not the batch went out: the broadcast stays queued.
BatchFails(h) ==
  LET t == host[h] IN
  /\ t.pc = "send" /\ t.start < casts[t.cast].count
  /\ Deliver(t) \/ UNCHANGED reached
  /\ Hosting(h, NoHost)
  /\ UNCHANGED <<event, guests, casts, cap>>

MarkSent(h) ==
  LET t == host[h] IN
  /\ t.pc = "send" /\ t.start >= casts[t.cast].count
  /\ casts' = [casts EXCEPT ![t.cast].status = "sent"]
  /\ Hosting(h, NoHost)
  /\ UNCHANGED <<event, guests, cap, reached>>

\* A statement fails or the replica dies.
DropHost(h) ==
  /\ host[h] # NoHost
  /\ Hosting(h, NoHost)
  /\ UNCHANGED <<event, guests, casts, cap, reached>>

EventsNext ==
  \/ \E plan \in Plans : CreateEvent(plan) \/ \E h \in Hosts : BeginUpdateEvent(h, plan)
  \/ DeleteEvent
  \/ \E g \in DOMAIN guests : ApproveReservation(g)
  \/ \E h \in Hosts :
       \/ SaveEvent(h)
       \/ BeginReserve(h) \/ InsertReservation(h)
       \/ BeginBroadcast(h) \/ QueueBroadcast(h)
       \/ SendBatch(h) \/ BatchFails(h) \/ MarkSent(h)
       \/ DropHost(h)

EventsSpec == EventsInit /\ [][EventsNext]_evars

-----------------------------------------------------------------------------
\* "Batch so that a cohort larger than the provider's per-request cap still goes
\* out" (sendViaResend), and a failed broadcast is kept as queued (AdminBroadcast):
\* one that is marked as sent has reached each of its recipients once, one that
\* is not has reached nobody twice, whatever fails between two batches.
SentReachedAll ==
  \A b \in DOMAIN casts : \A p \in 1 .. casts[b].count :
    /\ reached[b][p] <= 1
    /\ casts[b].status = "sent" => reached[b][p] = 1
=============================================================================
