--------------------------- MODULE MCNotifications ---------------------------
(* Instances of Notifications. *)
EXTENDS Notifications

CONSTANTS ann, bob, lease, offer

OfAnn == [d \in Deals |-> ann]

\* One replica: a lease about to be renewed concerns ann and bob, ann's deal has
\* gone quiet and nothing else waits, until something changes.  Bob, whom no
\* e-mail reaches, does not look into the app either.
OneReplica ==
  /\ \A n \in read : n.user = ann
  /\ running = {CHOOSE i \in Replicas : TRUE}
  /\ changes = 0 => /\ renewal = [c \in Contracts |-> 1] /\ waiting = Deals
                    /\ active = Staff /\ mode[bob] = "digest"

\* All of them: the lease concerns ann alone, and nothing changes.
AllReplicas ==
  /\ running = Replicas /\ changes = 0
  /\ renewal = [c \in Contracts |-> 1] /\ waiting = {}
  /\ active = {ann} /\ mode[bob] = "digest"

Explored == OneReplica \/ AllReplicas
=============================================================================
