------------------------------- MODULE MCRoles -------------------------------
(* Instances of Roles for TLC: one built-in role, seeded grant by grant by    *)
(* two replicas, and one custom role that two handlers edit.                  *)
EXTENDS Roles

CONSTANTS users, view
OneOrNone == {{}, {users}}
Shipped == [r \in BuiltIn |-> Perms]

\* Handlers run on replicas that have booted, beside one reload.  Two may run
\* after one another while nothing fails, and at once while nothing reloads
\* beside them either.
Explored ==
  LET reloading == {i \in Replicas : task[i] # Idle} IN
  /\ (\E e \in Editors : task[e] # Idle) =>
       Cardinality(reloading) < 2 /\ \A i \in reloading : Serving(i)
  /\ edits > 1 => troubles = 0
  /\ ~solo => reloading = {}
=============================================================================
