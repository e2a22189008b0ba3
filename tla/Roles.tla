-------------------------------- MODULE Roles --------------------------------
(***************************************************************************)
(* The permission matrix: role rows in the database, a copy of them in the *)
(* memory of every replica (src/internal/authz/authz.go), the seeding of   *)
(* the built-in roles at boot (src/internal/seed/roles.go), and editing    *)
(* and assigning roles (src/internal/handlers/handlers.go).                *)
(*                                                                         *)
(* A replica boots, which seeds and loads, and then reloads on a ticker;   *)
(* handlers on it edit rows and reload when they are done.  Staff accounts *)
(* are managed by super admins.                                            *)
(***************************************************************************)
EXTENDS Naturals, FiniteSets, Functions

CONSTANTS
  Replicas,
  BuiltIn,        \* slugs of the roles the code ships
  Custom,         \* slugs an administrator may use
  SuperAdmin,     \* the built-in role that must stay able to read users
  Perms,          \* an action on a resource; a row of a role grants one
  UsersRead,      \* reading users
  Asked,          \* the permissions an editor may ask for in one request
  BuiltInGrants,  \* what the code grants each built-in role
  Staff,          \* user accounts
  Editors,        \* slots for handlers running at once
  MaxTroubles,    \* bound: deaths, failed boots and failing statements
  MaxEdits        \* bound: handlers started

RoleNames == BuiltIn \cup Custom

ASSUME RolesBounds ==
  /\ SuperAdmin \in BuiltIn /\ BuiltIn \cap Custom = {}
  /\ {"none", "left"} \cap RoleNames = {}
  /\ BuiltInGrants \in [BuiltIn -> SUBSET Perms]
  /\ Asked \subseteq SUBSET Perms
  /\ UsersRead \in BuiltInGrants[SuperAdmin]
  /\ Replicas # {} /\ Replicas \cap Editors = {}
  /\ MaxTroubles \in Nat /\ MaxEdits \in Nat

VARIABLES
  roleId,   \* roleId[r]: id of the custom_roles row named r, or 0
  grant,    \* grant[r][p]: id of the row granting p to r, or 0
  account,  \* account[u]: role of a user, or that there is none yet or any more
  matrix,   \* matrix[i]: the grants replica i answers from
  task,     \* task[x]: locals of a replica's own goroutine or of a handler
  stamp,    \* the last id given out; rows the code seeds all have the first
  troubles, edits,
  solo,     \* history: no two handlers have run at once so far
  miscounted \* history: a count of the users of a role has failed

rvars == <<roleId, grant, account, matrix, task, stamp, troubles, edits, solo, miscounted>>
rows == <<roleId, grant, account, stamp>>

Seeded == 1
Held(r) == {p \in Perms : grant[r][p] # 0}
NoGrants == [p \in Perms |-> 0]

\* activeMatrix falls back on the grants in the code until a load succeeds.
Fallback == [r \in RoleNames |-> IF r \in BuiltIn THEN BuiltInGrants[r] ELSE {}]

Idle == [pc |-> "idle"]
Gone == [pc |-> "gone"]
Booting == {"role", "wipe", "grant", "load"}

Task ==
  [pc : {"idle", "gone"}]
  \cup [pc : {"role"}, left : SUBSET BuiltIn]
  \cup [pc : {"wipe"}, left : SUBSET BuiltIn, role : BuiltIn]
  \cup [pc : {"grant"}, left : SUBSET BuiltIn, role : BuiltIn, todo : SUBSET Perms]
  \cup [pc : {"load"}]
  \cup [pc : {"names"}, at : Replicas]
  \cup [pc : {"perms"}, at : Replicas, ids : [RoleNames -> Nat]]
  \cup [pc : {"publish"}, at : Replicas, fresh : [RoleNames -> SUBSET Perms]]
  \cup [pc : {"create"}, at : Replicas, role : Custom, perms : Asked]
  \cup [pc : {"clear"}, at : Replicas, role : Custom, id : Nat, perms : Asked]
  \cup [pc : {"replace"}, at : Replicas, role : Custom, id : Nat,
        perms : Asked, seen : [Perms -> Nat]]
  \cup [pc : {"count", "drop"}, at : Replicas, role : Custom, id : Nat]
  \cup [pc : {"hire", "promote"}, at : Replicas, role : RoleNames, user : Staff]

RolesTypeOK ==
  /\ roleId \in [RoleNames -> Nat]
  /\ grant \in [RoleNames -> [Perms -> Nat]]
  /\ account \in [Staff -> RoleNames \cup {"none", "left"}]
  /\ matrix \in [Replicas -> [RoleNames -> SUBSET Perms]]
  /\ task \in [Replicas \cup Editors -> Task]
  /\ stamp \in Nat /\ troubles \in 0 .. MaxTroubles /\ edits \in 0 .. MaxEdits
  /\ solo \in BOOLEAN /\ miscounted \in BOOLEAN

Boot == [pc |-> "role", left |-> BuiltIn]

\* Replicas boot on an empty database, or one where custom roles, with any
\* grants, and accounts have been made before.
RolesInit ==
  /\ \E made \in SUBSET Custom, perms \in Asked :
       /\ roleId = [r \in RoleNames |-> IF r \in made THEN Seeded ELSE 0]
       /\ grant = [r \in RoleNames |-> [p \in Perms |->
                     IF r \in made /\ p \in perms THEN Seeded ELSE 0]]
       /\ account \in [Staff -> made \cup {"none"}]
  /\ matrix = [i \in Replicas |-> Fallback]
  /\ task = [x \in Replicas \cup Editors |-> IF x \in Replicas THEN Boot ELSE Idle]
  /\ stamp = Seeded /\ troubles = 0 /\ edits = 0
  /\ solo = TRUE /\ miscounted = FALSE

-----------------------------------------------------------------------------
Becomes(x, t) == task' = [task EXCEPT ![x] = t]
Serving(i) == task[i].pc \in {"idle", "names", "perms", "publish"}

(* Boot: seed.Roles *)

\* FirstOrCreate, for the built-in roles in any order (a Go map has none).  That
\* it looks before it inserts shows only when the unique name refuses the second
\* of two inserts, which ends that boot: a Die.
SeedRole(i) ==
  /\ task[i].pc = "role"
  /\ \/ /\ task[i].left = {}
        /\ Becomes(i, [pc |-> "load"])
        /\ UNCHANGED roleId
     \/ \E r \in task[i].left :
          /\ IF roleId[r] = 0
             THEN roleId' = [roleId EXCEPT ![r] = Seeded] ELSE UNCHANGED roleId
          /\ Becomes(i, [pc |-> "wipe", left |-> task[i].left \ {r}, role |-> r])
  /\ UNCHANGED <<grant, account, stamp, matrix, troubles, edits, solo, miscounted>>

\* Mutant of SeedWipe: a role that has grants keeps them.
SeedWipeOnce(i) ==
  LET t == task[i] IN
  /\ t.pc = "wipe"
  /\ Becomes(i, [pc |-> "grant", left |-> t.left, role |-> t.role, todo |->
       IF Held(t.role) = {} THEN BuiltInGrants[t.role] ELSE {}])
  /\ UNCHANGED <<rows, matrix, troubles, edits, solo, miscounted>>

SeedWipe(i) ==
  LET t == task[i] IN
  /\ t.pc = "wipe"
  /\ grant' = [grant EXCEPT ![t.role] = NoGrants]
  /\ Becomes(i, [pc |-> "grant", left |-> t.left, role |-> t.role,
                 todo |-> BuiltInGrants[t.role]])
  /\ UNCHANGED <<roleId, account, stamp, matrix, troubles, edits, solo, miscounted>>

\* Fatal: the process ends, and is started again a few times.
Restart(i) ==
  /\ IF troubles < MaxTroubles
     THEN troubles' = troubles + 1 /\ Becomes(i, Boot)
     ELSE troubles' = troubles /\ Becomes(i, Gone)
  /\ matrix' = [matrix EXCEPT ![i] = Fallback]

\* A second row for a role's grant is refused by the unique index.
SeedGrant(i) ==
  LET t == task[i] IN
  /\ t.pc = "grant"
  /\ \/ /\ t.todo = {}
        /\ Becomes(i, [pc |-> "role", left |-> t.left])
        /\ UNCHANGED <<grant, matrix, troubles>>
     \/ \E p \in t.todo :
          \/ /\ grant[t.role][p] = 0
             /\ grant' = [grant EXCEPT ![t.role][p] = Seeded]
             /\ Becomes(i, [t EXCEPT !.todo = @ \ {p}])
             /\ UNCHANGED <<matrix, troubles>>
          \/ /\ grant[t.role][p] # 0
             /\ Restart(i)
             /\ UNCHANGED grant
  /\ UNCHANGED <<roleId, account, stamp, edits, solo, miscounted>>

-----------------------------------------------------------------------------
(* Loading: LoadFromDB *)

\* Mutant of BeginLoad: the refresher is not started.
BeginLoadOnce(i) ==
  /\ task[i].pc = "load"
  /\ Becomes(i, [pc |-> "names", at |-> i])
  /\ UNCHANGED <<rows, matrix, troubles, edits, solo, miscounted>>

\* At the end of a boot, and on every tick of the refresher.
BeginLoad(i) ==
  /\ task[i].pc \in {"load", "idle"}
  /\ Becomes(i, [pc |-> "names", at |-> i])
  /\ UNCHANGED <<rows, matrix, troubles, edits, solo, miscounted>>

\* The roles, and then the grants of the roles that were found.
ReadNames(x) ==
  /\ task[x].pc = "names"
  /\ Becomes(x, [pc |-> "perms", at |-> task[x].at, ids |-> roleId])
  /\ UNCHANGED <<rows, matrix, troubles, edits, solo, miscounted>>

ReadPerms(x) ==
  LET found(r) == task[x].ids[r] # 0 /\ task[x].ids[r] = roleId[r] IN
  /\ task[x].pc = "perms"
  /\ Becomes(x, [pc |-> "publish", at |-> task[x].at, fresh |->
       [r \in RoleNames |-> IF found(r) THEN Held(r) ELSE {}]])
  /\ UNCHANGED <<rows, matrix, troubles, edits, solo, miscounted>>

\* Mutant of Publish: whatever was read is published.
PublishAnyway(x) ==
  /\ task[x].pc = "publish"
  /\ matrix' = [matrix EXCEPT ![task[x].at] = task[x].fresh]
  /\ Becomes(x, Idle)
  /\ UNCHANGED <<rows, troubles, edits, solo, miscounted>>

\* The matrix is replaced if super admins can read users in it.
Publish(x) ==
  /\ task[x].pc = "publish"
  /\ IF UsersRead \in task[x].fresh[SuperAdmin]
     THEN matrix' = [matrix EXCEPT ![task[x].at] = task[x].fresh]
     ELSE UNCHANGED matrix
  /\ Becomes(x, Idle)
  /\ UNCHANGED <<rows, troubles, edits, solo, miscounted>>

-----------------------------------------------------------------------------
(* Handlers *)

StartEdit(e, i, t) ==
  /\ task[e] = Idle /\ Serving(i) /\ edits < MaxEdits
  /\ Becomes(e, t)
  /\ edits' = edits + 1
  /\ solo' = (solo /\ \A x \in Editors : task[x] = Idle)
  /\ UNCHANGED <<rows, matrix, troubles, miscounted>>

\* An editor grants only what its replica says a super admin holds.
MayGrant(i, perms) == perms \subseteq matrix[i][SuperAdmin]

\* CreateRole: the name is looked up, and the unique index looks again.
BeginCreateRole(e, i, r, perms) ==
  /\ roleId[r] = 0 /\ MayGrant(i, perms)
  /\ StartEdit(e, i, [pc |-> "create", at |-> i, role |-> r, perms |-> perms])

CreateRole(e) ==
  LET t == task[e] IN
  /\ t.pc = "create"
  /\ \/ /\ roleId[t.role] = 0
        /\ roleId' = [roleId EXCEPT ![t.role] = stamp + 1]
        /\ grant' = [grant EXCEPT ![t.role] =
                       [p \in Perms |-> IF p \in t.perms THEN stamp + 1 ELSE 0]]
        /\ stamp' = stamp + 1
        /\ Becomes(e, [pc |-> "names", at |-> t.at])
     \/ roleId[t.role] # 0 /\ Becomes(e, Idle) /\ UNCHANGED <<roleId, grant, stamp>>
  /\ UNCHANGED <<account, matrix, troubles, edits, solo, miscounted>>

\* UpdateRole: only custom roles get new permissions.
BeginUpdateRole(e, i, r, perms) ==
  /\ roleId[r] # 0 /\ MayGrant(i, perms)
  /\ StartEdit(e, i, [pc |-> "clear", at |-> i, role |-> r, id |-> roleId[r],
                      perms |-> perms])

\* Its transaction deletes the rows it finds when the DELETE starts.
ClearRole(e) ==
  LET t == task[e] IN
  /\ t.pc = "clear"
  /\ Becomes(e, [pc |-> "replace", at |-> t.at, role |-> t.role, id |-> t.id,
                 perms |-> t.perms, seen |->
                   IF roleId[t.role] = t.id THEN grant[t.role] ELSE NoGrants])
  /\ UNCHANGED <<rows, matrix, troubles, edits, solo, miscounted>>

\* Rows another editor has committed since are in the way of equal ones and
\* stay beside others; a role that is gone takes no rows.
ReplaceGrants(e) ==
  LET t == task[e]
      stay == {p \in Held(t.role) : grant[t.role][p] # t.seen[p]}
      there == roleId[t.role] = t.id
  IN
  /\ t.pc = "replace"
  /\ \/ /\ there /\ stay \cap t.perms = {}
        /\ grant' = [grant EXCEPT ![t.role] =
             [p \in Perms |-> IF p \in t.perms THEN stamp + 1
                              ELSE IF p \in stay THEN @[p] ELSE 0]]
        /\ stamp' = stamp + 1
        /\ Becomes(e, [pc |-> "names", at |-> t.at])
     \/ /\ ~there /\ t.perms = {}
        /\ Becomes(e, [pc |-> "names", at |-> t.at])
        /\ UNCHANGED <<grant, stamp>>
     \/ /\ IF there THEN stay \cap t.perms # {} ELSE t.perms # {}
        /\ Becomes(e, Idle)
        /\ UNCHANGED <<grant, stamp>>
  /\ UNCHANGED <<roleId, account, matrix, troubles, edits, solo, miscounted>>

\* DeleteRole: the role, whether anybody has it, and the rows.
BeginDeleteRole(e, i, r) ==
  /\ roleId[r] # 0
  /\ StartEdit(e, i, [pc |-> "count", at |-> i, role |-> r, id |-> roleId[r]])

\* Mutant of CountUsers: nobody is counted.
CountNobody(e) ==
  LET t == task[e] IN
  /\ t.pc = "count"
  /\ Becomes(e, [t EXCEPT !.pc = "drop"])
  /\ UNCHANGED <<rows, matrix, troubles, edits, solo, miscounted>>

CountUsers(e) ==
  LET t == task[e] IN
  /\ t.pc = "count"
  /\ Becomes(e, IF \E u \in Staff : account[u] = t.role THEN Idle
                ELSE [t EXCEPT !.pc = "drop"])
  /\ UNCHANGED <<rows, matrix, troubles, edits, solo, miscounted>>

\* The error of the count is not looked at: it reads as nobody.
CountFails(e) ==
  LET t == task[e] IN
  /\ t.pc = "count" /\ troubles < MaxTroubles
  /\ troubles' = troubles + 1
  /\ miscounted' = TRUE
  /\ Becomes(e, [t EXCEPT !.pc = "drop"])
  /\ UNCHANGED <<rows, matrix, edits, solo>>

DropRole(e) ==
  LET t == task[e] IN
  /\ t.pc = "drop"
  /\ IF roleId[t.role] = t.id
     THEN /\ roleId' = [roleId EXCEPT ![t.role] = 0]
          /\ grant' = [grant EXCEPT ![t.role] = NoGrants]
     ELSE UNCHANGED <<roleId, grant>>
  /\ Becomes(e, [pc |-> "names", at |-> t.at])
  /\ UNCHANGED <<account, stamp, matrix, troubles, edits, solo, miscounted>>

\* CreateUser and AdminUpdateUser: a role may be given when it has a row, or
\* ships with the code.
Assignable(r) == roleId[r] # 0 \/ r \in BuiltIn

BeginHire(e, i, u, r) ==
  /\ account[u] = "none" /\ Assignable(r)
  /\ StartEdit(e, i, [pc |-> "hire", at |-> i, role |-> r, user |-> u])

BeginPromote(e, i, u, r) ==
  /\ account[u] \in RoleNames /\ Assignable(r)
  /\ StartEdit(e, i, [pc |-> "promote", at |-> i, role |-> r, user |-> u])

\* E-mail addresses are unique; an UPDATE of a deleted account does nothing.
AssignRole(e) ==
  LET t == task[e] IN
  /\ t.pc \in {"hire", "promote"}
  /\ account' = IF account[t.user] \in
                     (IF t.pc = "hire" THEN {"none"} ELSE RoleNames)
                THEN [account EXCEPT ![t.user] = t.role] ELSE account
  /\ Becomes(e, Idle)
  /\ UNCHANGED <<roleId, grant, stamp, matrix, troubles, edits, solo, miscounted>>

\* AdminDeleteUser, as far as roles go: one transaction on the account.
DeleteUser(u) ==
  /\ account[u] \in RoleNames
  /\ account' = [account EXCEPT ![u] = "left"]
  /\ UNCHANGED <<roleId, grant, stamp, matrix, task, troubles, edits, solo, miscounted>>

-----------------------------------------------------------------------------
\* A statement of a handler or of a reload fails: the reload is skipped, an
\* open transaction is rolled back.  That a count fails is not noticed.
FailTask(x) ==
  /\ task[x] \notin {Idle, Gone} /\ task[x].pc \notin Booting \cup {"count"}
  /\ troubles < MaxTroubles
  /\ troubles' = troubles + 1
  /\ Becomes(x, Idle)
  /\ UNCHANGED <<rows, matrix, edits, solo, miscounted>>

\* A replica dies, booting or serving, and its handlers with it.
Die(i) ==
  /\ task[i] # Gone /\ troubles < MaxTroubles
  /\ troubles' = troubles + 1
  /\ matrix' = [matrix EXCEPT ![i] = Fallback]
  /\ task' = [x \in Replicas \cup Editors |->
                IF x = i THEN Boot
                ELSE IF x \in Editors /\ task[x] # Idle /\ task[x].at = i THEN Idle
                ELSE task[x]]
  /\ UNCHANGED <<rows, edits, solo, miscounted>>

ReplicaStep(i) ==
  SeedRole(i) \/ SeedWipe(i) \/ SeedGrant(i) \/ BeginLoad(i)
  \/ ReadNames(i) \/ ReadPerms(i) \/ Publish(i)

EditorStep(e) ==
  CreateRole(e) \/ ClearRole(e) \/ ReplaceGrants(e) \/ CountUsers(e)
  \/ DropRole(e) \/ AssignRole(e) \/ ReadNames(e) \/ ReadPerms(e) \/ Publish(e)

\* Mutant of BeginEditor: that a role is built in is not looked at.
BeginEditorOfAny(e, i) ==
  \/ \E r \in RoleNames : BeginDeleteRole(e, i, r)
  \/ \E r \in RoleNames, perms \in Asked : BeginUpdateRole(e, i, r, perms)
  \/ \E r \in Custom, perms \in Asked : BeginCreateRole(e, i, r, perms)
  \/ \E u \in Staff, r \in RoleNames : BeginHire(e, i, u, r) \/ BeginPromote(e, i, u, r)

\* Built-in roles are neither deleted nor given other permissions.
BeginEditor(e, i) ==
  \/ \E r \in Custom : BeginDeleteRole(e, i, r)
  \/ \E r \in Custom, perms \in Asked :
       BeginCreateRole(e, i, r, perms) \/ BeginUpdateRole(e, i, r, perms)
  \/ \E u \in Staff, r \in RoleNames : BeginHire(e, i, u, r) \/ BeginPromote(e, i, u, r)

RolesNext ==
  \/ \E i \in Replicas : ReplicaStep(i) \/ Die(i)
  \/ \E e \in Editors :
       EditorStep(e) \/ CountFails(e) \/ \E i \in Replicas : BeginEditor(e, i)
  \/ \E x \in Replicas \cup Editors : FailTask(x)
  \/ \E u \in Staff : DeleteUser(u)

RolesSpec == RolesInit /\ [][RolesNext]_rvars

\* Nobody makes a replica's own goroutine or a handler stop half-way; nobody has
\* to start a handler.
RolesFairSpec ==
  /\ RolesSpec
  /\ \A i \in Replicas : WF_rvars(ReplicaStep(i))
  /\ \A e \in Editors : WF_rvars(EditorStep(e))

-----------------------------------------------------------------------------
\* "A partial or corrupt load never locks everyone out" (LoadFromDB): whatever
\* is in the middle of being seeded or edited when a replica loads, it answers
\* from a matrix in which super admins can read users.
SuperAdminStays == \A i \in Replicas : UsersRead \in matrix[i][SuperAdmin]

\* "Idempotent and safe to run on every boot" (seed.Roles): replicas that boot
\* at once get in each other's way, and some boots end half-way, but once every
\* boot has been brought to its end the built-in roles hold what the code says.
SeedingHeals ==
  (\A i \in Replicas : Serving(i)) =>
    \A r \in BuiltIn : roleId[r] # 0 /\ Held(r) = BuiltInGrants[r]

\* While handlers run one after another, an account's role can be looked up: no
\* role is deleted from under a user, whatever else fails (DeleteRole,
\* roleAssignable).  A count of the users that fails reads as none, and then it is.
AssignedRolesExistInTurn ==
  solo /\ ~miscounted => \A u \in Staff : account[u] \in RoleNames => Assignable(account[u])

\* "Eventually consistent across replicas" (ARCHITECTURE.md, StartCacheRefresher):
\* when edits and failures have ceased every replica settles on what the rows
\* say, though a reload that read earlier may publish later.
CachesConverge ==
  <>[](UsersRead \in Held(SuperAdmin) =>
         \A i \in Replicas : Serving(i) => matrix[i] = [r \in RoleNames |-> Held(r)])
=============================================================================
