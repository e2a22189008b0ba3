----------------------------- MODULE RolesProofs -----------------------------
(***************************************************************************)
(* The permission matrix stays usable and heals, and roles in use exist,   *)
(* for any number of replicas, roles, permissions, accounts and editors.   *)
(***************************************************************************)
EXTENDS Roles, TLAPS

Tasks == Replicas \cup Editors

EditorPcs == {"create", "clear", "replace", "count", "drop", "hire", "promote"}
LoadPcs == {"names", "perms", "publish"}

\* What the locals of a step hold.
LEMMA TaskHolds ==
  ASSUME NEW t \in Task
  PROVE  /\ t.pc \in {"idle", "gone"} \cup Booting \cup LoadPcs \cup EditorPcs
         /\ t.pc = "idle" => t = Idle
         /\ t.pc = "gone" => t = Gone
         /\ t.pc \in {"role", "wipe", "grant"} => t.left \in SUBSET BuiltIn
         /\ t.pc \in {"wipe", "grant"} => t.role \in BuiltIn
         /\ t.pc = "grant" => t.todo \in SUBSET Perms
         /\ t.pc \in LoadPcs \cup EditorPcs => t.at \in Replicas
         /\ t.pc = "perms" => t.ids \in [RoleNames -> Nat]
         /\ t.pc = "publish" => t.fresh \in [RoleNames -> SUBSET Perms]
         /\ t.pc \in {"create", "clear", "replace"} => t.perms \in Asked
         /\ t.pc \in {"create", "clear", "replace", "count", "drop"} => t.role \in Custom
         /\ t.pc \in {"clear", "replace", "count", "drop"} => t.id \in Nat
         /\ t.pc = "replace" => t.seen \in [Perms -> Nat]
         /\ t.pc \in {"hire", "promote"} => t.role \in RoleNames /\ t.user \in Staff
         /\ t.pc = "grant" => [t EXCEPT !.todo = {}] \in Task
BY DEF Task, Booting, LoadPcs, EditorPcs, Idle, Gone

LEMMA OneBecomes ==
  ASSUME task \in [Tasks -> Task], NEW x \in Tasks, NEW t, Becomes(x, t)
  PROVE  /\ task'[x] = t /\ \A y \in Tasks \ {x} : task'[y] = task[y]
         /\ t \in Task => task' \in [Tasks -> Task]
BY DEF Becomes

LEMMA SmallTasks ==
  /\ Idle \in Task /\ Gone \in Task /\ Boot \in Task
  /\ \A i \in Replicas : [pc |-> "names", at |-> i] \in Task
BY DEF Idle, Gone, Boot, Task

LEMMA Matrices ==
  /\ Fallback \in [RoleNames -> SUBSET Perms]
  /\ UsersRead \in Fallback[SuperAdmin]
  /\ SuperAdmin \in RoleNames /\ BuiltIn \subseteq RoleNames /\ Custom \subseteq RoleNames
  /\ \A r \in BuiltIn : BuiltInGrants[r] \in SUBSET Perms
  /\ \A perms \in Asked : perms \in SUBSET Perms
  /\ NoGrants \in [Perms -> Nat]
BY RolesBounds DEF Fallback, RoleNames, NoGrants

\* A grant that is held is of a permission there is.
LEMMA HeldPerms == \A r : Held(r) \in SUBSET Perms
BY DEF Held

LEMMA TypesUnpacked ==
  ASSUME RolesTypeOK
  PROVE  /\ roleId \in [RoleNames -> Nat] /\ grant \in [RoleNames -> [Perms -> Nat]]
         /\ account \in [Staff -> RoleNames \cup {"none", "left"}]
         /\ matrix \in [Replicas -> [RoleNames -> SUBSET Perms]]
         /\ task \in [Tasks -> Task] /\ \A x \in Tasks : task[x] \in Task
         /\ stamp \in Nat /\ troubles \in 0 .. MaxTroubles /\ edits \in 0 .. MaxEdits
         /\ solo \in BOOLEAN /\ miscounted \in BOOLEAN /\ MaxTroubles \in Nat /\ MaxEdits \in Nat
BY RolesBounds DEF RolesTypeOK, Tasks

\* The locals of one step change, and no row.
LEMMA LocalsTypeOK ==
  ASSUME RolesTypeOK, NEW x \in Tasks, NEW t \in Task, Becomes(x, t),
         UNCHANGED <<rows, matrix, troubles, edits, solo, miscounted>>
  PROVE  RolesTypeOK'
BY OneBecomes, TypesUnpacked DEF RolesTypeOK, Tasks, rows

LEMMA SeedRoleTypeOK ==
  ASSUME RolesTypeOK, NEW i \in Replicas, SeedRole(i)
  PROVE  RolesTypeOK'
<1>1. task[i] \in Task /\ task[i].pc = "role" /\ task[i].left \in SUBSET BuiltIn /\ i \in Tasks
  BY TypesUnpacked, TaskHolds DEF SeedRole, Tasks
<1>2. UNCHANGED <<grant, account, stamp, matrix, troubles, edits, solo, miscounted>>
  BY DEF SeedRole
<1>3. CASE Becomes(i, [pc |-> "load"]) /\ UNCHANGED roleId
  <2>1. [pc |-> "load"] \in Task
    BY DEF Task
  <2>2. QED
    BY <1>1, <1>2, <1>3, <2>1, LocalsTypeOK DEF rows
<1>4. ASSUME NEW r \in task[i].left,
             IF roleId[r] = 0 THEN roleId' = [roleId EXCEPT ![r] = Seeded] ELSE UNCHANGED roleId,
             Becomes(i, [pc |-> "wipe", left |-> task[i].left \ {r}, role |-> r])
      PROVE  RolesTypeOK'
  <2>1. [pc |-> "wipe", left |-> task[i].left \ {r}, role |-> r] \in Task
    BY <1>1, <1>4 DEF Task
  <2>2. roleId' \in [RoleNames -> Nat]
    BY <1>1, <1>4, TypesUnpacked DEF Seeded
  <2>3. task' \in [Tasks -> Task]
    BY <1>1, <1>4, <2>1, OneBecomes, TypesUnpacked
  <2>4. QED
    BY <1>2, <2>2, <2>3 DEF RolesTypeOK, Tasks
<1>5. QED
  BY <1>3, <1>4 DEF SeedRole

LEMMA SeedWipeTypeOK ==
  ASSUME RolesTypeOK, NEW i \in Replicas, SeedWipe(i)
  PROVE  RolesTypeOK'
<1>1. PICK left \in SUBSET BuiltIn, r \in BuiltIn : left = task[i].left /\ r = task[i].role
  BY TypesUnpacked, TaskHolds DEF SeedWipe, Tasks
<1> DEFINE t == [pc |-> "grant", left |-> left, role |-> r, todo |-> BuiltInGrants[r]]
<1>2. /\ grant' = [grant EXCEPT ![r] = NoGrants] /\ Becomes(i, t)
      /\ UNCHANGED <<roleId, account, stamp, matrix, troubles, edits, solo, miscounted>>
  BY <1>1 DEF SeedWipe
<1>3. t \in Task
  BY <1>1, Matrices DEF Task
<1>4. task' \in [Tasks -> Task]
  BY <1>2, <1>3, OneBecomes, TypesUnpacked DEF Tasks
<1>5. grant' \in [RoleNames -> [Perms -> Nat]]
  BY <1>2, Matrices, TypesUnpacked
<1>6. QED
  BY <1>2, <1>4, <1>5 DEF RolesTypeOK, Tasks

LEMMA RestartEffect ==
  ASSUME RolesTypeOK, NEW i \in Replicas, Restart(i)
  PROVE  /\ troubles' \in 0 .. MaxTroubles
         /\ matrix' = [matrix EXCEPT ![i] = Fallback]
         /\ matrix' \in [Replicas -> [RoleNames -> SUBSET Perms]]
         /\ Becomes(i, Boot) \/ Becomes(i, Gone)
         /\ task' \in [Tasks -> Task]
<1>1. matrix' = [matrix EXCEPT ![i] = Fallback]
  BY DEF Restart
<1>2. matrix' \in [Replicas -> [RoleNames -> SUBSET Perms]]
  BY <1>1, Matrices, TypesUnpacked
<1>3. troubles' \in 0 .. MaxTroubles
  BY TypesUnpacked DEF Restart
<1>4. Becomes(i, Boot) \/ Becomes(i, Gone)
  BY DEF Restart
<1>5. task' \in [Tasks -> Task]
  BY <1>4, SmallTasks, OneBecomes, TypesUnpacked DEF Tasks
<1>6. QED
  BY <1>1, <1>2, <1>3, <1>4, <1>5

\* What seeding one grant does: it is stored, or was there and ends the boot.
LEMMA SeedGrantEffect ==
  ASSUME RolesTypeOK, NEW i \in Replicas, SeedGrant(i)
  PROVE  \E left \in SUBSET BuiltIn, r \in BuiltIn, todo \in SUBSET Perms :
           /\ task[i].pc = "grant" /\ left = task[i].left /\ r = task[i].role
           /\ todo = task[i].todo
           /\ UNCHANGED <<roleId, account, stamp, edits, solo, miscounted>>
           /\ \/ /\ todo = {} /\ Becomes(i, [pc |-> "role", left |-> left])
                 /\ UNCHANGED <<grant, matrix, troubles>>
              \/ \E p \in todo :
                   /\ grant' = [grant EXCEPT ![r][p] = Seeded]
                   /\ Becomes(i, [pc |-> "grant", left |-> left, role |-> r,
                                  todo |-> todo \ {p}])
                   /\ UNCHANGED <<matrix, troubles>>
              \/ Restart(i) /\ UNCHANGED grant
<1>1. task[i] \in Task /\ task[i].pc = "grant"
  BY TypesUnpacked DEF SeedGrant, Tasks
<1>2. /\ task[i].left \in SUBSET BuiltIn /\ task[i].role \in BuiltIn
      /\ task[i].todo \in SUBSET Perms
  BY <1>1, TaskHolds
<1>3. task[i] \in [pc : {"grant"}, left : SUBSET BuiltIn, role : BuiltIn, todo : SUBSET Perms]
  BY <1>1 DEF Task
<1>4. PICK left \in SUBSET BuiltIn, r \in BuiltIn, todo \in SUBSET Perms :
        task[i] = [pc |-> "grant", left |-> left, role |-> r, todo |-> todo]
  BY <1>3
<1>5. task[i].left = left /\ task[i].role = r /\ task[i].todo = todo
  BY <1>4
<1>6. \A p : [task[i] EXCEPT !.todo = @ \ {p}] =
               [pc |-> "grant", left |-> left, role |-> r, todo |-> todo \ {p}]
  BY <1>4
<1>7. UNCHANGED <<roleId, account, stamp, edits, solo, miscounted>>
  BY DEF SeedGrant
<1>8. \/ /\ task[i].todo = {} /\ Becomes(i, [pc |-> "role", left |-> task[i].left])
         /\ UNCHANGED <<grant, matrix, troubles>>
      \/ \E p \in task[i].todo :
           /\ grant' = [grant EXCEPT ![task[i].role][p] = Seeded]
           /\ Becomes(i, [task[i] EXCEPT !.todo = @ \ {p}])
           /\ UNCHANGED <<matrix, troubles>>
      \/ Restart(i) /\ UNCHANGED grant
  BY DEF SeedGrant
<1>9. CASE \E p \in task[i].todo :
             /\ grant' = [grant EXCEPT ![task[i].role][p] = Seeded]
             /\ Becomes(i, [task[i] EXCEPT !.todo = @ \ {p}])
             /\ UNCHANGED <<matrix, troubles>>
  <2>1. PICK p \in task[i].todo :
          /\ grant' = [grant EXCEPT ![task[i].role][p] = Seeded]
          /\ Becomes(i, [task[i] EXCEPT !.todo = @ \ {p}])
          /\ UNCHANGED <<matrix, troubles>>
    BY <1>9
  <2>2. /\ p \in todo /\ grant' = [grant EXCEPT ![r][p] = Seeded]
        /\ UNCHANGED <<matrix, troubles>>
    BY <1>5, <2>1
  <2>3. Becomes(i, [pc |-> "grant", left |-> left, role |-> r, todo |-> todo \ {p}])
    BY <1>6, <2>1
  <2>4. QED
    BY <1>1, <1>5, <1>7, <2>2, <2>3
<1>10. CASE Restart(i) /\ UNCHANGED grant
  BY <1>1, <1>5, <1>7, <1>10
<1>11. CASE /\ task[i].todo = {} /\ Becomes(i, [pc |-> "role", left |-> task[i].left])
            /\ UNCHANGED <<grant, matrix, troubles>>
  BY <1>1, <1>5, <1>7, <1>11
<1>12. QED
  BY <1>8, <1>9, <1>10, <1>11

LEMMA SeedGrantTypeOK ==
  ASSUME RolesTypeOK, NEW i \in Replicas, SeedGrant(i)
  PROVE  RolesTypeOK'
<1>1. PICK left \in SUBSET BuiltIn, r \in BuiltIn, todo \in SUBSET Perms :
           /\ UNCHANGED <<roleId, account, stamp, edits, solo, miscounted>>
           /\ \/ /\ todo = {} /\ Becomes(i, [pc |-> "role", left |-> left])
                 /\ UNCHANGED <<grant, matrix, troubles>>
              \/ \E p \in todo :
                   /\ grant' = [grant EXCEPT ![r][p] = Seeded]
                   /\ Becomes(i, [pc |-> "grant", left |-> left, role |-> r,
                                  todo |-> todo \ {p}])
                   /\ UNCHANGED <<matrix, troubles>>
              \/ Restart(i) /\ UNCHANGED grant
  BY SeedGrantEffect
<1>2. CASE /\ Becomes(i, [pc |-> "role", left |-> left])
           /\ UNCHANGED <<grant, matrix, troubles>>
  <2>1. [pc |-> "role", left |-> left] \in Task
    BY DEF Task
  <2>2. QED
    BY <1>1, <1>2, <2>1, LocalsTypeOK DEF Tasks, rows
<1>3. ASSUME NEW p \in todo, grant' = [grant EXCEPT ![r][p] = Seeded],
             Becomes(i, [pc |-> "grant", left |-> left, role |-> r, todo |-> todo \ {p}]),
             UNCHANGED <<matrix, troubles>>
      PROVE  RolesTypeOK'
  <2>1. [pc |-> "grant", left |-> left, role |-> r, todo |-> todo \ {p}] \in Task
    BY DEF Task
  <2>2. task' \in [Tasks -> Task]
    BY <1>3, <2>1, OneBecomes, TypesUnpacked DEF Tasks
  <2>3. grant' \in [RoleNames -> [Perms -> Nat]]
    BY <1>3, Matrices, TypesUnpacked DEF Seeded
  <2>4. QED
    BY <1>1, <1>3, <2>2, <2>3 DEF RolesTypeOK, Tasks
<1>4. CASE Restart(i) /\ UNCHANGED grant
  BY <1>1, <1>4, RestartEffect DEF RolesTypeOK, Tasks
<1>5. QED
  BY <1>1, <1>2, <1>3, <1>4

LEMMA LoadTypeOK ==
  ASSUME RolesTypeOK, NEW x \in Tasks, ReadNames(x) \/ ReadPerms(x) \/ Publish(x)
  PROVE  RolesTypeOK'
<1>1. /\ task[x] \in Task /\ task[x].at \in Replicas
  BY TypesUnpacked, TaskHolds DEF ReadNames, ReadPerms, Publish, LoadPcs
<1>2. CASE ReadNames(x)
  <2>1. [pc |-> "perms", at |-> task[x].at, ids |-> roleId] \in Task
    BY <1>1, TypesUnpacked DEF Task
  <2>2. QED
    BY <1>2, <2>1, LocalsTypeOK DEF ReadNames
<1>3. CASE ReadPerms(x)
  <2> DEFINE fresh == [r \in RoleNames |->
               IF task[x].ids[r] # 0 /\ task[x].ids[r] = roleId[r] THEN Held(r) ELSE {}]
  <2>1. fresh \in [RoleNames -> SUBSET Perms]
    BY HeldPerms
  <2>2. Becomes(x, [pc |-> "publish", at |-> task[x].at, fresh |-> fresh])
        /\ UNCHANGED <<rows, matrix, troubles, edits, solo, miscounted>>
    BY <1>3 DEF ReadPerms
  <2> HIDE DEF fresh
  <2>3. [pc |-> "publish", at |-> task[x].at, fresh |-> fresh] \in Task
    BY <1>1, <2>1 DEF Task
  <2>4. QED
    BY <2>2, <2>3, LocalsTypeOK
<1>4. CASE Publish(x)
  <2>1. task[x].fresh \in [RoleNames -> SUBSET Perms]
    BY <1>1, <1>4, TaskHolds DEF Publish
  <2>2. matrix' \in [Replicas -> [RoleNames -> SUBSET Perms]]
    BY <1>1, <1>4, <2>1, TypesUnpacked DEF Publish
  <2>3. task' \in [Tasks -> Task]
    BY <1>4, SmallTasks, OneBecomes, TypesUnpacked DEF Publish
  <2>4. QED
    BY <1>4, <2>2, <2>3 DEF RolesTypeOK, Publish, rows, Tasks
<1>5. QED
  BY <1>2, <1>3, <1>4

LEMMA BeginLoadTypeOK ==
  ASSUME RolesTypeOK, NEW i \in Replicas, BeginLoad(i)
  PROVE  RolesTypeOK'
BY SmallTasks, LocalsTypeOK DEF BeginLoad, Tasks

\* What starting a handler does.
LEMMA StartTypeOK ==
  ASSUME RolesTypeOK, NEW e \in Editors, NEW i \in Replicas, NEW t \in Task, StartEdit(e, i, t)
  PROVE  RolesTypeOK'
<1>1. task' \in [Tasks -> Task]
  BY OneBecomes, TypesUnpacked DEF StartEdit, Tasks
<1>2. edits' \in 0 .. MaxEdits /\ solo' \in BOOLEAN
  BY TypesUnpacked DEF StartEdit
<1>3. QED
  BY <1>1, <1>2 DEF RolesTypeOK, StartEdit, rows, Tasks

\* Every handler that starts is given locals of its own, at the replica that runs it.
LEMMA BeginStarts ==
  ASSUME RolesTypeOK, NEW e \in Editors, NEW i \in Replicas, BeginEditor(e, i)
  PROVE  \E t \in Task :
           /\ StartEdit(e, i, t) /\ t.pc \in EditorPcs \ {"drop"} /\ t.at = i
           /\ t.pc \in {"hire", "promote"} => Assignable(t.role)
<1>1. ASSUME NEW r \in Custom, BeginDeleteRole(e, i, r)
      PROVE  \E t \in Task :
           /\ StartEdit(e, i, t) /\ t.pc \in EditorPcs \ {"drop"} /\ t.at = i
           /\ t.pc \in {"hire", "promote"} => Assignable(t.role)
  <2>1. roleId[r] \in Nat
    BY TypesUnpacked, Matrices
  <2> DEFINE t == [pc |-> "count", at |-> i, role |-> r, id |-> roleId[r]]
  <2>2. t \in Task
    BY <2>1 DEF Task
  <2>3. StartEdit(e, i, t)
    BY <1>1 DEF BeginDeleteRole
  <2>4. QED
    BY <2>2, <2>3 DEF EditorPcs
<1>2. ASSUME NEW r \in Custom, NEW perms \in Asked, BeginCreateRole(e, i, r, perms)
      PROVE  \E t \in Task :
           /\ StartEdit(e, i, t) /\ t.pc \in EditorPcs \ {"drop"} /\ t.at = i
           /\ t.pc \in {"hire", "promote"} => Assignable(t.role)
  <2> DEFINE t == [pc |-> "create", at |-> i, role |-> r, perms |-> perms]
  <2>1. t \in Task
    BY DEF Task
  <2>2. StartEdit(e, i, t)
    BY <1>2 DEF BeginCreateRole
  <2>3. QED
    BY <2>1, <2>2 DEF EditorPcs
<1>3. ASSUME NEW r \in Custom, NEW perms \in Asked, BeginUpdateRole(e, i, r, perms)
      PROVE  \E t \in Task :
           /\ StartEdit(e, i, t) /\ t.pc \in EditorPcs \ {"drop"} /\ t.at = i
           /\ t.pc \in {"hire", "promote"} => Assignable(t.role)
  <2>1. roleId[r] \in Nat
    BY TypesUnpacked, Matrices
  <2> DEFINE t == [pc |-> "clear", at |-> i, role |-> r, id |-> roleId[r], perms |-> perms]
  <2>2. t \in Task
    BY <2>1 DEF Task
  <2>3. StartEdit(e, i, t)
    BY <1>3 DEF BeginUpdateRole
  <2>4. QED
    BY <2>2, <2>3 DEF EditorPcs
<1>4. ASSUME NEW u \in Staff, NEW r \in RoleNames, NEW pc \in {"hire", "promote"},
             Assignable(r), StartEdit(e, i, [pc |-> pc, at |-> i, role |-> r, user |-> u])
      PROVE  \E t \in Task :
           /\ StartEdit(e, i, t) /\ t.pc \in EditorPcs \ {"drop"} /\ t.at = i
           /\ t.pc \in {"hire", "promote"} => Assignable(t.role)
  <2> DEFINE t == [pc |-> pc, at |-> i, role |-> r, user |-> u]
  <2>1. t \in Task
    BY DEF Task
  <2>2. QED
    BY <1>4, <2>1 DEF EditorPcs
<1>5. ASSUME NEW u \in Staff, NEW r \in RoleNames,
             BeginHire(e, i, u, r) \/ BeginPromote(e, i, u, r)
      PROVE  \E t \in Task :
           /\ StartEdit(e, i, t) /\ t.pc \in EditorPcs \ {"drop"} /\ t.at = i
           /\ t.pc \in {"hire", "promote"} => Assignable(t.role)
  BY <1>4, <1>5 DEF BeginHire, BeginPromote
<1>6. QED
  BY <1>1, <1>2, <1>3, <1>5 DEF BeginEditor

\* What a handler writes: the rows of the one custom role it is about.
LEMMA WriteEffect ==
  ASSUME RolesTypeOK, NEW e \in Editors, CreateRole(e) \/ ReplaceGrants(e) \/ DropRole(e)
  PROVE  \E r \in Custom, t \in Task :
           /\ r = task[e].role /\ Becomes(e, t) /\ t.pc \in {"idle", "names"}
           /\ roleId' \in [RoleNames -> Nat] /\ grant' \in [RoleNames -> [Perms -> Nat]]
           /\ stamp' \in Nat
           /\ \A q \in RoleNames \ {r} : roleId'[q] = roleId[q] /\ grant'[q] = grant[q]
           /\ task[e].pc # "drop" /\ roleId[r] # 0 => roleId'[r] # 0
           /\ task[e].pc \in {"create", "replace", "drop"}
           /\ UNCHANGED <<account, matrix, troubles, edits, solo, miscounted>>
<1>1. /\ task[e] \in Task /\ task[e].at \in Replicas /\ task[e].role \in Custom
      /\ task[e].pc \in {"create", "replace", "drop"}
  BY TypesUnpacked, TaskHolds DEF CreateRole, ReplaceGrants, DropRole, Tasks, EditorPcs
<1>2. PICK r \in Custom, i \in Replicas : r = task[e].role /\ i = task[e].at
  BY <1>1
<1>3. r \in RoleNames /\ stamp \in Nat /\ stamp + 1 \in Nat
  BY Matrices, TypesUnpacked
<1> DEFINE load == [pc |-> "names", at |-> i]
<1>4. load \in Task /\ Idle \in Task /\ load.pc = "names" /\ Idle.pc = "idle"
  BY SmallTasks DEF Idle
<1>5. CASE CreateRole(e)
  <2>1. CASE /\ roleId[r] = 0
             /\ roleId' = [roleId EXCEPT ![r] = stamp + 1]
             /\ grant' = [grant EXCEPT ![r] =
                            [p \in Perms |-> IF p \in task[e].perms THEN stamp + 1 ELSE 0]]
             /\ stamp' = stamp + 1
             /\ Becomes(e, load)
    <3>1. [p \in Perms |-> IF p \in task[e].perms THEN stamp + 1 ELSE 0] \in [Perms -> Nat]
      BY <1>3
    <3>2. /\ roleId' \in [RoleNames -> Nat] /\ grant' \in [RoleNames -> [Perms -> Nat]]
          /\ stamp' \in Nat
          /\ \A q \in RoleNames \ {r} : roleId'[q] = roleId[q] /\ grant'[q] = grant[q]
      BY <1>3, <2>1, <3>1, TypesUnpacked
    <3>3. UNCHANGED <<account, matrix, troubles, edits, solo, miscounted>>
      BY <1>5 DEF CreateRole
    <3>4. QED
      BY <1>1, <1>2, <1>4, <2>1, <3>2, <3>3
  <2>2. CASE roleId[r] # 0 /\ Becomes(e, Idle) /\ UNCHANGED <<roleId, grant, stamp>>
    BY <1>1, <1>2, <1>3, <1>4, <1>5, <2>2, TypesUnpacked DEF CreateRole
  <2>3. QED
    BY <1>2, <1>5, <2>1, <2>2 DEF CreateRole
<1>6. CASE ReplaceGrants(e)
  <2> DEFINE stay == {p \in Held(r) : grant[r][p] # task[e].seen[p]}
             rest == [grant EXCEPT ![r] =
                        [p \in Perms |-> IF p \in task[e].perms THEN stamp + 1
                                         ELSE IF p \in stay THEN @[p] ELSE 0]]
  <2>1. UNCHANGED <<roleId, account, matrix, troubles, edits, solo, miscounted>>
    BY <1>6 DEF ReplaceGrants
  <2>2. \/ grant' = rest /\ stamp' = stamp + 1 /\ Becomes(e, load)
        \/ Becomes(e, load) /\ UNCHANGED <<grant, stamp>>
        \/ Becomes(e, Idle) /\ UNCHANGED <<grant, stamp>>
    BY <1>2, <1>6 DEF ReplaceGrants
  <2>3. rest \in [RoleNames -> [Perms -> Nat]]
        /\ \A q \in RoleNames \ {r} : rest[q] = grant[q]
    <3>1. grant \in [RoleNames -> [Perms -> Nat]] /\ grant[r] \in [Perms -> Nat]
      BY <1>3, TypesUnpacked
    <3>2. [p \in Perms |-> IF p \in task[e].perms THEN stamp + 1
                           ELSE IF p \in stay THEN grant[r][p] ELSE 0] \in [Perms -> Nat]
      BY <1>3, <3>1
    <3>3. QED
      BY <1>3, <3>1, <3>2
  <2> HIDE DEF rest
  <2>4. /\ grant' \in [RoleNames -> [Perms -> Nat]] /\ stamp' \in Nat
        /\ \A q \in RoleNames \ {r} : grant'[q] = grant[q]
        /\ Becomes(e, load) \/ Becomes(e, Idle)
    BY <1>3, <2>2, <2>3, TypesUnpacked
  <2>5. QED
    BY <1>1, <1>2, <1>4, <2>1, <2>4, TypesUnpacked
<1>7. CASE DropRole(e)
  <2>1. /\ roleId' \in [RoleNames -> Nat] /\ grant' \in [RoleNames -> [Perms -> Nat]]
        /\ \A q \in RoleNames \ {r} : roleId'[q] = roleId[q] /\ grant'[q] = grant[q]
    <3>1. \/ /\ roleId' = [roleId EXCEPT ![r] = 0]
             /\ grant' = [grant EXCEPT ![r] = NoGrants]
          \/ UNCHANGED <<roleId, grant>>
      BY <1>2, <1>7 DEF DropRole
    <3>2. /\ roleId \in [RoleNames -> Nat] /\ grant \in [RoleNames -> [Perms -> Nat]]
          /\ NoGrants \in [Perms -> Nat]
      BY Matrices, TypesUnpacked
    <3>3. QED
      BY <1>3, <3>1, <3>2
  <2>2. Becomes(e, load) /\ UNCHANGED <<account, stamp, matrix, troubles, edits, solo, miscounted>>
    BY <1>2, <1>7 DEF DropRole
  <2>3. task[e].pc = "drop"
    BY <1>7 DEF DropRole
  <2>4. QED
    BY <1>1, <1>2, <1>3, <1>4, <2>1, <2>2, <2>3
<1>8. QED
  BY <1>5, <1>6, <1>7

\* What a handler does between its first read and its write.
LEMMA ThinkEffect ==
  ASSUME RolesTypeOK, NEW e \in Editors, ClearRole(e) \/ CountUsers(e)
  PROVE  \E t \in Task :
           /\ Becomes(e, t) /\ t.pc \in {"idle", "replace", "drop"}
           /\ t.pc = "drop" => \A u \in Staff : account[u] # t.role
           /\ task[e].pc \in {"clear", "count"}
           /\ UNCHANGED <<rows, matrix, troubles, edits, solo, miscounted>>
<1>1. task[e] \in Task
  BY TypesUnpacked DEF Tasks
<1>2. CASE ClearRole(e)
  <2>1. /\ task[e].pc = "clear" /\ task[e].at \in Replicas /\ task[e].role \in Custom
        /\ task[e].id \in Nat /\ task[e].perms \in Asked
    BY <1>1, <1>2, TaskHolds DEF ClearRole, EditorPcs
  <2> DEFINE seen == IF roleId[task[e].role] = task[e].id THEN grant[task[e].role] ELSE NoGrants
             t == [pc |-> "replace", at |-> task[e].at, role |-> task[e].role,
                   id |-> task[e].id, perms |-> task[e].perms, seen |-> seen]
  <2>2. seen \in [Perms -> Nat]
    BY <2>1, Matrices, TypesUnpacked
  <2>3. t.pc = "replace" /\ Becomes(e, t) /\ UNCHANGED <<rows, matrix, troubles, edits, solo, miscounted>>
    BY <1>2 DEF ClearRole
  <2> HIDE DEF seen
  <2>4. t \in Task
    BY <2>1, <2>2 DEF Task
  <2>5. QED
    BY <2>1, <2>3, <2>4
<1>3. CASE CountUsers(e)
  <2>1. task[e].pc = "count" /\ UNCHANGED <<rows, matrix, troubles, edits, solo, miscounted>>
    BY <1>3 DEF CountUsers
  <2>2. PICK at \in Replicas, r \in Custom, id \in Nat :
          task[e] = [pc |-> "count", at |-> at, role |-> r, id |-> id]
    <3>1. task[e] \in [pc : {"count", "drop"}, at : Replicas, role : Custom, id : Nat]
      BY <1>1, <2>1 DEF Task
    <3>2. QED
      BY <2>1, <3>1
  <2> DEFINE t == [pc |-> "drop", at |-> at, role |-> r, id |-> id]
  <2>3. t = [task[e] EXCEPT !.pc = "drop"] /\ t \in Task /\ t.pc = "drop" /\ t.role = r
        /\ task[e].role = r
    BY <2>2 DEF Task
  <2>4. CASE \E u \in Staff : account[u] = task[e].role
    <3>1. Becomes(e, Idle) /\ Idle \in Task /\ Idle.pc = "idle"
      BY <1>3, <2>4, SmallTasks DEF CountUsers, Idle
    <3>2. QED
      BY <2>1, <3>1
  <2>5. CASE ~ \E u \in Staff : account[u] = task[e].role
    <3>1. Becomes(e, t)
      BY <1>3, <2>3, <2>5 DEF CountUsers
    <3>2. QED
      BY <2>1, <2>3, <2>5, <3>1
  <2>6. QED
    BY <2>4, <2>5
<1>4. QED
  BY <1>2, <1>3

\* What a count that fails does: the role will be dropped, whoever has it.
LEMMA CountFailsEffect ==
  ASSUME RolesTypeOK, NEW e \in Editors, CountFails(e)
  PROVE  \E t \in Task :
           /\ Becomes(e, t) /\ miscounted' = TRUE /\ troubles' \in 0 .. MaxTroubles
           /\ UNCHANGED <<rows, matrix, edits, solo>>
<1>1. /\ task[e].pc = "count" /\ troubles < MaxTroubles /\ troubles' = troubles + 1
      /\ miscounted' = TRUE /\ Becomes(e, [task[e] EXCEPT !.pc = "drop"])
      /\ UNCHANGED <<rows, matrix, edits, solo>>
  BY DEF CountFails
<1>2. task[e] \in [pc : {"count", "drop"}, at : Replicas, role : Custom, id : Nat]
  BY <1>1, TypesUnpacked DEF Tasks, Task
<1>3. [task[e] EXCEPT !.pc = "drop"] \in Task
  BY <1>2 DEF Task
<1>4. troubles' \in 0 .. MaxTroubles
  BY <1>1, TypesUnpacked
<1>5. QED
  BY <1>1, <1>3, <1>4

LEMMA AssignEffect ==
  ASSUME RolesTypeOK, NEW e \in Editors, AssignRole(e)
  PROVE  /\ account' \in [Staff -> RoleNames \cup {"none", "left"}]
         /\ \A u \in Staff : account'[u] \in {account[u], task[e].role}
         /\ Becomes(e, Idle) /\ task[e].pc \in {"hire", "promote"}
         /\ task[e].role \in RoleNames
         /\ UNCHANGED <<roleId, grant, stamp, matrix, troubles, edits, solo, miscounted>>
<1>1. task[e] \in Task /\ task[e].pc \in {"hire", "promote"}
  BY TypesUnpacked DEF AssignRole, Tasks
<1>2. task[e].role \in RoleNames /\ task[e].user \in Staff
  BY <1>1, TaskHolds
<1>3. account' = account \/ account' = [account EXCEPT ![task[e].user] = task[e].role]
  BY DEF AssignRole
<1>4. /\ account' \in [Staff -> RoleNames \cup {"none", "left"}]
      /\ \A u \in Staff : account'[u] \in {account[u], task[e].role}
  BY <1>2, <1>3, TypesUnpacked
<1>5. QED
  BY <1>1, <1>2, <1>4 DEF AssignRole

LEMMA DieEffect ==
  ASSUME RolesTypeOK, NEW i \in Replicas, Die(i)
  PROVE  /\ task'[i] = Boot /\ task' \in [Tasks -> Task]
         /\ \A j \in Replicas \ {i} : task'[j] = task[j]
         /\ \A e \in Editors : task'[e] \in {Idle, task[e]}
         /\ matrix' = [matrix EXCEPT ![i] = Fallback]
         /\ matrix' \in [Replicas -> [RoleNames -> SUBSET Perms]]
         /\ troubles' \in 0 .. MaxTroubles
         /\ UNCHANGED <<rows, edits, solo, miscounted>>
<1>1. /\ matrix' = [matrix EXCEPT ![i] = Fallback] /\ UNCHANGED <<rows, edits, solo, miscounted>>
      /\ troubles' = troubles + 1 /\ troubles < MaxTroubles
      /\ task' = [x \in Replicas \cup Editors |->
                    IF x = i THEN Boot
                    ELSE IF x \in Editors /\ task[x] # Idle /\ task[x].at = i THEN Idle
                    ELSE task[x]]
  BY DEF Die
<1>2. matrix' \in [Replicas -> [RoleNames -> SUBSET Perms]]
  BY <1>1, Matrices, TypesUnpacked
<1>3. troubles' \in 0 .. MaxTroubles
  BY <1>1, TypesUnpacked
<1>4. /\ task'[i] = Boot /\ task' \in [Tasks -> Task]
      /\ \A j \in Replicas \ {i} : task'[j] = task[j]
      /\ \A e \in Editors : task'[e] \in {Idle, task[e]}
  BY <1>1, SmallTasks, TypesUnpacked, RolesBounds DEF Tasks
<1>5. QED
  BY <1>1, <1>2, <1>3, <1>4

LEMMA EditTypeOK ==
  ASSUME RolesTypeOK, NEW e \in Editors,
         CreateRole(e) \/ ReplaceGrants(e) \/ DropRole(e) \/ ClearRole(e) \/ CountUsers(e)
           \/ AssignRole(e)
  PROVE  RolesTypeOK'
<1>1. e \in Tasks /\ Idle \in Task
  BY SmallTasks DEF Tasks
<1>2. CASE CreateRole(e) \/ ReplaceGrants(e) \/ DropRole(e)
  BY <1>1, <1>2, WriteEffect, OneBecomes, TypesUnpacked DEF RolesTypeOK, Tasks
<1>3. CASE ClearRole(e) \/ CountUsers(e)
  BY <1>1, <1>3, ThinkEffect, LocalsTypeOK
<1>4. CASE AssignRole(e)
  BY <1>1, <1>4, AssignEffect, OneBecomes, TypesUnpacked DEF RolesTypeOK, Tasks
<1>5. QED
  BY <1>2, <1>3, <1>4

LEMMA OtherTypeOK ==
  ASSUME RolesTypeOK,
         \/ \E x \in Tasks : FailTask(x)
         \/ \E e \in Editors : CountFails(e)
         \/ \E u \in Staff : DeleteUser(u)
         \/ \E i \in Replicas : Die(i)
  PROVE  RolesTypeOK'
<1>1. ASSUME NEW x \in Tasks, FailTask(x)
      PROVE  RolesTypeOK'
  BY <1>1, SmallTasks, OneBecomes, TypesUnpacked DEF RolesTypeOK, Tasks, FailTask, rows
<1>2. ASSUME NEW u \in Staff, DeleteUser(u)
      PROVE  RolesTypeOK'
  BY <1>2, TypesUnpacked DEF RolesTypeOK, Tasks, DeleteUser
<1>3. ASSUME NEW i \in Replicas, Die(i)
      PROVE  RolesTypeOK'
  BY <1>3, DieEffect, TypesUnpacked DEF RolesTypeOK, Tasks, rows
<1>4. ASSUME NEW e \in Editors, CountFails(e)
      PROVE  RolesTypeOK'
  BY <1>4, CountFailsEffect, OneBecomes, TypesUnpacked DEF RolesTypeOK, Tasks, rows
<1>5. QED
  BY <1>1, <1>2, <1>3, <1>4

LEMMA TypeStep ==
  ASSUME RolesTypeOK, RolesNext
  PROVE  RolesTypeOK'
<1>1. ASSUME NEW i \in Replicas, ReplicaStep(i)
      PROVE  RolesTypeOK'
  BY <1>1, SeedRoleTypeOK, SeedWipeTypeOK, SeedGrantTypeOK, BeginLoadTypeOK, LoadTypeOK
  DEF ReplicaStep, Tasks
<1>2. ASSUME NEW e \in Editors, EditorStep(e)
      PROVE  RolesTypeOK'
  BY <1>2, EditTypeOK, LoadTypeOK DEF EditorStep, Tasks
<1>3. ASSUME NEW e \in Editors, NEW i \in Replicas, BeginEditor(e, i)
      PROVE  RolesTypeOK'
  BY <1>3, BeginStarts, StartTypeOK
<1>4. QED
  BY <1>1, <1>2, <1>3, OtherTypeOK DEF RolesNext, Tasks

LEMMA TypeStart ==
  ASSUME RolesInit
  PROVE  RolesTypeOK
<1>1. PICK made \in SUBSET Custom, perms \in Asked :
       /\ roleId = [r \in RoleNames |-> IF r \in made THEN Seeded ELSE 0]
       /\ grant = [r \in RoleNames |-> [p \in Perms |->
                     IF r \in made /\ p \in perms THEN Seeded ELSE 0]]
       /\ account \in [Staff -> made \cup {"none"}]
  BY DEF RolesInit
<1>2. /\ roleId \in [RoleNames -> Nat] /\ grant \in [RoleNames -> [Perms -> Nat]]
      /\ account \in [Staff -> RoleNames \cup {"none", "left"}]
  BY <1>1, Matrices DEF Seeded
<1>3. matrix \in [Replicas -> [RoleNames -> SUBSET Perms]]
  BY Matrices DEF RolesInit
<1>4. task \in [Tasks -> Task]
  BY SmallTasks DEF RolesInit, Tasks
<1>5. /\ stamp \in Nat /\ troubles \in 0 .. MaxTroubles /\ edits \in 0 .. MaxEdits
  BY RolesBounds DEF RolesInit, Seeded
<1>6. solo \in BOOLEAN /\ miscounted \in BOOLEAN
  BY DEF RolesInit
<1>7. QED
  BY <1>2, <1>3, <1>4, <1>5, <1>6 DEF RolesTypeOK, Tasks

-----------------------------------------------------------------------------
(* What a step does to the matrices *)

LEMMA MatrixEffect ==
  ASSUME RolesTypeOK, RolesNext
  PROVE  \/ UNCHANGED matrix
         \/ \E i \in Replicas : matrix' = [matrix EXCEPT ![i] = Fallback]
         \/ \E i \in Replicas, fresh \in [RoleNames -> SUBSET Perms] :
              UsersRead \in fresh[SuperAdmin] /\ matrix' = [matrix EXCEPT ![i] = fresh]
<1> DEFINE Goal == \/ UNCHANGED matrix
                   \/ \E i \in Replicas : matrix' = [matrix EXCEPT ![i] = Fallback]
                   \/ \E i \in Replicas, fresh \in [RoleNames -> SUBSET Perms] :
                        /\ UsersRead \in fresh[SuperAdmin]
                        /\ matrix' = [matrix EXCEPT ![i] = fresh]
<1>1. ASSUME NEW x \in Tasks, Publish(x)
      PROVE  Goal
  <2>1. task[x].at \in Replicas /\ task[x].fresh \in [RoleNames -> SUBSET Perms]
    BY <1>1, TypesUnpacked, TaskHolds DEF Publish, LoadPcs
  <2>2. \/ UNCHANGED matrix
        \/ /\ UsersRead \in task[x].fresh[SuperAdmin]
           /\ matrix' = [matrix EXCEPT ![task[x].at] = task[x].fresh]
    BY <1>1 DEF Publish
  <2>3. QED
    BY <2>1, <2>2
<1>2. ASSUME NEW x \in Tasks, ReadNames(x) \/ ReadPerms(x) \/ FailTask(x)
      PROVE  Goal
  BY <1>2 DEF ReadNames, ReadPerms, FailTask
<1>3. ASSUME NEW i \in Replicas, ReplicaStep(i)
      PROVE  Goal
  <2>1. CASE SeedRole(i) \/ SeedWipe(i) \/ BeginLoad(i)
    BY <2>1 DEF SeedRole, SeedWipe, BeginLoad
  <2>2. CASE SeedGrant(i)
    BY <2>2, RestartEffect DEF SeedGrant
  <2>3. QED
    BY <1>1, <1>2, <1>3, <2>1, <2>2 DEF ReplicaStep, Tasks
<1>4. ASSUME NEW e \in Editors, EditorStep(e)
      PROVE  Goal
  <2>1. CASE \/ CreateRole(e) \/ ClearRole(e) \/ ReplaceGrants(e) \/ CountUsers(e)
             \/ DropRole(e) \/ AssignRole(e)
    BY <2>1 DEF CreateRole, ClearRole, ReplaceGrants, CountUsers, DropRole, AssignRole
  <2>2. QED
    BY <1>1, <1>2, <1>4, <2>1 DEF EditorStep, Tasks
<1>5. ASSUME NEW e \in Editors, NEW i \in Replicas, BeginEditor(e, i)
      PROVE  Goal
  BY <1>5, BeginStarts DEF StartEdit
<1>6. ASSUME NEW i \in Replicas, Die(i)
      PROVE  Goal
  BY <1>6 DEF Die
<1>7. ASSUME NEW u \in Staff, DeleteUser(u)
      PROVE  Goal
  BY <1>7 DEF DeleteUser
<1>8. ASSUME NEW e \in Editors, CountFails(e)
      PROVE  Goal
  BY <1>8 DEF CountFails
<1>9. QED
  BY <1>2, <1>3, <1>4, <1>5, <1>6, <1>7, <1>8 DEF RolesNext, Tasks

LEMMA SuperAdminStep ==
  ASSUME RolesTypeOK, SuperAdminStays, RolesNext
  PROVE  SuperAdminStays'
<1>1. CASE UNCHANGED matrix
  BY <1>1 DEF SuperAdminStays
<1>2. CASE \E i \in Replicas : matrix' = [matrix EXCEPT ![i] = Fallback]
  BY <1>2, Matrices, TypesUnpacked DEF SuperAdminStays
<1>3. CASE \E i \in Replicas, fresh \in [RoleNames -> SUBSET Perms] :
              UsersRead \in fresh[SuperAdmin] /\ matrix' = [matrix EXCEPT ![i] = fresh]
  BY <1>3, TypesUnpacked DEF SuperAdminStays
<1>4. QED
  BY <1>1, <1>2, <1>3, MatrixEffect

-----------------------------------------------------------------------------
(* Seeding *)

\* Replica i has still to bring the seeding of role r to its end.
Pending(i, r) ==
  \/ task[i] = Gone
  \/ task[i].pc \in {"role", "wipe", "grant"} /\ r \in task[i].left
  \/ task[i].pc = "wipe" /\ task[i].role = r
  \/ /\ task[i].pc = "grant" /\ task[i].role = r
     /\ BuiltInGrants[r] \subseteq Held(r) \cup task[i].todo

\* The role row a replica is working on.
SeedingHasRow ==
  \A i \in Replicas : task[i].pc \in {"wipe", "grant"} => roleId[task[i].role] # 0

\* A built-in role never holds more than the code grants it.
NothingExtra ==
  /\ \A r \in BuiltIn : Held(r) \subseteq BuiltInGrants[r]
  /\ \A i \in Replicas :
       task[i].pc = "grant" => task[i].todo \subseteq BuiltInGrants[task[i].role]

\* A built-in role that does not hold what the code says is pending somewhere.
PendingOrDone ==
  \A r \in BuiltIn :
    \/ \E i \in Replicas : Pending(i, r)
    \/ roleId[r] # 0 /\ Held(r) = BuiltInGrants[r]

SeedingInv == SeedingHasRow /\ NothingExtra /\ PendingOrDone

LEMMA SeedingHealsThen ==
  ASSUME SeedingInv
  PROVE  SeedingHeals
<1> SUFFICES ASSUME \A i \in Replicas : Serving(i), NEW r \in BuiltIn
             PROVE  roleId[r] # 0 /\ Held(r) = BuiltInGrants[r]
  BY DEF SeedingHeals
<1>1. \A i \in Replicas : ~ Pending(i, r)
  BY DEF Pending, Serving, Gone
<1>2. QED
  BY <1>1 DEF SeedingInv, PendingOrDone

\* Steps that leave the rows of built-in roles, and the replicas that seed, alone.
LEMMA SeedingKept ==
  ASSUME SeedingInv, RolesTypeOK,
         \A r \in BuiltIn : roleId'[r] = roleId[r] /\ grant'[r] = grant[r],
         \A i \in Replicas :
           \/ task'[i] = task[i]
           \/ task'[i] = Boot
           \/ /\ task[i].pc \notin {"gone", "role", "wipe", "grant"}
              /\ task'[i].pc \notin {"gone", "role", "wipe", "grant"}
  PROVE  SeedingInv'
<1>1. \A r \in BuiltIn : Held(r)' = Held(r)
  BY DEF Held
<1>2. \A i \in Replicas : task[i].pc \in {"wipe", "grant"} => task[i].role \in BuiltIn
  BY TypesUnpacked, TaskHolds DEF Tasks
<1>3. Boot.pc = "role" /\ Boot.left = BuiltIn /\ Boot # Gone
  BY DEF Boot, Gone
<1>4. ASSUME NEW i \in Replicas
      PROVE  \/ task'[i] = task[i]
             \/ task'[i] = Boot
             \/ /\ task[i].pc \notin {"gone", "role", "wipe", "grant"}
                /\ task'[i].pc \notin {"gone", "role", "wipe", "grant"}
  OBVIOUS
<1>5. SeedingHasRow'
  BY <1>2, <1>3, <1>4 DEF SeedingInv, SeedingHasRow
<1>6. NothingExtra'
  BY <1>1, <1>2, <1>3, <1>4 DEF SeedingInv, NothingExtra
<1>7. ASSUME NEW r \in BuiltIn, NEW i \in Replicas, Pending(i, r)
      PROVE  Pending(i, r)'
  BY <1>1, <1>3, <1>4, <1>7 DEF Pending, Gone
<1>8. PendingOrDone'
  BY <1>1, <1>7 DEF SeedingInv, PendingOrDone
<1>9. QED
  BY <1>5, <1>6, <1>8 DEF SeedingInv

LEMMA SeedRoleHeals ==
  ASSUME SeedingInv, RolesTypeOK, NEW i \in Replicas, SeedRole(i)
  PROVE  SeedingInv'
<1>1. /\ task[i].pc = "role" /\ task[i].left \in SUBSET BuiltIn /\ i \in Tasks
      /\ task[i] # Gone /\ UNCHANGED grant
  <2>1. task[i] \in Task /\ task[i].pc = "role" /\ i \in Tasks /\ UNCHANGED grant
    BY TypesUnpacked DEF SeedRole, Tasks
  <2>2. task[i] # Gone
    BY <2>1 DEF Gone
  <2>3. task[i].left \in SUBSET BuiltIn
    BY <2>1, TaskHolds
  <2>4. QED
    BY <2>1, <2>2, <2>3
<1>2. \A q : Held(q)' = Held(q)
  BY <1>1 DEF Held
<1>3. \A j \in Replicas \ {i} : task[j].pc \in {"wipe", "grant"} => task[j].role \in BuiltIn
  BY TypesUnpacked, TaskHolds DEF Tasks
<1>4. CASE task[i].left = {} /\ Becomes(i, [pc |-> "load"]) /\ UNCHANGED roleId
  <2>1. task'[i].pc = "load" /\ \A j \in Replicas \ {i} : task'[j] = task[j]
    BY <1>1, <1>4, OneBecomes, TypesUnpacked DEF Tasks
  <2>2. SeedingHasRow' /\ NothingExtra'
    BY <1>2, <1>4, <2>1 DEF SeedingInv, SeedingHasRow, NothingExtra
  <2>3. \A r \in BuiltIn, j \in Replicas : Pending(j, r) => Pending(j, r)'
    BY <1>1, <1>2, <1>4, <2>1 DEF Pending
  <2>4. PendingOrDone'
    BY <1>2, <1>4, <2>3 DEF SeedingInv, PendingOrDone
  <2>5. QED
    BY <2>2, <2>4 DEF SeedingInv
<1>5. ASSUME NEW r \in task[i].left,
             IF roleId[r] = 0 THEN roleId' = [roleId EXCEPT ![r] = Seeded] ELSE UNCHANGED roleId,
             Becomes(i, [pc |-> "wipe", left |-> task[i].left \ {r}, role |-> r])
      PROVE  SeedingInv'
  <2>1. /\ task'[i].pc = "wipe" /\ task'[i].left = task[i].left \ {r} /\ task'[i].role = r
        /\ \A j \in Replicas \ {i} : task'[j] = task[j]
    BY <1>1, <1>5, OneBecomes, TypesUnpacked DEF Tasks
  <2>2. roleId'[r] # 0 /\ \A q \in BuiltIn : roleId[q] # 0 => roleId'[q] # 0
    BY <1>1, <1>5, TypesUnpacked, Matrices DEF Seeded
  <2>3. SeedingHasRow'
    BY <1>3, <2>1, <2>2 DEF SeedingInv, SeedingHasRow
  <2>4. NothingExtra'
    BY <1>2, <2>1 DEF SeedingInv, NothingExtra
  <2>5. \A q \in BuiltIn, j \in Replicas : Pending(j, q) => Pending(j, q)'
    BY <1>1, <1>2, <2>1 DEF Pending
  <2>6. PendingOrDone'
    BY <1>2, <2>2, <2>5 DEF SeedingInv, PendingOrDone
  <2>7. QED
    BY <2>3, <2>4, <2>6 DEF SeedingInv
<1>6. QED
  BY <1>4, <1>5 DEF SeedRole

LEMMA SeedWipeHeals ==
  ASSUME SeedingInv, RolesTypeOK, NEW i \in Replicas, SeedWipe(i)
  PROVE  SeedingInv'
<1>1. PICK left \in SUBSET BuiltIn, r \in BuiltIn : left = task[i].left /\ r = task[i].role
  BY TypesUnpacked, TaskHolds DEF SeedWipe, Tasks
<1>2. /\ task[i].pc = "wipe" /\ task[i] # Gone /\ UNCHANGED roleId
      /\ grant' = [grant EXCEPT ![r] = NoGrants]
      /\ Becomes(i, [pc |-> "grant", left |-> left, role |-> r, todo |-> BuiltInGrants[r]])
  BY <1>1 DEF SeedWipe, Gone
<1>3. /\ task'[i].pc = "grant" /\ task'[i].left = left /\ task'[i].role = r
      /\ task'[i].todo = BuiltInGrants[r]
      /\ \A j \in Replicas \ {i} : task'[j] = task[j]
  BY <1>2, OneBecomes, TypesUnpacked DEF Tasks
<1>4. Held(r)' = {} /\ \A q \in BuiltIn \ {r} : Held(q)' = Held(q)
  <2>1. r \in RoleNames /\ BuiltIn \subseteq RoleNames /\ grant \in [RoleNames -> [Perms -> Nat]]
    BY Matrices, TypesUnpacked
  <2>2. grant'[r] = NoGrants /\ \A q \in BuiltIn \ {r} : grant'[q] = grant[q]
    BY <1>2, <2>1
  <2>3. \A p \in Perms : NoGrants[p] = 0
    BY DEF NoGrants
  <2>4. QED
    BY <2>2, <2>3 DEF Held
<1>5. SeedingHasRow'
  BY <1>1, <1>2, <1>3 DEF SeedingInv, SeedingHasRow
<1>6. NothingExtra'
  BY <1>3, <1>4 DEF SeedingInv, NothingExtra
<1>7. Pending(i, r)'
  BY <1>3 DEF Pending
<1>8. \A q \in BuiltIn \ {r}, j \in Replicas : Pending(j, q) => Pending(j, q)'
  BY <1>1, <1>2, <1>3, <1>4 DEF Pending
<1>9. PendingOrDone'
  BY <1>2, <1>4, <1>7, <1>8 DEF SeedingInv, PendingOrDone
<1>10. QED
  BY <1>5, <1>6, <1>9 DEF SeedingInv

LEMMA SeedGrantHeals ==
  ASSUME SeedingInv, RolesTypeOK, NEW i \in Replicas, SeedGrant(i)
  PROVE  SeedingInv'
<1>1. PICK left \in SUBSET BuiltIn, r \in BuiltIn, todo \in SUBSET Perms :
           /\ task[i].pc = "grant" /\ left = task[i].left /\ r = task[i].role
           /\ todo = task[i].todo
           /\ UNCHANGED <<roleId, account, stamp, edits, solo, miscounted>>
           /\ \/ /\ todo = {} /\ Becomes(i, [pc |-> "role", left |-> left])
                 /\ UNCHANGED <<grant, matrix, troubles>>
              \/ \E p \in todo :
                   /\ grant' = [grant EXCEPT ![r][p] = Seeded]
                   /\ Becomes(i, [pc |-> "grant", left |-> left, role |-> r,
                                  todo |-> todo \ {p}])
                   /\ UNCHANGED <<matrix, troubles>>
              \/ Restart(i) /\ UNCHANGED grant
  BY SeedGrantEffect
<1>2. /\ task[i] # Gone /\ i \in Tasks /\ roleId[r] # 0 /\ Held(r) \subseteq BuiltInGrants[r]
      /\ todo \subseteq BuiltInGrants[r]
  BY <1>1 DEF Gone, Tasks, SeedingInv, SeedingHasRow, NothingExtra
<1>3. \A t : Becomes(i, t) => task'[i] = t /\ \A j \in Replicas \ {i} : task'[j] = task[j]
  BY OneBecomes, TypesUnpacked DEF Tasks
<1>4. CASE todo = {} /\ Becomes(i, [pc |-> "role", left |-> left]) /\ UNCHANGED grant
  <2>1. /\ task'[i].pc = "role" /\ task'[i].left = left
        /\ \A j \in Replicas \ {i} : task'[j] = task[j]
    BY <1>3, <1>4
  <2>2. \A q : Held(q)' = Held(q)
    BY <1>4 DEF Held
  <2>3. SeedingHasRow' /\ NothingExtra'
    BY <1>1, <2>1, <2>2 DEF SeedingInv, SeedingHasRow, NothingExtra
  <2>4. \A q \in BuiltIn, j \in Replicas :
          Pending(j, q) => Pending(j, q)' \/ (j = i /\ q = r /\ BuiltInGrants[r] \subseteq Held(r))
    BY <1>1, <1>2, <1>4, <2>1, <2>2 DEF Pending
  <2>5. PendingOrDone'
    <3> SUFFICES ASSUME NEW q \in BuiltIn, \A j \in Replicas : ~ Pending(j, q)'
                 PROVE  roleId'[q] # 0 /\ Held(q)' = BuiltInGrants[q]
      BY DEF PendingOrDone
    <3>1. roleId'[q] = roleId[q] /\ Held(q)' = Held(q)
      BY <1>1, <2>2
    <3>2. CASE \E j \in Replicas : Pending(j, q)
      <4>1. q = r /\ BuiltInGrants[r] \subseteq Held(r)
        BY <2>4, <3>2
      <4>2. QED
        BY <1>2, <3>1, <4>1
    <3>3. CASE ~ \E j \in Replicas : Pending(j, q)
      BY <3>1, <3>3 DEF SeedingInv, PendingOrDone
    <3>4. QED
      BY <3>2, <3>3
  <2>6. QED
    BY <2>3, <2>5 DEF SeedingInv
<1>5. ASSUME NEW p \in todo, grant' = [grant EXCEPT ![r][p] = Seeded],
             Becomes(i, [pc |-> "grant", left |-> left, role |-> r, todo |-> todo \ {p}])
      PROVE  SeedingInv'
  <2>1. /\ task'[i].pc = "grant" /\ task'[i].left = left /\ task'[i].role = r
        /\ task'[i].todo = todo \ {p}
        /\ \A j \in Replicas \ {i} : task'[j] = task[j]
    BY <1>3, <1>5
  <2>2. Held(r)' = Held(r) \cup {p} /\ \A q \in BuiltIn \ {r} : Held(q)' = Held(q)
    <3>1. r \in RoleNames /\ BuiltIn \subseteq RoleNames /\ p \in Perms
          /\ grant \in [RoleNames -> [Perms -> Nat]]
      BY Matrices, TypesUnpacked
    <3>2. /\ grant'[r] = [grant[r] EXCEPT ![p] = Seeded]
          /\ \A q \in BuiltIn \ {r} : grant'[q] = grant[q]
      BY <1>5, <3>1
    <3>3. grant'[r][p] # 0 /\ \A o \in Perms \ {p} : grant'[r][o] = grant[r][o]
      BY <3>1, <3>2 DEF Seeded
    <3>4. QED
      BY <3>1, <3>2, <3>3 DEF Held
  <2>3. SeedingHasRow'
    BY <1>1, <2>1 DEF SeedingInv, SeedingHasRow
  <2>4. NothingExtra'
    BY <1>1, <1>2, <2>1, <2>2 DEF SeedingInv, NothingExtra
  <2>5. \A q \in BuiltIn : Held(q) \subseteq Held(q)'
    BY <2>2
  <2>6. \A q \in BuiltIn, j \in Replicas : Pending(j, q) => Pending(j, q)'
    BY <1>1, <1>2, <2>1, <2>2, <2>5 DEF Pending
  <2>7. PendingOrDone'
    BY <1>1, <2>4, <2>5, <2>6 DEF SeedingInv, PendingOrDone, NothingExtra
  <2>8. QED
    BY <2>3, <2>4, <2>7 DEF SeedingInv
<1>6. CASE Restart(i) /\ UNCHANGED grant
  <2>1. task'[i] \in {Boot, Gone} /\ \A j \in Replicas \ {i} : task'[j] = task[j]
    BY <1>3, <1>6, RestartEffect
  <2>2. \A q : Held(q)' = Held(q)
    BY <1>6 DEF Held
  <2>3. task'[i].pc \notin {"wipe", "grant"}
    BY <2>1 DEF Boot, Gone
  <2>4. SeedingHasRow' /\ NothingExtra'
    BY <1>1, <2>1, <2>2, <2>3 DEF SeedingInv, SeedingHasRow, NothingExtra
  <2>5. \A q \in BuiltIn : Pending(i, q)'
    BY <2>1 DEF Pending, Boot
  <2>6. QED
    BY <2>4, <2>5 DEF SeedingInv, PendingOrDone
<1>7. QED
  BY <1>1, <1>4, <1>5, <1>6

LEMMA SeedingStep ==
  ASSUME SeedingInv, RolesTypeOK, RolesNext
  PROVE  SeedingInv'
<1>1. \A x \in Tasks : \A t : Becomes(x, t) =>
        task'[x] = t /\ \A y \in Tasks \ {x} : task'[y] = task[y]
  BY OneBecomes, TypesUnpacked
<1>2. Replicas \subseteq Tasks /\ Editors \subseteq Tasks /\ \A e \in Editors : e \notin Replicas
  BY RolesBounds DEF Tasks
<1>3. Idle.pc = "idle"
  BY DEF Idle
<1>4. ASSUME NEW x \in Tasks, ReadNames(x) \/ ReadPerms(x) \/ Publish(x) \/ FailTask(x)
      PROVE  SeedingInv'
  <2>1. /\ task'[x].pc \notin {"gone", "role", "wipe", "grant"}
        /\ \A y \in Tasks \ {x} : task'[y] = task[y]
        /\ UNCHANGED <<roleId, grant>>
    BY <1>1, <1>3, <1>4 DEF ReadNames, ReadPerms, Publish, FailTask, rows
  <2>2. task[x].pc \notin {"gone", "role", "wipe", "grant"}
    BY <1>4, TypesUnpacked, TaskHolds DEF ReadNames, ReadPerms, Publish, FailTask, Booting
  <2>3. QED
    BY <1>2, <2>1, <2>2, SeedingKept
<1>5. ASSUME NEW i \in Replicas, ReplicaStep(i)
      PROVE  SeedingInv'
  <2>1. CASE BeginLoad(i)
    <3>1. /\ task[i].pc \notin {"gone", "role", "wipe", "grant"}
          /\ task'[i].pc \notin {"gone", "role", "wipe", "grant"}
          /\ \A y \in Tasks \ {i} : task'[y] = task[y]
          /\ UNCHANGED <<roleId, grant>>
      BY <1>1, <1>2, <2>1 DEF BeginLoad, rows
    <3>2. QED
      BY <1>2, <3>1, SeedingKept
  <2>2. CASE ReadNames(i) \/ ReadPerms(i) \/ Publish(i)
    BY <1>2, <1>4, <2>2
  <2>3. QED
    BY <1>5, <2>1, <2>2, SeedRoleHeals, SeedWipeHeals, SeedGrantHeals DEF ReplicaStep
<1>6. ASSUME NEW e \in Editors, NEW t, Becomes(e, t),
             \A r \in BuiltIn : roleId'[r] = roleId[r] /\ grant'[r] = grant[r]
      PROVE  SeedingInv'
  <2>1. \A j \in Replicas : task'[j] = task[j]
    BY <1>1, <1>2, <1>6
  <2>2. QED
    BY <1>6, <2>1, SeedingKept
<1>7. ASSUME NEW e \in Editors, EditorStep(e)
      PROVE  SeedingInv'
  <2>1. CASE CreateRole(e) \/ ReplaceGrants(e) \/ DropRole(e)
    <3>1. PICK r \in Custom, t \in Task :
           /\ Becomes(e, t)
           /\ \A q \in RoleNames \ {r} : roleId'[q] = roleId[q] /\ grant'[q] = grant[q]
      BY <2>1, WriteEffect
    <3>2. \A q \in BuiltIn : q \in RoleNames \ {r}
      BY RolesBounds, Matrices
    <3>3. QED
      BY <1>6, <3>1, <3>2
  <2>2. CASE ClearRole(e) \/ CountUsers(e)
    BY <1>6, <2>2, ThinkEffect DEF rows
  <2>3. CASE AssignRole(e)
    BY <1>6, <2>3, AssignEffect
  <2>4. CASE ReadNames(e) \/ ReadPerms(e) \/ Publish(e)
    BY <1>2, <1>4, <2>4
  <2>5. QED
    BY <1>7, <2>1, <2>2, <2>3, <2>4 DEF EditorStep
<1>8. ASSUME NEW e \in Editors, NEW i \in Replicas, BeginEditor(e, i)
      PROVE  SeedingInv'
  BY <1>6, <1>8, BeginStarts DEF StartEdit, rows
<1>9. ASSUME NEW i \in Replicas, Die(i)
      PROVE  SeedingInv'
  BY <1>9, DieEffect, SeedingKept DEF rows
<1>e. ASSUME NEW e \in Editors, CountFails(e)
      PROVE  SeedingInv'
  BY <1>6, <1>e, CountFailsEffect DEF rows
<1>10. ASSUME NEW u \in Staff, DeleteUser(u)
      PROVE  SeedingInv'
  BY <1>10, SeedingKept DEF DeleteUser
<1>11. QED
  BY <1>4, <1>5, <1>7, <1>8, <1>9, <1>e, <1>10 DEF RolesNext, Tasks

LEMMA SeedingStart ==
  ASSUME RolesInit
  PROVE  SeedingInv
<1>1. \A i \in Replicas : task[i] = Boot
  BY DEF RolesInit
<1>2. Boot.pc = "role" /\ Boot.left = BuiltIn
  BY DEF Boot
<1>3. \A r \in BuiltIn : Held(r) = {}
  <2>1. PICK made \in SUBSET Custom, perms \in Asked :
          grant = [r \in RoleNames |-> [p \in Perms |->
                     IF r \in made /\ p \in perms THEN Seeded ELSE 0]]
    BY DEF RolesInit
  <2>2. \A r \in BuiltIn : r \notin made /\ r \in RoleNames
    BY RolesBounds, Matrices
  <2>3. \A r \in BuiltIn, p \in Perms : grant[r][p] = 0
    BY <2>1, <2>2
  <2>4. QED
    BY <2>3 DEF Held
<1>4. SeedingHasRow /\ NothingExtra
  BY <1>1, <1>2, <1>3 DEF SeedingHasRow, NothingExtra
<1>5. \A r \in BuiltIn : \E i \in Replicas : Pending(i, r)
  BY <1>1, <1>2, RolesBounds DEF Pending
<1>6. QED
  BY <1>4, <1>5 DEF SeedingInv, PendingOrDone

-----------------------------------------------------------------------------
(* Roles in use, while handlers run in turn *)

InUse(r) == \E u \in Staff : account[u] = r

\* One handler at a time; a role about to be given can be looked up, and nobody
\* has a role about to be dropped.
InTurnInv ==
  solo /\ ~miscounted =>
    /\ \A e, f \in Editors : task[e] # Idle /\ task[f] # Idle => e = f
    /\ \A e \in Editors : task[e].pc \in {"hire", "promote"} => Assignable(task[e].role)
    /\ \A e \in Editors : task[e].pc = "drop" => ~ InUse(task[e].role)
    /\ \A u \in Staff : account[u] \in RoleNames => Assignable(account[u])

LEMMA InTurnThen ==
  ASSUME InTurnInv
  PROVE  AssignedRolesExistInTurn
BY DEF InTurnInv, AssignedRolesExistInTurn

\* Steps that store roles or leave them alone, and at most end a handler or
\* bring it to another read.
LEMMA InTurnKept ==
  ASSUME InTurnInv, UNCHANGED <<solo, miscounted, account>>,
         \A r \in RoleNames : roleId[r] # 0 => roleId'[r] # 0,
         \A e \in Editors :
           /\ task[e] = Idle => task'[e] = Idle
           /\ \/ task'[e] = task[e]
              \/ task'[e].pc \notin {"hire", "promote", "drop"}
              \/ /\ task'[e].pc = "drop"
                 /\ \A u \in Staff : account[u] # task'[e].role,
         RolesTypeOK
  PROVE  InTurnInv'
<1>1. \A r \in RoleNames : Assignable(r) => Assignable(r)'
  BY DEF Assignable
<1>2. \A e \in Editors : task[e].pc \in {"hire", "promote"} => task[e].role \in RoleNames
  BY TypesUnpacked, TaskHolds DEF Tasks
<1> SUFFICES ASSUME solo, ~miscounted
             PROVE  /\ \A e, f \in Editors : task'[e] # Idle /\ task'[f] # Idle => e = f
                    /\ \A e \in Editors : task'[e].pc \in {"hire", "promote"}
                         => Assignable(task[e].role)'
                    /\ \A e \in Editors : task'[e].pc = "drop" => ~ InUse(task[e].role)'
                    /\ \A u \in Staff : account'[u] \in RoleNames => Assignable(account[u])'
  BY DEF InTurnInv
<1>3. \A e, f \in Editors : task'[e] # Idle /\ task'[f] # Idle => e = f
  BY DEF InTurnInv
<1>4. \A e \in Editors : task'[e].pc \in {"hire", "promote"} => Assignable(task[e].role)'
  BY <1>1, <1>2 DEF InTurnInv
<1>5. \A e \in Editors : task'[e].pc = "drop" => ~ InUse(task[e].role)'
  BY DEF InTurnInv, InUse
<1>6. \A u \in Staff : account'[u] \in RoleNames => Assignable(account[u])'
  BY <1>1 DEF InTurnInv
<1>7. QED
  BY <1>3, <1>4, <1>5, <1>6

LEMMA DropInTurn ==
  ASSUME InTurnInv, RolesTypeOK, NEW e \in Editors, DropRole(e)
  PROVE  InTurnInv'
<1>1. PICK r \in Custom, t \in Task :
           /\ r = task[e].role /\ Becomes(e, t) /\ t.pc \in {"idle", "names"}
           /\ \A q \in RoleNames \ {r} : roleId'[q] = roleId[q] /\ grant'[q] = grant[q]
           /\ UNCHANGED <<account, matrix, troubles, edits, solo, miscounted>>
  BY WriteEffect
<1>2. task[e].pc = "drop" /\ task[e] # Idle
  BY DEF DropRole, Idle
<1>3. task'[e] = t /\ \A f \in Editors \ {e} : task'[f] = task[f]
  BY <1>1, OneBecomes, TypesUnpacked DEF Tasks
<1> SUFFICES ASSUME solo, ~miscounted PROVE InTurnInv'
  BY <1>1 DEF InTurnInv
<1>4. \A f \in Editors \ {e} : task[f] = Idle
  BY <1>2 DEF InTurnInv
<1>5. \A f \in Editors : task'[f].pc \notin {"hire", "promote", "drop"}
  BY <1>1, <1>3, <1>4 DEF Idle
<1>6. \A u \in Staff : account[u] # r
  BY <1>1, <1>2 DEF InTurnInv, InUse
<1>7. \A u \in Staff : account'[u] \in RoleNames => Assignable(account[u])'
  BY <1>1, <1>6 DEF InTurnInv, Assignable
<1>8. QED
  BY <1>3, <1>4, <1>5, <1>7 DEF InTurnInv

LEMMA AssignInTurn ==
  ASSUME InTurnInv, RolesTypeOK, NEW e \in Editors, AssignRole(e)
  PROVE  InTurnInv'
<1>1. /\ \A u \in Staff : account'[u] \in {account[u], task[e].role}
      /\ Becomes(e, Idle) /\ task[e].pc \in {"hire", "promote"} /\ task[e] # Idle
      /\ UNCHANGED <<roleId, grant, stamp, matrix, troubles, edits, solo, miscounted>>
  BY AssignEffect DEF Idle
<1>2. task'[e] = Idle /\ \A f \in Editors \ {e} : task'[f] = task[f]
  BY <1>1, OneBecomes, TypesUnpacked DEF Tasks
<1> SUFFICES ASSUME solo, ~miscounted PROVE InTurnInv'
  BY <1>1 DEF InTurnInv
<1>3. \A f \in Editors : task'[f] = Idle
  BY <1>1, <1>2 DEF InTurnInv
<1>4. \A f \in Editors : task'[f].pc \notin {"hire", "promote", "drop"}
  BY <1>3 DEF Idle
<1>5. Assignable(task[e].role)
  BY <1>1 DEF InTurnInv
<1>6. \A r : Assignable(r)' <=> Assignable(r)
  BY <1>1 DEF Assignable
<1>7. \A u \in Staff : account'[u] \in RoleNames => Assignable(account'[u])
  BY <1>1, <1>5 DEF InTurnInv
<1>8. \A u \in Staff : account'[u] \in RoleNames => Assignable(account[u])'
  BY <1>6, <1>7
<1>9. QED
  BY <1>3, <1>4, <1>8 DEF InTurnInv

LEMMA BeginInTurn ==
  ASSUME InTurnInv, RolesTypeOK, NEW e \in Editors, NEW i \in Replicas, BeginEditor(e, i)
  PROVE  InTurnInv'
<1>1. PICK t \in Task :
           /\ StartEdit(e, i, t) /\ t.pc \in EditorPcs \ {"drop"}
           /\ t.pc \in {"hire", "promote"} => Assignable(t.role)
  BY BeginStarts
<1>2. /\ Becomes(e, t) /\ UNCHANGED <<rows, miscounted>>
      /\ solo' = (solo /\ \A x \in Editors : task[x] = Idle)
  BY <1>1 DEF StartEdit
<1>3. task'[e] = t /\ \A f \in Editors \ {e} : task'[f] = task[f]
  BY <1>2, OneBecomes, TypesUnpacked DEF Tasks
<1> SUFFICES ASSUME solo, ~miscounted, \A f \in Editors : task[f] = Idle
             PROVE  InTurnInv'
  BY <1>2 DEF InTurnInv
<1>4. \A f \in Editors \ {e} : task'[f] = Idle /\ task'[f].pc = "idle"
  BY <1>3 DEF Idle
<1>5. \A r : Assignable(r)' <=> Assignable(r)
  BY <1>2 DEF Assignable, rows
<1>6. \A f \in Editors : task'[f].pc \in {"hire", "promote"} => Assignable(task[f].role)'
  BY <1>1, <1>3, <1>4, <1>5
<1>7. \A f \in Editors : task'[f].pc # "drop"
  BY <1>1, <1>3, <1>4
<1>8. \A u \in Staff : account'[u] \in RoleNames => Assignable(account[u])'
  BY <1>2, <1>5 DEF InTurnInv, rows
<1>9. QED
  BY <1>4, <1>6, <1>7, <1>8 DEF InTurnInv

LEMMA DeleteInTurn ==
  ASSUME InTurnInv, RolesTypeOK, NEW v \in Staff, DeleteUser(v)
  PROVE  InTurnInv'
<1>1. /\ account' = [account EXCEPT ![v] = "left"]
      /\ UNCHANGED <<roleId, grant, stamp, matrix, task, troubles, edits, solo, miscounted>>
  BY DEF DeleteUser
<1>2. \A u \in Staff : account'[u] \in {account[u], "left"}
  BY <1>1, TypesUnpacked
<1>3. "left" \notin RoleNames
  BY RolesBounds
<1>4. \A r : Assignable(r)' <=> Assignable(r)
  BY <1>1 DEF Assignable
<1>5. \A r \in RoleNames : InUse(r)' => InUse(r)
  BY <1>2, <1>3 DEF InUse
<1>6. \A e \in Editors : task[e].pc = "drop" => task[e].role \in RoleNames
  BY TypesUnpacked, TaskHolds, Matrices DEF Tasks
<1> SUFFICES ASSUME solo, ~miscounted PROVE InTurnInv'
  BY <1>1 DEF InTurnInv
<1>7. \A e \in Editors : task'[e].pc = "drop" => ~ InUse(task[e].role)'
  BY <1>1, <1>5, <1>6 DEF InTurnInv
<1>8. \A e \in Editors : task'[e].pc \in {"hire", "promote"} => Assignable(task[e].role)'
  BY <1>1, <1>4 DEF InTurnInv
<1>9. \A u \in Staff : account'[u] \in RoleNames => Assignable(account[u])'
  BY <1>2, <1>3, <1>4 DEF InTurnInv
<1>10. \A e, f \in Editors : task'[e] # Idle /\ task'[f] # Idle => e = f
  BY <1>1 DEF InTurnInv
<1>11. QED
  BY <1>7, <1>8, <1>9, <1>10 DEF InTurnInv

\* A boot stores roles, and moves no handler.
LEMMA SeedInTurn ==
  ASSUME InTurnInv, RolesTypeOK, NEW i \in Replicas,
         SeedRole(i) \/ SeedWipe(i) \/ SeedGrant(i) \/ BeginLoad(i)
  PROVE  InTurnInv'
<1>1. \A t : Becomes(i, t) => \A e \in Editors : task'[e] = task[e]
  BY OneBecomes, TypesUnpacked, RolesBounds DEF Tasks
<1>2. \A r \in RoleNames : roleId[r] # 0 => roleId'[r] # 0
  BY TypesUnpacked DEF SeedRole, SeedWipe, SeedGrant, BeginLoad, rows, Seeded
<1>3. UNCHANGED <<solo, miscounted, account>>
  BY DEF SeedRole, SeedWipe, SeedGrant, BeginLoad, rows
<1>4. \E t : Becomes(i, t)
  BY DEF SeedRole, SeedWipe, SeedGrant, Restart, BeginLoad
<1>5. QED
  BY <1>1, <1>2, <1>3, <1>4, InTurnKept

LEMMA InTurnStep ==
  ASSUME InTurnInv, RolesTypeOK, RolesNext
  PROVE  InTurnInv'
<1>1. \A x \in Tasks : \A t : Becomes(x, t) =>
        task'[x] = t /\ \A y \in Tasks \ {x} : task'[y] = task[y]
  BY OneBecomes, TypesUnpacked
<1>2. Replicas \subseteq Tasks /\ Editors \subseteq Tasks /\ Idle.pc = "idle"
  BY DEF Tasks, Idle
<1>3. ASSUME NEW x \in Tasks, ReadNames(x) \/ ReadPerms(x) \/ Publish(x) \/ FailTask(x)
      PROVE  InTurnInv'
  <2>1. /\ task[x] # Idle /\ task'[x].pc \notin {"hire", "promote", "drop"}
        /\ \A y \in Tasks \ {x} : task'[y] = task[y]
        /\ UNCHANGED <<roleId, account, solo, miscounted>>
    BY <1>1, <1>2, <1>3 DEF ReadNames, ReadPerms, Publish, FailTask, rows
  <2>2. QED
    BY <1>2, <2>1, InTurnKept
<1>4. ASSUME NEW e \in Editors, EditorStep(e)
      PROVE  InTurnInv'
  <2>1. CASE CreateRole(e) \/ ReplaceGrants(e)
    <3>1. task[e].pc # "drop" /\ task[e] # Idle
      BY <1>2, <2>1 DEF CreateRole, ReplaceGrants
    <3>2. PICK r \in Custom, t \in Task :
           /\ r = task[e].role /\ Becomes(e, t) /\ t.pc \in {"idle", "names"}
           /\ \A q \in RoleNames \ {r} : roleId'[q] = roleId[q] /\ grant'[q] = grant[q]
           /\ roleId[r] # 0 => roleId'[r] # 0
           /\ UNCHANGED <<account, matrix, troubles, edits, solo, miscounted>>
      BY <2>1, <3>1, WriteEffect
    <3>3. task'[e] = t /\ \A f \in Editors \ {e} : task'[f] = task[f]
      BY <1>1, <1>2, <3>2
    <3>4. QED
      BY <3>1, <3>2, <3>3, InTurnKept
  <2>2. CASE ClearRole(e) \/ CountUsers(e)
    <3>1. PICK t \in Task :
           /\ Becomes(e, t) /\ t.pc \in {"idle", "replace", "drop"}
           /\ t.pc = "drop" => \A u \in Staff : account[u] # t.role
           /\ task[e].pc \in {"clear", "count"}
           /\ UNCHANGED <<rows, matrix, troubles, edits, solo, miscounted>>
      BY <2>2, ThinkEffect
    <3>2. task'[e] = t /\ \A f \in Editors \ {e} : task'[f] = task[f]
      BY <1>1, <1>2, <3>1
    <3>3. t.pc = "drop" => ~ InUse(t.role)
      BY <3>1 DEF InUse
    <3>4. UNCHANGED <<roleId, account>>
      BY <3>1 DEF rows
    <3>5. QED
      BY <1>2, <3>1, <3>2, <3>3, <3>4, InTurnKept
  <2>3. CASE ReadNames(e) \/ ReadPerms(e) \/ Publish(e)
    BY <1>2, <1>3, <2>3
  <2>4. QED
    BY <1>4, <2>1, <2>2, <2>3, DropInTurn, AssignInTurn DEF EditorStep
<1>5. ASSUME NEW i \in Replicas, ReplicaStep(i)
      PROVE  InTurnInv'
  BY <1>2, <1>3, <1>5, SeedInTurn DEF ReplicaStep
<1>6. ASSUME NEW i \in Replicas, Die(i)
      PROVE  InTurnInv'
  BY <1>2, <1>6, DieEffect, InTurnKept DEF rows
<1>7. ASSUME NEW e \in Editors, CountFails(e)
      PROVE  InTurnInv'
  BY <1>7 DEF CountFails, InTurnInv
<1>8. QED
  BY <1>3, <1>4, <1>5, <1>6, <1>7, BeginInTurn, DeleteInTurn DEF RolesNext, Tasks

LEMMA InTurnStart ==
  ASSUME RolesInit
  PROVE  InTurnInv
<1>1. PICK made \in SUBSET Custom :
       /\ roleId = [r \in RoleNames |-> IF r \in made THEN Seeded ELSE 0]
       /\ account \in [Staff -> made \cup {"none"}]
  BY DEF RolesInit
<1>2. \A e \in Editors : task[e] = Idle
  BY RolesBounds DEF RolesInit
<1>3. \A u \in Staff : account[u] \in RoleNames => account[u] \in made
  BY <1>1, RolesBounds
<1>4. \A u \in Staff : account[u] \in RoleNames => Assignable(account[u])
  BY <1>1, <1>3 DEF Assignable, Seeded
<1>5. QED
  BY <1>2, <1>4 DEF InTurnInv, Idle

-----------------------------------------------------------------------------
\* The inductive invariant: what the locals and the rows are, that no replica
\* locks super admins out, that what a built-in role lacks is still to come, and
\* that no role is taken from under a user in turn.
RolesInv == RolesTypeOK /\ SuperAdminStays /\ SeedingInv /\ InTurnInv

\* Whatever the replicas, their handlers and their failures do, the invariant holds.
THEOREM RolesInvariant == RolesSpec => []RolesInv
<1>1. RolesInit => RolesInv
  <2>1. RolesInit => SuperAdminStays
    BY Matrices DEF RolesInit, SuperAdminStays
  <2>2. QED
    BY <2>1, TypeStart, SeedingStart, InTurnStart DEF RolesInv
<1>2. RolesInv /\ [RolesNext]_rvars => RolesInv'
  <2>1. RolesInv /\ RolesNext => RolesInv'
    BY TypeStep, SuperAdminStep, SeedingStep, InTurnStep DEF RolesInv
  <2>2. RolesInv /\ UNCHANGED rvars => RolesInv'
    <3> SUFFICES ASSUME RolesInv, UNCHANGED rvars PROVE RolesInv'
      OBVIOUS
    <3>1. RolesTypeOK' /\ SuperAdminStays'
      BY DEF RolesInv, rvars, RolesTypeOK, SuperAdminStays
    <3>2. SeedingInv'
      BY DEF RolesInv, rvars, SeedingInv, SeedingHasRow, NothingExtra, PendingOrDone,
             Pending, Held
    <3>3. InTurnInv'
      BY DEF RolesInv, rvars, InTurnInv, Assignable, InUse
    <3>4. QED
      BY <3>1, <3>2, <3>3 DEF RolesInv
  <2>3. QED
    BY <2>1, <2>2
<1>3. QED
  BY <1>1, <1>2, PTL DEF RolesSpec

\* The rows, the matrices and the locals of goroutines and handlers keep their
\* shape, and the bounds are kept.
THEOREM RolesTypesHold == RolesSpec => []RolesTypeOK
<1>1. RolesInv => RolesTypeOK
  BY DEF RolesInv
<1>2. QED
  BY <1>1, RolesInvariant, PTL

\* A partial load never locks everyone out: LoadFromDB publishes no matrix in
\* which super admins cannot read users, and a replica that starts has the code's.
THEOREM SuperAdminStaysHolds == RolesSpec => []SuperAdminStays
<1>1. RolesInv => SuperAdminStays
  BY DEF RolesInv
<1>2. QED
  BY <1>1, RolesInvariant, PTL

\* Any number of replicas may boot at once, fail and be restarted: once every
\* boot has come to its end, seed.Roles has left the built-in roles with exactly
\* what the code grants them.
THEOREM SeedingHealsHolds == RolesSpec => []SeedingHeals
<1>1. RolesInv => SeedingHeals
  BY SeedingHealsThen DEF RolesInv
<1>2. QED
  BY <1>1, RolesInvariant, PTL

\* DeleteRole takes no role from under a user, and roleAssignable gives none that
\* cannot be looked up, while handlers run one after another and no count of the
\* users of a role has failed.
THEOREM AssignedRolesExistHolds == RolesSpec => []AssignedRolesExistInTurn
<1>1. RolesInv => AssignedRolesExistInTurn
  BY InTurnThen DEF RolesInv
<1>2. QED
  BY <1>1, RolesInvariant, PTL
=============================================================================
