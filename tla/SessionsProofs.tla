---------------------------- MODULE SessionsProofs ----------------------------
(***************************************************************************)
(* A chain of rotations never forks and never comes back to life, however  *)
(* many tokens, handlers and failures there are; a password reset ends     *)
(* every session there is; and the handlers implement Relay.               *)
(***************************************************************************)
EXTENDS Sessions, TLAPS

Inv == TypeOK /\ ChainInv

\* A free slot is told from a handler's locals by its pc.
LEMMA FreeHasNoLocals == Free.pc = "free" /\ Free \notin Worker
BY DEF Free, Worker

\* A revocation issues nothing, moves nothing and makes nothing live.
LEMMA RevokedRows ==
  ASSUME TypeOK, NEW T, token' = Revoked(T)
  PROVE  /\ token' \in [TokenId -> Token \cup {NoToken}]
         /\ \A i \in TokenId : /\ Issued(i)' <=> Issued(i)
                               /\ token'[i].family = token[i].family
                               /\ Live(i)' => Live(i)
<1> SUFFICES ASSUME NEW i \in TokenId
             PROVE  /\ token'[i] \in Token \cup {NoToken}
                    /\ Issued(i)' <=> Issued(i)
                    /\ token'[i].family = token[i].family
                    /\ Live(i)' => Live(i)
  BY DEF Revoked
<1>1. CASE token'[i] = token[i]
  BY <1>1 DEF TypeOK, Issued, Live
<1>2. CASE Issued(i) /\ token'[i] = [token[i] EXCEPT !.revoked = TRUE]
  <2>1. token[i] \in Token
    BY <1>2 DEF TypeOK, Issued
  <2>2. token'[i] \in Token /\ token'[i].family = token[i].family
        /\ token'[i].revoked
    BY <1>2, <2>1 DEF Token
  <2>3. NoToken \notin Token
    BY DEF NoToken, Token
  <2>4. QED
    BY <1>2, <2>1, <2>2, <2>3 DEF Issued, Live
<1>3. QED
  BY <1>1, <1>2 DEF Revoked

\* Every step keeps the types of rows and locals.
LEMMA NextTypeOK == TypeOK /\ [Next]_svars => TypeOK'
<1> SUFFICES ASSUME TypeOK, [Next]_svars PROVE TypeOK'
  OBVIOUS
<1> USE SessionBounds
<1>a. \A x : (token' = token \/ token' = Revoked(x)
              \/ token' \in [TokenId -> Token \cup {NoToken}])
             => token' \in [TokenId -> Token \cup {NoToken}]
  BY RevokedRows DEF TypeOK
<1>b. \A f \in TokenId : Fresh(f) \in Token
  BY DEF Fresh, Token
<1>c. \A w \in Workers : worker[w] # Free => worker[w] \in Worker
  BY DEF TypeOK
<1>d. \A w \in Workers : \A x \in Worker \cup {Free} :
        Go(w, x) => worker' \in [Workers -> Worker \cup {Free}]
  BY DEF TypeOK, Go
<1>1. ASSUME NEW w \in Workers, BeginLogin(w) PROVE TypeOK'
  <2>1. [pc |-> "open", version |-> version] \in Worker
    BY DEF Worker, TypeOK
  <2>2. QED
    BY <1>1, <1>d, <2>1 DEF BeginLogin, TypeOK
<1>2. ASSUME NEW w \in Workers, OpenFamily(w) PROVE TypeOK'
  BY <1>2, <1>b, <1>d DEF OpenFamily, TypeOK
<1>3. ASSUME NEW w \in Workers, NEW i \in TokenId, BeginRefresh(w, i)
      PROVE  TypeOK'
  <2>1. token[i] \in Token
    BY <1>3 DEF BeginRefresh, Issued, TypeOK
  <2>2. token[i].family \in TokenId
    BY <2>1 DEF Token
  <2>3. /\ [pc |-> "revoke", family |-> token[i].family] \in Worker
        /\ [pc |-> "claim", tok |-> i, family |-> token[i].family] \in Worker
    BY <2>2 DEF Worker
  <2>4. QED
    BY <1>3, <1>d, <2>3 DEF BeginRefresh, TypeOK
<1>4. ASSUME NEW w \in Workers, Claim(w) PROVE TypeOK'
  <2>1. worker[w] \in [pc : {"claim", "owner"}, tok : TokenId, family : TokenId]
    BY <1>4, <1>c, FreeHasNoLocals DEF Claim, Worker
  <2>2. [worker[w] EXCEPT !.pc = "owner"] \in Worker
    BY <2>1 DEF Worker
  <2>3. ASSUME Live(worker[w].tok)
        PROVE  [token EXCEPT ![worker[w].tok].used = TRUE]
                 \in [TokenId -> Token \cup {NoToken}]
    <3>1. token[worker[w].tok] \in Token
      BY <2>1, <2>3 DEF Live, Issued, TypeOK
    <3>2. [token[worker[w].tok] EXCEPT !.used = TRUE] \in Token
      BY <3>1 DEF Token
    <3>3. QED
      BY <3>2 DEF TypeOK
  <2>4. QED
    BY <1>4, <1>d, <2>2, <2>3 DEF Claim, TypeOK
<1>5. ASSUME NEW w \in Workers, ReadOwner(w) PROVE TypeOK'
  <2>1. worker[w].family \in TokenId
    <3>1. worker[w] \in [pc : {"claim", "owner"}, tok : TokenId, family : TokenId]
      BY <1>5, <1>c, FreeHasNoLocals DEF ReadOwner, Worker
    <3>2. QED
      BY <3>1
  <2>2. /\ [pc |-> "revoke", family |-> worker[w].family] \in Worker
        /\ [pc |-> "append", family |-> worker[w].family, version |-> version]
             \in Worker
    BY <2>1 DEF Worker, TypeOK
  <2>3. QED
    BY <1>5, <1>d, <2>2 DEF ReadOwner, TypeOK
<1>6. ASSUME NEW w \in Workers, Append(w) PROVE TypeOK'
  <2>1. worker[w] \in [pc : {"append"}, family : TokenId, version : Versions]
    BY <1>6, <1>c, FreeHasNoLocals DEF Append, Worker
  <2>2. QED
    BY <1>6, <1>b, <1>d, <2>1 DEF Append, TypeOK
<1>7. ASSUME NEW w \in Workers, RevokeFamily(w) PROVE TypeOK'
  BY <1>7, <1>a, <1>d DEF RevokeFamily, TypeOK
<1>8. ASSUME NEW w \in Workers, NEW i \in TokenId, BeginLogout(w, i)
      PROVE  TypeOK'
  <2>1. token[i] \in Token
    BY <1>8 DEF BeginLogout, Issued, TypeOK
  <2>2. [pc |-> "revoke", family |-> token[i].family] \in Worker
    BY <2>1 DEF Worker, Token
  <2>3. QED
    BY <1>8, <1>d, <2>2 DEF BeginLogout, TypeOK
<1>9. ASSUME NEW w \in Workers, BeginLogoutEverywhere(w) \/ BeginForgot(w)
      PROVE  TypeOK'
  <2>1. [pc |-> "revokeAll"] \in Worker /\ [pc |-> "supersede"] \in Worker
    BY DEF Worker
  <2>2. QED
    BY <1>9, <1>d, <2>1 DEF BeginLogoutEverywhere, BeginForgot, TypeOK
<1>10. ASSUME NEW w \in Workers, RevokeAll(w) PROVE TypeOK'
  <2>1. [pc |-> "bump"] \in Worker
    BY DEF Worker
  <2>2. QED
    BY <1>10, <1>a, <1>d, <2>1 DEF RevokeAll, TypeOK
<1>11. ASSUME NEW w \in Workers, Bump(w) PROVE TypeOK'
  BY <1>11, <1>d DEF Bump, TypeOK, Versions
<1>12. ASSUME NEW w \in Workers, Supersede(w) \/ CreateLink(w) PROVE TypeOK'
  <2>1. [pc |-> "createLink"] \in Worker
    BY DEF Worker
  <2>2. link' \in [LinkId -> LinkState]
    BY <1>12 DEF Supersede, CreateLink, TypeOK, LinkState
  <2>3. QED
    BY <1>12, <1>d, <2>1, <2>2 DEF Supersede, CreateLink, TypeOK
<1>13. ASSUME NEW w \in Workers, NEW j \in LinkId, BeginReset(w, j)
       PROVE  TypeOK'
  <2>1. [pc |-> "redeem", link |-> j] \in Worker
    BY DEF Worker
  <2>2. QED
    BY <1>13, <1>d, <2>1 DEF BeginReset, TypeOK
<1>14. ASSUME NEW w \in Workers, Redeem(w) PROVE TypeOK'
  <2>1. link' \in [LinkId -> LinkState]
    BY <1>14 DEF Redeem, TypeOK, LinkState
  <2>2. password' \in Nat /\ version' \in Versions
    BY <1>14 DEF Redeem, TypeOK, Versions
  <2>3. token' \in [TokenId -> Token \cup {NoToken}]
    BY <1>14, <1>a DEF Redeem
  <2>4. QED
    BY <1>14, <1>d, <2>1, <2>2, <2>3 DEF Redeem, TypeOK
<1>15. ASSUME NEW w \in Workers, Fail(w) PROVE TypeOK'
  BY <1>15, <1>d DEF Fail, TypeOK
<1>16. ASSUME NEW a \in {"active", "inactive", "deleted"}, SetAccount(a)
       PROVE  TypeOK'
  BY <1>16 DEF SetAccount, TypeOK
<1>17. CASE UNCHANGED svars
  BY <1>17 DEF svars, TypeOK
<1>18. QED
  BY <1>1, <1>2, <1>3, <1>4, <1>5, <1>6, <1>7, <1>8, <1>9, <1>10, <1>11, <1>12,
     <1>13, <1>14, <1>15, <1>16, <1>17 DEF Next, Begin, WorkerStep

\* A worker's locals change only by its own step.
LEMMA OwnStep ==
  ASSUME TypeOK, [Next]_svars, NEW w \in Workers, worker'[w] # worker[w]
  PROVE  Begin(w) \/ WorkerStep(w) \/ Fail(w)
<1>1. \/ worker' = worker
      \/ \E o \in Workers : Begin(o) \/ WorkerStep(o) \/ Fail(o)
  BY DEF Next, SetAccount, svars
<1>2. ASSUME NEW o \in Workers, Begin(o) \/ WorkerStep(o) \/ Fail(o)
      PROVE  \E x : worker' = [worker EXCEPT ![o] = x]
  BY <1>2 DEF Begin, BeginLogin, BeginLogoutEverywhere, BeginForgot,
     BeginRefresh, BeginLogout, BeginReset, WorkerStep, OpenFamily, Claim,
     ReadOwner, Append, RevokeFamily, RevokeAll, Bump, Supersede, CreateLink,
     Redeem, Fail, Go
<1>3. QED
  BY <1>1, <1>2 DEF TypeOK

\* How a worker comes to claim, rotate or revoke.
LEMMA Arrival ==
  ASSUME TypeOK, [Next]_svars, NEW w \in Workers, worker'[w] # worker[w]
  PROVE  /\ worker'[w].pc = "claim" =>
              \E i \in TokenId : /\ Issued(i) /\ token' = token
                                 /\ worker'[w].tok = i
                                 /\ worker'[w].family = token[i].family
         /\ worker'[w].pc = "owner" =>
              /\ worker[w].pc = "claim" /\ Live(worker[w].tok)
              /\ worker[w].tok \in TokenId
              /\ worker'[w].family = worker[w].family
              /\ token' = [token EXCEPT ![worker[w].tok].used = TRUE]
         /\ worker'[w].pc = "append" =>
              /\ worker[w].pc = "owner" /\ token' = token
              /\ worker'[w].family = worker[w].family
         /\ worker'[w].pc = "revoke" =>
              /\ token' = token
              /\ \/ \E i \in TokenId :
                      Issued(i) /\ worker'[w].family = token[i].family
                 \/ worker[w].pc = "owner"
                    /\ worker'[w].family = worker[w].family
<1> DEFINE t == worker'[w]
           Goal == /\ t.pc = "claim" =>
                        \E i \in TokenId : /\ Issued(i) /\ token' = token
                                           /\ t.tok = i
                                           /\ t.family = token[i].family
                   /\ t.pc = "owner" =>
                        /\ worker[w].pc = "claim" /\ Live(worker[w].tok)
                        /\ worker[w].tok \in TokenId
                        /\ t.family = worker[w].family
                        /\ token' = [token EXCEPT ![worker[w].tok].used = TRUE]
                   /\ t.pc = "append" =>
                        /\ worker[w].pc = "owner" /\ token' = token
                        /\ t.family = worker[w].family
                   /\ t.pc = "revoke" =>
                        /\ token' = token
                        /\ \/ \E i \in TokenId :
                                Issued(i) /\ t.family = token[i].family
                           \/ worker[w].pc = "owner"
                              /\ t.family = worker[w].family
<1>a. worker \in [Workers -> Worker \cup {Free}]
  BY DEF TypeOK
<1>b. \A x : Go(w, x) => t = x
  BY <1>a DEF Go
<1>c. Free.pc = "free"
  BY FreeHasNoLocals
<1>1. ASSUME NEW i \in TokenId, BeginRefresh(w, i) PROVE Goal
  BY <1>1, <1>b DEF BeginRefresh
<1>2. ASSUME NEW i \in TokenId, BeginLogout(w, i) PROVE Goal
  BY <1>2, <1>b DEF BeginLogout
<1>3. ASSUME NEW j \in LinkId, BeginReset(w, j) PROVE Goal
  BY <1>3, <1>b DEF BeginReset
<1>4. ASSUME BeginLogin(w) \/ BeginLogoutEverywhere(w) \/ BeginForgot(w)
      PROVE  Goal
  BY <1>4, <1>b DEF BeginLogin, BeginLogoutEverywhere, BeginForgot
<1>5. ASSUME Claim(w) PROVE Goal
  <2>1. worker[w] \in [pc : {"claim", "owner"}, tok : TokenId, family : TokenId]
    BY <1>5, <1>a, FreeHasNoLocals DEF Claim, Worker
  <2>2. LET n == [worker[w] EXCEPT !.pc = "owner"] IN
          n.pc = "owner" /\ n.family = worker[w].family
    BY <2>1
  <2>3. QED
    BY <1>5, <1>b, <1>c, <2>1, <2>2 DEF Claim
<1>6. ASSUME ReadOwner(w) PROVE Goal
  BY <1>6, <1>b, <1>c DEF ReadOwner
<1>7. ASSUME RevokeAll(w) \/ Supersede(w) PROVE Goal
  BY <1>7, <1>b DEF RevokeAll, Supersede
<1>8. ASSUME \/ OpenFamily(w) \/ Append(w) \/ RevokeFamily(w) \/ Bump(w)
             \/ CreateLink(w) \/ Redeem(w) \/ Fail(w)
      PROVE  Goal
  <2>1. Go(w, Free)
    BY <1>8 DEF OpenFamily, Append, RevokeFamily, Bump, CreateLink, Redeem, Fail
  <2>2. t.pc = "free"
    BY <2>1, <1>b, <1>c
  <2>3. QED
    BY <2>2
<1>9. Goal
  BY <1>1, <1>2, <1>3, <1>4, <1>5, <1>6, <1>7, <1>8, OwnStep DEF Begin, WorkerStep
<1>10. QED
  BY <1>9

\* Rows that a step neither issues nor moves nor makes live.
Shrinks(i) ==
  /\ Issued(i)' <=> Issued(i)
  /\ token'[i].family = token[i].family
  /\ Live(i)' => Live(i)

\* How refresh_tokens changes: rows die, or one live row is added, as a family
\* of its own or as the successor a rotation has been claimed for.
LEMMA TokenWrites ==
  ASSUME Inv, [Next]_svars
  PROVE  \/ \A i \in TokenId : Shrinks(i)
         \/ \E k \in TokenId :
              /\ ~Issued(k) /\ Issued(k)'
              /\ token'[k].family = k
              /\ \A i \in TokenId \ {k} : Shrinks(i)
         \/ \E k \in TokenId, w \in Workers :
              /\ ~Issued(k) /\ Issued(k)'
              /\ Append(w) /\ worker[w].family \in TokenId
              /\ token'[k].family = worker[w].family
              /\ \A i \in TokenId \ {k} : Shrinks(i)
<1>a. /\ TypeOK
      /\ token \in [TokenId -> Token \cup {NoToken}]
      /\ worker \in [Workers -> Worker \cup {Free}]
  BY DEF Inv, TypeOK
<1>1. CASE token' = token
  BY <1>1 DEF Shrinks, Issued, Live
<1>2. ASSUME NEW T, token' = Revoked(T) PROVE \A i \in TokenId : Shrinks(i)
  BY <1>2, <1>a, RevokedRows DEF Shrinks
<1>3. ASSUME NEW w \in Workers, Claim(w), token' # token
      PROVE  \A i \in TokenId : Shrinks(i)
  <2>1. worker[w] \in [pc : {"claim", "owner"}, tok : TokenId, family : TokenId]
    BY <1>3, <1>a, FreeHasNoLocals DEF Claim, Worker
  <2>2. PICK k \in TokenId : k = worker[w].tok
    BY <2>1
  <2>3. /\ Live(k) /\ token' = [token EXCEPT ![k].used = TRUE]
        /\ token[k] \in Token
    BY <1>3, <1>a, <2>2 DEF Claim, Live, Issued
  <2>4. Shrinks(k)
    <3>1. token'[k] = [token[k] EXCEPT !.used = TRUE]
      BY <1>a, <2>3
    <3>2. token'[k].used /\ token'[k].family = token[k].family
      BY <2>3, <3>1 DEF Token
    <3>3. token'[k] # NoToken
      BY <2>3, <3>1 DEF NoToken, Token
    <3>4. QED
      BY <2>3, <3>2, <3>3 DEF Shrinks, Issued, Live
  <2>5. ASSUME NEW i \in TokenId, i # k PROVE Shrinks(i)
    BY <1>a, <2>3, <2>5 DEF Shrinks, Issued, Live
  <2>6. QED
    BY <2>4, <2>5
<1>4. ASSUME NEW k \in TokenId, NEW f \in TokenId, NextToken(k),
             token' = [token EXCEPT ![k] = Fresh(f)]
      PROVE  /\ ~Issued(k) /\ Issued(k)' /\ token'[k].family = f
             /\ \A i \in TokenId \ {k} : Shrinks(i)
  <2>1. token'[k] = Fresh(f)
    BY <1>a, <1>4
  <2>2. Fresh(f).family = f /\ Fresh(f) # NoToken
    BY DEF Fresh, NoToken
  <2>3. ~Issued(k) /\ Issued(k)' /\ token'[k].family = f
    BY <1>4, <2>1, <2>2 DEF NextToken, Issued
  <2>4. ASSUME NEW i \in TokenId, i # k PROVE token'[i] = token[i]
    BY <1>a, <1>4, <2>4
  <2>5. \A i \in TokenId \ {k} : Shrinks(i)
    BY <2>4 DEF Shrinks, Issued, Live
  <2>6. QED
    BY <2>3, <2>5
<1>5. ASSUME NEW w \in Workers, Append(w) PROVE worker[w].family \in TokenId
  <2>1. worker[w] \in [pc : {"append"}, family : TokenId, version : Versions]
    BY <1>5, <1>a, FreeHasNoLocals DEF Append, Worker
  <2>2. QED
    BY <2>1
<1>6. \/ token' = token
      \/ \E T : token' = Revoked(T)
      \/ \E w \in Workers : Claim(w) \/ OpenFamily(w) \/ Append(w)
  BY DEF Next, Begin, WorkerStep, BeginLogin, BeginLogoutEverywhere,
     BeginForgot, BeginRefresh, BeginLogout, BeginReset, ReadOwner,
     RevokeFamily, RevokeAll, Bump, Supersede, CreateLink, Redeem, Fail,
     SetAccount, svars
<1>7. ASSUME NEW w \in Workers, OpenFamily(w)
      PROVE  \E k \in TokenId :
               /\ ~Issued(k) /\ Issued(k)'
               /\ token'[k].family = k
               /\ \A i \in TokenId \ {k} : Shrinks(i)
  BY <1>7, <1>4 DEF OpenFamily
<1>8. ASSUME NEW w \in Workers, Append(w)
      PROVE  \E k \in TokenId :
               /\ ~Issued(k) /\ Issued(k)'
               /\ token'[k].family = worker[w].family
               /\ \A i \in TokenId \ {k} : Shrinks(i)
  BY <1>8, <1>4, <1>5 DEF Append
<1>9. QED
  BY <1>1, <1>2, <1>3, <1>5, <1>6, <1>7, <1>8

\* An issued token stays, in its family.
LEMMA IssuedStays ==
  ASSUME Inv, [Next]_svars, NEW i \in TokenId, Issued(i)
  PROVE  Issued(i)' /\ token'[i].family = token[i].family
BY TokenWrites DEF Shrinks

\* A family is the number of an issued token.
LEMMA FamilyIssued ==
  ASSUME Inv, NEW i \in TokenId, Issued(i)
  PROVE  token[i].family \in TokenId /\ Issued(token[i].family)
BY DEF Inv, ChainInv, TypeOK, Issued, Token

\* An unissued token is in no family, and no token is in a family named after
\* an unissued one.
LEMMA NoFamilyYet ==
  ASSUME Inv, NEW k \in TokenId, ~Issued(k), NEW i \in TokenId, Issued(i)
  PROVE  token[i].family # k
BY FamilyIssued

\* No step leaves a family with two live tokens (Claim, Append).
LEMMA NextNeverForks ==
  ASSUME Inv, [Next]_svars
  PROVE  \A i, j \in TokenId :
           Live(i)' /\ Live(j)' /\ token'[i].family = token'[j].family => i = j
<1> SUFFICES ASSUME NEW i \in TokenId, NEW j \in TokenId, Live(i)', Live(j)',
                    token'[i].family = token'[j].family, i # j
             PROVE  FALSE
  OBVIOUS
<1>0. \A a, b \in TokenId :
        Live(a) /\ Live(b) /\ token[a].family = token[b].family => a = b
  BY DEF Inv, ChainInv, ChainNeverForks
<1>1. CASE Shrinks(i) /\ Shrinks(j)
  BY <1>0, <1>1 DEF Shrinks
<1>2. ASSUME NEW k \in TokenId, ~Issued(k), token'[k].family = k,
             \A a \in TokenId \ {k} : Shrinks(a)
      PROVE  FALSE
  <2>1. ASSUME NEW a \in TokenId, a # k, Live(a)' PROVE token'[a].family # k
    <3>1. Issued(a) /\ token'[a].family = token[a].family
      BY <1>2, <2>1 DEF Shrinks, Live
    <3>2. QED
      BY <1>2, <3>1, NoFamilyYet
  <2>2. QED
    BY <1>1, <1>2, <2>1
<1>3. ASSUME NEW k \in TokenId, NEW w \in Workers, Append(w),
             worker[w].family \in TokenId, token'[k].family = worker[w].family,
             \A a \in TokenId \ {k} : Shrinks(a)
      PROVE  FALSE
  <2>1. Rotating(w, worker[w].family)
    BY <1>3 DEF Append, Rotating
  <2>2. \A a \in TokenId : token[a].family = worker[w].family => ~Live(a)
    BY <1>3, <2>1 DEF Inv, ChainInv
  <2>3. QED
    BY <1>1, <1>3, <2>2 DEF Shrinks
<1>4. QED
  BY <1>1, <1>2, <1>3, TokenWrites

\* Every step keeps families named after tokens that exist.
LEMMA NextFamilies ==
  ASSUME Inv, [Next]_svars, NEW i \in TokenId, Issued(i)'
  PROVE  \E f \in TokenId : f = token'[i].family /\ Issued(f)'
<1>1. CASE Issued(i)
  BY <1>1, FamilyIssued, IssuedStays
<1>2. CASE ~Issued(i)
  <2>1. \/ token'[i].family = i
        \/ \E w \in Workers : /\ Append(w) /\ worker[w].family \in TokenId
                              /\ token'[i].family = worker[w].family
    BY <1>2, TokenWrites DEF Shrinks
  <2>2. ASSUME NEW w \in Workers, Append(w), worker[w].family \in TokenId
        PROVE  Issued(worker[w].family)
    BY <2>2 DEF Append, Rotating, Inv, ChainInv
  <2>3. ASSUME NEW w \in Workers, Append(w), NEW f \in TokenId,
               worker[w].family = f
        PROVE  Issued(f)'
    BY <2>2, <2>3, IssuedStays
  <2>4. QED
    BY <2>1, <2>3
<1>3. QED
  BY <1>1, <1>2

\* Who rotates a family after a step rotated it before, or has claimed its one
\* live token with that step.
LEMMA NextRotating ==
  ASSUME Inv, [Next]_svars, NEW w \in Workers, NEW f \in TokenId,
         worker'[w].pc \in {"owner", "append"}, worker'[w].family = f
  PROVE  \/ Rotating(w, f)
         \/ \E k \in TokenId :
              /\ Live(k) /\ token[k].family = f
              /\ token' = [token EXCEPT ![k].used = TRUE]
              /\ \A o \in Workers : o # w => worker'[o] = worker[o]
<1>1. CASE worker'[w] = worker[w]
  BY <1>1 DEF Rotating
<1>2. CASE worker'[w] # worker[w] /\ worker'[w].pc = "append"
  BY <1>2, Arrival DEF Rotating, Inv
<1>3. CASE worker'[w] # worker[w] /\ worker'[w].pc = "owner"
  <2>1. /\ worker[w].pc = "claim" /\ Live(worker[w].tok)
        /\ worker[w].tok \in TokenId
        /\ worker'[w].family = worker[w].family
        /\ token' = [token EXCEPT ![worker[w].tok].used = TRUE]
    BY <1>3, Arrival DEF Inv
  <2>2. token[worker[w].tok].family = f
    BY <2>1 DEF Inv, ChainInv
  <2>3. \A o \in Workers : o # w => worker'[o] = worker[o]
    <3>1. Claim(w)
      BY <1>3, <2>1, OwnStep DEF Inv, Begin, BeginLogin, BeginLogoutEverywhere,
         BeginForgot, BeginRefresh, BeginLogout, BeginReset, WorkerStep,
         OpenFamily, ReadOwner, Append, RevokeFamily, RevokeAll, Bump,
         Supersede, CreateLink, Redeem, Fail, Go, Free, TypeOK
    <3>2. QED
      BY <3>1 DEF Claim, Go, Inv, TypeOK
  <2>4. QED
    BY <2>1, <2>2, <2>3
<1>4. QED
  BY <1>1, <1>2, <1>3

\* Every step leaves a family at most one rotation under way (Claim).
LEMMA NextRotation ==
  ASSUME Inv, [Next]_svars, NEW w \in Workers, NEW f \in TokenId,
         worker'[w].pc \in {"owner", "append"}, worker'[w].family = f
  PROVE  /\ Issued(f)'
         /\ \A i \in TokenId : token'[i].family = f => ~Live(i)'
         /\ \A o \in Workers : worker'[o].pc \in {"owner", "append"}
                               /\ worker'[o].family = f => o = w
<1>0. \A o \in Workers : Rotating(o, f) =>
        /\ Issued(f)
        /\ \A i \in TokenId : token[i].family = f => ~Live(i)
        /\ \A x \in Workers : Rotating(x, f) => x = o
  BY DEF Inv, ChainInv
<1>1. CASE Rotating(w, f)
  <2>1. Issued(f)'
    BY <1>0, <1>1, IssuedStays
  <2>2. ASSUME NEW i \in TokenId, token'[i].family = f, Live(i)' PROVE FALSE
    <3>1. ~Shrinks(i)
      BY <1>0, <1>1, <2>2 DEF Shrinks
    <3>2. ~Issued(i)
           /\ (token'[i].family = i
               \/ \E o \in Workers : Append(o) /\ worker[o].family = f)
      BY <2>2, <3>1, TokenWrites
    <3>3. token'[i].family # i
      BY <1>0, <1>1, <2>2, <3>2
    <3>4. ASSUME NEW o \in Workers, Append(o), worker[o].family = f PROVE FALSE
      <4>1. Rotating(o, f) /\ worker'[o] = Free
        BY <3>4 DEF Append, Rotating, Go, Inv, TypeOK
      <4>2. o = w
        BY <1>0, <1>1, <4>1
      <4>3. QED
        BY <4>1, <4>2 DEF Free
    <3>5. QED
      BY <3>2, <3>3, <3>4
  <2>3. ASSUME NEW o \in Workers, worker'[o].pc \in {"owner", "append"},
               worker'[o].family = f
        PROVE  o = w
    <3>1. Rotating(o, f) \/ \E k \in TokenId : Live(k) /\ token[k].family = f
      BY <2>3, NextRotating
    <3>2. QED
      BY <1>0, <1>1, <3>1
  <2>4. QED
    BY <2>1, <2>2, <2>3
<1>2. ASSUME NEW k \in TokenId, Live(k), token[k].family = f,
             token' = [token EXCEPT ![k].used = TRUE],
             \A o \in Workers : o # w => worker'[o] = worker[o]
      PROVE  /\ Issued(f)'
             /\ \A i \in TokenId : token'[i].family = f => ~Live(i)'
             /\ \A o \in Workers : worker'[o].pc \in {"owner", "append"}
                                   /\ worker'[o].family = f => o = w
  <2>1. Issued(f)'
    BY <1>2, FamilyIssued, IssuedStays DEF Live
  <2>2. token'[k].used
    BY <1>2 DEF Live, Issued, Inv, TypeOK, Token
  <2>3. ASSUME NEW i \in TokenId, i # k, token'[i].family = f PROVE ~Live(i)'
    <3>1. token'[i] = token[i]
      BY <1>2, <2>3 DEF Inv, TypeOK
    <3>2. ~Live(i)
      BY <1>2, <2>3, <3>1 DEF Inv, ChainInv, ChainNeverForks
    <3>3. QED
      BY <3>1, <3>2 DEF Live, Issued
  <2>4. ASSUME NEW o \in Workers, worker'[o].pc \in {"owner", "append"},
               worker'[o].family = f, o # w
        PROVE  FALSE
    BY <1>0, <1>2, <2>4 DEF Rotating
  <2>5. QED
    BY <2>1, <2>2, <2>3, <2>4 DEF Live
<1>3. QED
  BY <1>1, <1>2, NextRotating

\* The invariant of the token chains is kept by every step.
LEMMA NextChainInv == Inv /\ [Next]_svars => ChainInv'
<1> SUFFICES ASSUME Inv, [Next]_svars PROVE ChainInv'
  OBVIOUS
<1>1. ChainNeverForks'
  BY NextNeverForks DEF ChainNeverForks
<1>2. (\A i \in TokenId : Issued(i) => Issued(token[i].family))'
  <2>1. ASSUME NEW i \in TokenId, Issued(i)'
        PROVE  token'[token'[i].family] # NoToken
    BY <2>1, NextFamilies DEF Issued
  <2>2. QED
    BY <2>1 DEF Issued
<1>3. (\A w \in Workers : \A f \in TokenId : Rotating(w, f) =>
         /\ Issued(f)
         /\ \A i \in TokenId : token[i].family = f => ~Live(i)
         /\ \A o \in Workers : Rotating(o, f) => o = w)'
  BY NextRotation DEF Rotating
<1>4. (\A w \in Workers : worker[w].pc = "claim" =>
         Issued(worker[w].tok) /\ token[worker[w].tok].family = worker[w].family)'
  <2>1. SUFFICES ASSUME NEW w \in Workers, worker'[w].pc = "claim"
                 PROVE  /\ token'[worker'[w].tok] # NoToken
                        /\ token'[worker'[w].tok].family = worker'[w].family
    BY DEF Issued
  <2>2. CASE worker'[w] # worker[w]
    BY <2>1, <2>2, Arrival DEF Inv, Issued
  <2>3. CASE worker'[w] = worker[w]
    <3>1. worker[w] \in [pc : {"claim", "owner"}, tok : TokenId, family : TokenId]
      BY <2>1, <2>3, FreeHasNoLocals DEF Worker, Inv, TypeOK
    <3>2. PICK k \in TokenId : k = worker[w].tok
      BY <3>1
    <3>3. Issued(k) /\ token[k].family = worker[w].family
      BY <2>1, <2>3, <3>2 DEF Inv, ChainInv
    <3>4. Issued(k)' /\ token'[k].family = token[k].family
      BY <3>3, IssuedStays
    <3>5. QED
      BY <2>3, <3>2, <3>3, <3>4 DEF Issued
  <2>4. QED
    BY <2>2, <2>3
<1>5. (\A w \in Workers : worker[w].pc = "revoke" => Issued(worker[w].family))'
  <2>1. SUFFICES ASSUME NEW w \in Workers, worker'[w].pc = "revoke"
                 PROVE  token'[worker'[w].family] # NoToken
    BY DEF Issued
  <2>2. \E f \in TokenId : f = worker'[w].family /\ Issued(f)
    <3>1. CASE worker'[w] = worker[w]
      <4>1. worker[w] \in [pc : {"revoke"}, family : TokenId]
        BY <2>1, <3>1, FreeHasNoLocals DEF Worker, Inv, TypeOK
      <4>2. QED
        BY <2>1, <3>1, <4>1 DEF Inv, ChainInv
    <3>2. ASSUME NEW i \in TokenId, Issued(i),
                 worker'[w].family = token[i].family
          PROVE  \E f \in TokenId : f = worker'[w].family /\ Issued(f)
      BY <3>2, FamilyIssued
    <3>3. ASSUME worker[w].pc = "owner", worker'[w].family = worker[w].family
          PROVE  \E f \in TokenId : f = worker'[w].family /\ Issued(f)
      <4>1. worker[w].family \in TokenId
        <5>1. worker[w] \in [pc : {"claim", "owner"}, tok : TokenId,
                             family : TokenId]
          BY <3>3, FreeHasNoLocals DEF Worker, Inv, TypeOK
        <5>2. QED
          BY <5>1
      <4>2. QED
        BY <3>3, <4>1 DEF Rotating, Inv, ChainInv
    <3>4. QED
      BY <2>1, <3>1, <3>2, <3>3, Arrival DEF Inv
  <2>3. QED
    BY <2>2, IssuedStays DEF Issued
<1>6. QED
  BY <1>1, <1>2, <1>3, <1>4, <1>5 DEF ChainInv

-----------------------------------------------------------------------------
\* An account nobody has signed in to has no chains.
LEMMA InitInv == Init => Inv
<1> SUFFICES ASSUME Init PROVE Inv
  OBVIOUS
<1>1. TypeOK
  BY SessionBounds DEF Init, TypeOK, LinkState, Versions
<1>2. \A i \in TokenId : ~Issued(i)
  BY DEF Init, Issued
<1>3. \A w \in Workers : worker[w].pc = "free"
  BY FreeHasNoLocals DEF Init
<1>4. ChainInv
  BY <1>2, <1>3 DEF ChainInv, ChainNeverForks, Live, Rotating
<1>5. QED
  BY <1>1, <1>4 DEF Inv

\* The types and the chain invariant hold throughout, for any number of
\* handlers, tokens and links (RotateRefreshToken, appendToFamily).
THEOREM SessionsInvariant == Spec => []Inv
<1>1. Inv /\ [Next]_svars => Inv'
  BY NextTypeOK, NextChainInv DEF Inv
<1>2. QED
  BY InitInv, <1>1, PTL DEF Spec

\* A family of refresh tokens never has two live members, however its rotations,
\* replays, logouts and resets interleave (RotateRefreshToken's conditional
\* UPDATE, one append per claim).
THEOREM NeverForks == Spec => []ChainNeverForks
<1>1. Inv => ChainNeverForks
  BY DEF Inv, ChainInv
<1>2. QED
  BY <1>1, SessionsInvariant, PTL

\* A family that has ended stays ended (appendToFamily is reached only through a
\* claim, IssueRefreshToken only opens new families).
THEOREM EndedForGood == Spec => EndedStaysEnded
<1>1. ASSUME Inv, [Next]_svars, NEW f \in TokenId, Ended(f) PROVE Ended(f)'
  <2>1. PICK i \in TokenId : token[i].family = f
    BY <1>1 DEF Ended, InFamily
  <2>2. Issued(i)
    BY <2>1 DEF Issued, NoToken, TokenId
  <2>3. Issued(f)
    BY <1>1, <2>1, <2>2, FamilyIssued
  <2>4. \A j \in TokenId : token[j].family = f => ~Live(j)
    BY <1>1 DEF Ended, InFamily
  <2>5. (InFamily(f) # {})'
    BY <1>1, <2>1, <2>2, IssuedStays DEF InFamily
  <2>6. ASSUME NEW j \in TokenId, token'[j].family = f PROVE ~Live(j)'
    <3>1. CASE Shrinks(j)
      BY <2>4, <2>6, <3>1 DEF Shrinks
    <3>2. CASE ~Shrinks(j)
      <4>1. ~Issued(j)
             /\ (token'[j].family = j
                 \/ \E o \in Workers : Append(o) /\ worker[o].family = f)
        BY <1>1, <2>6, <3>2, TokenWrites
      <4>2. \A o \in Workers : ~(Append(o) /\ worker[o].family = f)
        BY <1>1 DEF Ended, Rotating, Append
      <4>3. QED
        BY <2>3, <2>6, <4>1, <4>2
    <3>3. QED
      BY <3>1, <3>2
  <2>7. ASSUME NEW w \in Workers, worker'[w].pc \in {"owner", "append"},
               worker'[w].family = f
        PROVE  FALSE
    BY <1>1, <2>4, <2>7, NextRotating DEF Ended
  <2>8. QED
    BY <2>5, <2>6, <2>7 DEF Ended, InFamily, Rotating
<1>2. Inv /\ [Next]_svars => [\A f \in TokenId : Ended(f) => Ended(f)']_svars
  BY <1>1
<1>3. QED
  BY <1>2, SessionsInvariant, PTL DEF Spec, EndedStaysEnded

-----------------------------------------------------------------------------
(* A reset ends every session *)

\* What access tokens carry, or are about to, was the version at some time, and
\* versions only grow.
AccessInv ==
  /\ \A v \in access : v <= version
  /\ \A w \in Workers : worker[w].pc = "append" => worker[w].version <= version

\* A password is set by Redeem alone, which spends its link, revokes whatever was
\* issued and takes the next version.
LEMMA PasswordWrites ==
  ASSUME Inv, [Next]_svars, password' # password
  PROVE  /\ \E j \in LinkId : link[j] = "unused" /\ link'[j] = "used"
         /\ token' = Revoked(TokenId)
         /\ version' = version + 1 /\ access' = access
<1>1. PICK w \in Workers : Redeem(w)
  BY DEF Inv, TypeOK, Next, Begin, WorkerStep, BeginLogin,
     BeginLogoutEverywhere, BeginForgot, BeginRefresh, BeginLogout, BeginReset,
     OpenFamily, Claim, ReadOwner, Append, RevokeFamily, RevokeAll, Bump,
     Supersede, CreateLink, Fail, SetAccount, svars
<1>2. worker[w] \in [pc : {"redeem"}, link : LinkId]
  BY <1>1, FreeHasNoLocals DEF Redeem, Inv, TypeOK, Worker
<1>3. PICK j \in LinkId : j = worker[w].link
  BY <1>2
<1>4. link[j] = "unused" /\ link' = [link EXCEPT ![j] = "used"]
  BY <1>1, <1>3 DEF Redeem
<1>5. link'[j] = "used"
  BY <1>4 DEF Inv, TypeOK
<1>6. QED
  BY <1>1, <1>4, <1>5 DEF Redeem

\* No step takes a version back.
LEMMA VersionGrows ==
  ASSUME Inv, [Next]_svars
  PROVE  version \in Nat /\ version' \in Nat /\ version <= version'
<1>1. version \in Nat
  BY SessionBounds DEF Inv, TypeOK, Versions
<1>2. version' = version \/ version' = version + 1
  BY DEF Next, Begin, WorkerStep, BeginLogin, BeginLogoutEverywhere,
     BeginForgot, BeginRefresh, BeginLogout, BeginReset, OpenFamily, Claim,
     ReadOwner, Append, RevokeFamily, RevokeAll, Bump, Supersede, CreateLink,
     Redeem, Fail, SetAccount, svars
<1>3. QED
  BY <1>1, <1>2

\* An access token carries the version its handler read.
LEMMA AccessWrites ==
  ASSUME Inv, [Next]_svars, NEW v \in access', v \notin access
  PROVE  \/ v = version
         \/ \E w \in Workers : worker[w].pc = "append" /\ v = worker[w].version
<1>1. \E w \in Workers : BeginLogin(w) \/ Append(w)
  BY DEF Next, Begin, WorkerStep, BeginLogoutEverywhere, BeginForgot,
     BeginRefresh, BeginLogout, BeginReset, OpenFamily, Claim, ReadOwner,
     RevokeFamily, RevokeAll, Bump, Supersede, CreateLink, Redeem, Fail,
     SetAccount, svars
<1>2. QED
  BY <1>1 DEF BeginLogin, Append

\* A handler that is about to append has just read the account, or was about to.
LEMMA AppendReads ==
  ASSUME Inv, [Next]_svars, NEW w \in Workers, worker'[w].pc = "append"
  PROVE  worker'[w] = worker[w] \/ worker'[w].version = version
<1>1. SUFFICES ASSUME worker'[w] # worker[w] PROVE worker'[w].version = version
  OBVIOUS
<1>2. Begin(w) \/ WorkerStep(w) \/ Fail(w)
  BY <1>1, OwnStep DEF Inv
<1>3. worker' = [worker EXCEPT ![w] = worker'[w]] /\ worker'[w] # Free
  BY <1>1, <1>2, FreeHasNoLocals DEF Begin, WorkerStep, BeginLogin,
     BeginLogoutEverywhere, BeginForgot, BeginRefresh, BeginLogout, BeginReset,
     OpenFamily, Claim, ReadOwner, Append, RevokeFamily, RevokeAll, Bump,
     Supersede, CreateLink, Redeem, Fail, Go, Inv, TypeOK
<1>4. ReadOwner(w)
  <2>1. worker[w].pc = "owner"
    BY <1>1, Arrival DEF Inv
  <2>2. worker[w] # Free
    BY <2>1, FreeHasNoLocals
  <2>3. ~Fail(w)
    BY <1>3 DEF Fail, Go, Inv, TypeOK
  <2>4. QED
    BY <1>2, <2>1, <2>2, <2>3 DEF Begin, WorkerStep, BeginLogin,
       BeginLogoutEverywhere, BeginForgot, BeginRefresh, BeginLogout,
       BeginReset, OpenFamily, Claim, Append, RevokeFamily, RevokeAll, Bump,
       Supersede, CreateLink, Redeem
<1>5. QED
  BY <1>4, <1>3 DEF ReadOwner, Go, Free, Inv, TypeOK

\* No access token is ahead of its account (IssueToken, RevokeAllSessions).
THEOREM AccessInvariant == Spec => [](Inv /\ AccessInv)
<1>1. Init => AccessInv
  BY FreeHasNoLocals DEF Init, AccessInv
<1>2. ASSUME Inv, AccessInv, [Next]_svars PROVE AccessInv'
  <2>1. \A v \in access \cup {version} : v \in Nat /\ v <= version'
    BY <1>2, VersionGrows, SessionBounds DEF AccessInv, Inv, TypeOK, Versions
  <2>2. ASSUME NEW w \in Workers, worker[w].pc = "append"
        PROVE  worker[w].version \in Nat /\ worker[w].version <= version'
    <3>1. worker[w].version \in Versions
      BY <1>2, <2>2, FreeHasNoLocals DEF Worker, Inv, TypeOK
    <3>2. QED
      BY <1>2, <2>2, <3>1, VersionGrows, SessionBounds DEF AccessInv, Versions
  <2>3. ASSUME NEW v \in access' PROVE v <= version'
    BY <1>2, <2>1, <2>2, <2>3, AccessWrites
  <2>4. ASSUME NEW w \in Workers, worker'[w].pc = "append"
        PROVE  worker'[w].version <= version'
    BY <1>2, <2>1, <2>2, <2>4, AppendReads
  <2>5. QED
    BY <2>3, <2>4 DEF AccessInv
<1>3. Inv /\ [Next]_svars => Inv'
  BY NextTypeOK, NextChainInv DEF Inv
<1>4. QED
  BY <1>1, <1>2, <1>3, InitInv, PTL DEF Spec

\* A password changes only by spending a link that nobody has spent; with it no
\* refresh token is left to rotate and no access token passes, whatever handlers
\* are under way (ConsumePasswordReset).
THEOREM ResetEvictsHolds == Spec => ResetEvicts
<1>1. ASSUME Inv, AccessInv, [Next]_svars, password' # password
      PROVE  /\ \E j \in LinkId : link[j] = "unused" /\ link'[j] = "used"
             /\ \A i \in TokenId : ~Live(i)'
             /\ version' \notin access'
  <2>1. ASSUME NEW i \in TokenId, Live(i)' PROVE FALSE
    <3>1. token'[i] = IF Issued(i) THEN [token[i] EXCEPT !.revoked = TRUE]
                      ELSE token[i]
      BY <1>1, PasswordWrites DEF Revoked
    <3>2. CASE Issued(i)
      <4>1. token[i] \in Token
        BY <1>1, <3>2 DEF Inv, TypeOK, Issued
      <4>2. token'[i].revoked
        BY <3>1, <3>2, <4>1 DEF Token
      <4>3. QED
        BY <2>1, <4>2 DEF Live
    <3>3. CASE ~Issued(i)
      BY <2>1, <3>1, <3>3 DEF Live, Issued
    <3>4. QED
      BY <3>2, <3>3
  <2>2. version' \notin access'
    BY <1>1, PasswordWrites, VersionGrows DEF AccessInv
  <2>3. QED
    BY <1>1, <2>1, <2>2, PasswordWrites
<1>2. Inv /\ AccessInv /\ [Next]_svars =>
        [password' # password =>
           /\ \E j \in LinkId : link[j] = "unused" /\ link'[j] = "used"
           /\ \A i \in TokenId : ~Live(i)'
           /\ version' \notin access']_svars
  BY <1>1
<1>3. QED
  BY <1>2, AccessInvariant, PTL DEF Spec, ResetEvicts

\* Rows, links, versions and handlers' locals keep their shape, for any number of
\* them (the tables of refresh.go and password_reset.go).
THEOREM SessionsTypeCorrect == Spec => []TypeOK
<1>1. Inv => TypeOK
  BY DEF Inv
<1>2. QED
  BY <1>1, SessionsInvariant, PTL

-----------------------------------------------------------------------------
(* The relay *)

\* Who rotates a family rotates a token of it.
RotatesTokens ==
  \A w \in Workers : \A f \in TokenId : Rotating(w, f) => InFamily(f) # {}

Chains == Inv /\ AccessInv /\ RotatesTokens

\* Tokens keep their families, so that a rotation keeps the token it began with.
LEMMA NextRotatesTokens ==
  ASSUME Inv, RotatesTokens, [Next]_svars PROVE RotatesTokens'
<1> SUFFICES ASSUME NEW w \in Workers, NEW f \in TokenId,
                    worker'[w].pc \in {"owner", "append"}, worker'[w].family = f
             PROVE  \E i \in TokenId : token'[i].family = f
  BY DEF RotatesTokens, Rotating, InFamily
<1>1. \E i \in TokenId : token[i].family = f
  BY NextRotating DEF RotatesTokens, InFamily
<1>2. \A i \in TokenId : token[i].family = f => Issued(i)
  BY DEF Issued, NoToken, TokenId
<1>3. QED
  BY <1>1, <1>2, IssuedStays

\* The strengthening the relay needs holds throughout.
LEMMA ChainsInvariant == Spec => []Chains
<1>1. Init => RotatesTokens
  BY FreeHasNoLocals DEF Init, RotatesTokens, Rotating
<1>2. Inv /\ RotatesTokens /\ [Next]_svars => RotatesTokens'
  BY NextRotatesTokens
<1>3. QED
  BY <1>1, <1>2, SessionsInvariant, AccessInvariant, PTL DEF Spec, Chains

\* What a family looks like as a baton, by its tokens and its rotation.
BatonReads ==
  \A f \in TokenId :
    /\ InFamily(f) = {} => batonBar[f] = [is |-> "none"]
    /\ \A i \in TokenId : Live(i) /\ token[i].family = f =>
         batonBar[f] = [is |-> "carried", by |-> i]
    /\ \A w \in Workers : Rotating(w, f) => batonBar[f] = [is |-> "passing"]
    /\ Ended(f) => batonBar[f] = [is |-> "dropped"]

\* A family that is carried or passed on is neither forked nor anything else.
LEMMA BatonIs == Chains => BatonReads
<1> SUFFICES ASSUME Chains, NEW f \in TokenId
             PROVE  /\ InFamily(f) = {} => batonBar[f] = [is |-> "none"]
                    /\ \A i \in TokenId : Live(i) /\ token[i].family = f =>
                         batonBar[f] = [is |-> "carried", by |-> i]
                    /\ \A w \in Workers : Rotating(w, f) =>
                         batonBar[f] = [is |-> "passing"]
                    /\ Ended(f) => batonBar[f] = [is |-> "dropped"]
  BY DEF BatonReads
<1> DEFINE live == {i \in InFamily(f) : Live(i)}
           rotating == {w \in Workers : Rotating(w, f)}
<1>1. batonBar[f] =
        IF InFamily(f) = {} THEN [is |-> "none"]
        ELSE IF live = {} /\ rotating = {} THEN [is |-> "dropped"]
        ELSE IF rotating = {} THEN [is |-> "carried", by |-> CHOOSE i \in live : TRUE]
        ELSE IF live = {} THEN [is |-> "passing"]
        ELSE [is |-> "forked"]
  BY DEF batonBar
<1>2. ASSUME NEW i \in TokenId, Live(i), token[i].family = f
      PROVE  batonBar[f] = [is |-> "carried", by |-> i]
  <2>1. i \in live /\ InFamily(f) # {}
    BY <1>2 DEF InFamily
  <2>2. live = {i}
    BY <1>2, <2>1 DEF InFamily, Chains, Inv, ChainInv, ChainNeverForks
  <2>3. rotating = {}
    BY <1>2 DEF Chains, Inv, ChainInv
  <2>4. (CHOOSE x \in live : TRUE) = i
    BY <2>2
  <2>5. QED
    BY <1>1, <2>1, <2>3, <2>4
<1>3. ASSUME NEW w \in Workers, Rotating(w, f)
      PROVE  batonBar[f] = [is |-> "passing"]
  <2>1. \A i \in TokenId : token[i].family = f => ~Live(i)
    BY <1>3 DEF Chains, Inv, ChainInv
  <2>2. live = {} /\ w \in rotating
    BY <1>3, <2>1 DEF InFamily
  <2>3. InFamily(f) # {}
    BY <1>3 DEF Chains, RotatesTokens
  <2>4. QED
    BY <1>1, <2>2, <2>3
<1>4. ASSUME Ended(f) PROVE batonBar[f] = [is |-> "dropped"]
  BY <1>1, <1>4 DEF Ended
<1>5. QED
  BY <1>1, <1>2, <1>3, <1>4

\* There is no fifth way for a family to be.
LEMMA BatonCases ==
  ASSUME NEW f \in TokenId
  PROVE  \/ InFamily(f) = {} \/ Ended(f)
         \/ \E i \in TokenId : Live(i) /\ token[i].family = f
         \/ \E w \in Workers : Rotating(w, f)
BY DEF Ended, InFamily

\* A family that neither gains nor loses a token and is rotated as before is the
\* same baton.
LEMMA SameBaton ==
  ASSUME NEW f \in TokenId,
         \A i \in TokenId : /\ token'[i].family = f <=> token[i].family = f
                            /\ token[i].family = f => (Live(i)' <=> Live(i)),
         \A w \in Workers : Rotating(w, f)' <=> Rotating(w, f)
  PROVE  batonBar'[f] = batonBar[f]
<1>1. InFamily(f)' = InFamily(f)
  BY DEF InFamily
<1>2. {i \in InFamily(f) : Live(i)}' = {i \in InFamily(f) : Live(i)}
  BY <1>1 DEF InFamily
<1>3. {w \in Workers : Rotating(w, f)}' = {w \in Workers : Rotating(w, f)}
  OBVIOUS
<1>4. QED
  BY <1>1, <1>2, <1>3 DEF batonBar

\* Steps that leave the tokens alone and rotate the same families keep every
\* baton where it is.
LEMMA SameBatons ==
  ASSUME token' = token,
         \A w \in Workers : \A f \in TokenId : Rotating(w, f)' <=> Rotating(w, f)
  PROVE  batonBar' = batonBar
<1>1. \A f \in TokenId : batonBar'[f] = batonBar[f]
  BY SameBaton DEF Live, Issued
<1>2. DOMAIN batonBar = TokenId /\ DOMAIN batonBar' = TokenId
  BY DEF batonBar
<1>3. QED
  BY <1>1, <1>2 DEF batonBar

\* A step that moves one baton.
LEMMA OneBaton ==
  ASSUME NEW f \in TokenId, NEW x, batonBar'[f] = x,
         \A g \in TokenId : g # f => batonBar'[g] = batonBar[g]
  PROVE  batonBar' = [batonBar EXCEPT ![f] = x]
<1>1. DOMAIN batonBar = TokenId /\ DOMAIN batonBar' = TokenId
  BY DEF batonBar
<1>2. batonBar' = [g \in TokenId |-> batonBar'[g]]
  BY DEF batonBar
<1>3. [batonBar EXCEPT ![f] = x] =
        [g \in TokenId |-> IF g = f THEN x ELSE batonBar[g]]
  BY <1>1
<1>4. QED
  BY <1>2, <1>3

\* What is in a family has been issued.
LEMMA FamilyOfToken ==
  ASSUME NEW f \in TokenId, NEW i \in TokenId, token[i].family = f
  PROVE  Issued(i)
BY DEF Issued, NoToken, TokenId

\* A worker whose new locals rotate what the old ones did.
LEMMA StillRotating ==
  ASSUME TypeOK, NEW w \in Workers, NEW x, Go(w, x),
         \A f \in TokenId :
           x.pc \in {"owner", "append"} /\ x.family = f <=> Rotating(w, f)
  PROVE  \A o \in Workers : \A f \in TokenId : Rotating(o, f)' <=> Rotating(o, f)
<1> SUFFICES ASSUME NEW o \in Workers, NEW f \in TokenId
             PROVE  Rotating(o, f)' <=> Rotating(o, f)
  OBVIOUS
<1>1. worker'[w] = x /\ \A v \in Workers : v # w => worker'[v] = worker[v]
  BY DEF Go, TypeOK
<1>2. CASE o = w
  BY <1>1, <1>2 DEF Rotating
<1>3. CASE o # w
  BY <1>1, <1>3 DEF Rotating
<1>4. QED
  BY <1>2, <1>3

\* A step of a handler that rotates nothing, before and after, and leaves the
\* tokens alone moves no baton.
LEMMA QuietStep ==
  ASSUME Chains, NEW w \in Workers, NEW x, Go(w, x), token' = token,
         worker[w].pc \notin {"owner", "append"},
         x.pc \notin {"owner", "append"}
  PROVE  batonBar' = batonBar /\ {i \in TokenId : Issued(i)}' = {i \in TokenId : Issued(i)}
<1>1. \A o \in Workers : \A f \in TokenId : Rotating(o, f)' <=> Rotating(o, f)
  BY StillRotating DEF Chains, Inv, Rotating
<1>2. QED
  BY <1>1, SameBatons DEF Issued

\* Steps that move no baton: sign-in, the links, the version, and what handlers
\* read when they begin.
LEMMA DoorSteps ==
  ASSUME Chains, NEW w \in Workers,
         \/ BeginLogin(w) \/ BeginLogoutEverywhere(w) \/ BeginForgot(w)
         \/ \E i \in TokenId : BeginRefresh(w, i) \/ BeginLogout(w, i)
         \/ \E j \in LinkId : BeginReset(w, j)
         \/ Bump(w) \/ Supersede(w) \/ CreateLink(w)
  PROVE  [Run!RNext]_Run!rvars
<1> USE FreeHasNoLocals
<1> DEFINE Quiet == /\ batonBar' = batonBar
                    /\ {i \in TokenId : Issued(i)}' = {i \in TokenId : Issued(i)}
<1>1. CASE BeginLogin(w)
  <2>1. Quiet
    BY <1>1, QuietStep DEF BeginLogin
  <2>2. (version \in access)'
    BY <1>1 DEF BeginLogin
  <2>3. Run!Enter
    BY <1>1, <2>1, <2>2 DEF Run!Enter, BeginLogin
  <2>4. QED
    BY <2>3 DEF Run!RNext
<1>2. CASE \/ BeginLogoutEverywhere(w) \/ BeginForgot(w)
           \/ \E i \in TokenId : BeginLogout(w, i)
           \/ \E j \in LinkId : BeginReset(w, j)
  <2>1. Quiet
    BY <1>2, QuietStep DEF BeginLogoutEverywhere, BeginForgot, BeginLogout, BeginReset
  <2>2. UNCHANGED <<version, access, password, link>>
    BY <1>2 DEF BeginLogoutEverywhere, BeginForgot, BeginLogout, BeginReset
  <2>3. QED
    BY <2>1, <2>2 DEF Run!rvars
<1>3. ASSUME NEW i \in TokenId, BeginRefresh(w, i) PROVE [Run!RNext]_Run!rvars
  <2>1. Quiet
    BY <1>3, QuietStep DEF BeginRefresh
  <2>2. QED
    BY <1>3, <2>1 DEF Run!rvars, BeginRefresh
<1>4. CASE Bump(w)
  <2>1. Quiet
    BY <1>4, QuietStep DEF Bump
  <2>2. (version \in access)' = FALSE
    BY <1>4, SessionBounds DEF Bump, Chains, AccessInv, Inv, TypeOK, Versions
  <2>3. Run!Lock
    BY <1>4, <2>1, <2>2 DEF Run!Lock, Bump
  <2>4. QED
    BY <2>3 DEF Run!RNext
<1>5. CASE Supersede(w)
  <2>1. Quiet
    BY <1>5, QuietStep DEF Supersede
  <2>2. Run!Withdraw
    BY <1>5, <2>1 DEF Run!Withdraw, Supersede
  <2>3. QED
    BY <2>2 DEF Run!RNext
<1>6. CASE CreateLink(w)
  <2>1. Quiet
    BY <1>6, QuietStep DEF CreateLink
  <2>2. \E j \in LinkId : Run!Offer(j)
    BY <1>6, <2>1 DEF Run!Offer, CreateLink
  <2>3. QED
    BY <2>2 DEF Run!RNext
<1>7. QED
  BY <1>1, <1>2, <1>3, <1>4, <1>5, <1>6

\* The sign-in's refresh token begins a session (IssueRefreshToken).
LEMMA OpenStarts ==
  ASSUME Chains, Chains', NEW w \in Workers, OpenFamily(w)
  PROVE  [Run!RNext]_Run!rvars
<1> USE FreeHasNoLocals
<1>1. PICK k \in TokenId : NextToken(k) /\ token' = [token EXCEPT ![k] = Fresh(k)]
  BY DEF OpenFamily
<1>2. /\ token \in [TokenId -> Token \cup {NoToken}] /\ ~Issued(k)
      /\ token[k] = NoToken /\ k # 0
  BY <1>1 DEF NextToken, Chains, Inv, TypeOK, Issued, TokenId
<1>3. /\ \A i \in TokenId : i # k => token'[i] = token[i]
      /\ token'[k] = Fresh(k)
  BY <1>1, <1>2
<1>4. token'[k].family = k /\ Issued(k)' /\ Live(k)'
  BY <1>3 DEF Fresh, NoToken, Issued, Live
<1>5. \A o \in Workers : \A f \in TokenId : Rotating(o, f)' <=> Rotating(o, f)
  BY StillRotating DEF OpenFamily, Rotating, Chains, Inv
<1>6. \A i \in TokenId : Issued(i) => token[i].family # k
  BY <1>2, NoFamilyYet DEF Chains
<1>7. InFamily(k) = {}
  BY <1>6, FamilyOfToken DEF InFamily
<1>8. batonBar[k] = Run!NotBegun
  BY <1>7, BatonIs DEF BatonReads, Run!NotBegun
<1>9. BatonReads'
  BY BatonIs, PTL
<1>10. batonBar'[k] = Run!Carried(k)
  BY <1>4, <1>9 DEF BatonReads, Run!Carried
<1>11. ASSUME NEW f \in TokenId, f # k PROVE batonBar'[f] = batonBar[f]
  <2>1. ASSUME NEW i \in TokenId
        PROVE  /\ token'[i].family = f <=> token[i].family = f
               /\ token[i].family = f => (Live(i)' <=> Live(i))
    <3>1. CASE i = k
      <4>1. token[i].family # f /\ token'[i].family # f
        BY <1>2, <1>4, <1>11, <3>1 DEF NoToken, TokenId
      <4>2. QED
        BY <4>1
    <3>2. CASE i # k
      BY <1>3, <3>2 DEF Live, Issued
    <3>3. QED
      BY <3>1, <3>2
  <2>2. QED
    BY <2>1, <1>5, SameBaton
<1>12. batonBar' = [batonBar EXCEPT ![k] = Run!Carried(k)]
  BY <1>10, <1>11, OneBaton
<1>13. {i \in TokenId : Issued(i)}' = {i \in TokenId : Issued(i)} \cup {k}
  BY <1>3, <1>4 DEF Issued
<1>14. Run!Start(k)
  BY <1>2, <1>8, <1>12, <1>13 DEF Run!Start, OpenFamily
<1>15. QED
  BY <1>14 DEF Run!RNext

\* A claim takes the ticket away (RotateRefreshToken's conditional UPDATE).
LEMMA ClaimLetsGo ==
  ASSUME Chains, Chains', [Next]_svars, NEW w \in Workers, Claim(w)
  PROVE  [Run!RNext]_Run!rvars
<1> USE FreeHasNoLocals
<1>a. /\ token \in [TokenId -> Token \cup {NoToken}]
      /\ worker \in [Workers -> Worker \cup {Free}]
  BY DEF Chains, Inv, TypeOK
<1>b. worker[w] \in [pc : {"claim", "owner"}, tok : TokenId, family : TokenId]
  BY <1>a DEF Claim, Worker
<1>1. CASE ~Live(worker[w].tok)
  <2>1. /\ batonBar' = batonBar
        /\ {i \in TokenId : Issued(i)}' = {i \in TokenId : Issued(i)}
    BY <1>1, QuietStep DEF Claim
  <2>2. QED
    BY <1>1, <2>1 DEF Run!rvars, Claim
<1>2. CASE Live(worker[w].tok)
  <2>1. PICK k \in TokenId : k = worker[w].tok
    BY <1>b
  <2>2. PICK f \in TokenId : f = worker[w].family
    BY <1>b
  <2>3. /\ Live(k) /\ token[k].family = f /\ token[k] \in Token
        /\ token' = [token EXCEPT ![k].used = TRUE]
        /\ Go(w, [worker[w] EXCEPT !.pc = "owner"])
    BY <1>2, <1>a, <2>1, <2>2 DEF Claim, Chains, Inv, ChainInv, Live, Issued
  <2>4. /\ token'[k].family = f /\ token'[k] \in Token
        /\ \A i \in TokenId : i # k => token'[i] = token[i]
    BY <1>a, <2>3 DEF Token
  <2>5. /\ worker'[w].pc = "owner" /\ worker'[w].family = f
        /\ \A o \in Workers : o # w => worker'[o] = worker[o]
    BY <1>a, <1>b, <2>2, <2>3 DEF Go
  <2>6. Rotating(w, f)' /\ BatonReads' /\ BatonReads
    <3>1. BatonReads'
      BY BatonIs, PTL
    <3>2. QED
      BY <2>5, <3>1, BatonIs DEF Rotating
  <2>7. batonBar[f] = Run!Carried(k) /\ batonBar'[f] = Run!Passing
    BY <2>3, <2>6 DEF BatonReads, Run!Carried, Run!Passing
  <2>8. ASSUME NEW g \in TokenId, g # f PROVE batonBar'[g] = batonBar[g]
    <3>1. ASSUME NEW i \in TokenId
          PROVE  /\ token'[i].family = g <=> token[i].family = g
                 /\ token[i].family = g => (Live(i)' <=> Live(i))
      <4>1. CASE i = k
        BY <2>3, <2>4, <2>8, <4>1
      <4>2. CASE i # k
        BY <2>4, <4>2 DEF Live, Issued
      <4>3. QED
        BY <4>1, <4>2
    <3>2. ASSUME NEW o \in Workers PROVE Rotating(o, g)' <=> Rotating(o, g)
      <4>1. CASE o = w
        BY <2>2, <2>5, <2>8, <4>1 DEF Rotating
      <4>2. CASE o # w
        BY <2>5, <4>2 DEF Rotating
      <4>3. QED
        BY <4>1, <4>2
    <3>3. QED
      BY <3>1, <3>2, SameBaton
  <2>9. batonBar' = [batonBar EXCEPT ![f] = Run!Passing]
    BY <2>7, <2>8, OneBaton
  <2>10. {i \in TokenId : Issued(i)}' = {i \in TokenId : Issued(i)}
    <3>1. NoToken \notin Token
      BY DEF NoToken, Token
    <3>2. Issued(k) /\ Issued(k)'
      BY <2>3, <2>4, <3>1 DEF Issued
    <3>3. \A i \in TokenId : Issued(i)' <=> Issued(i)
      BY <2>4, <3>2 DEF Issued
    <3>4. QED
      BY <3>3
  <2>11. Run!LetGo(f)
    BY <2>7, <2>9, <2>10 DEF Run!LetGo, Run!Carried, Claim
  <2>12. QED
    BY <2>11 DEF Run!RNext
<1>3. QED
  BY <1>1, <1>2

\* What a worker rotates is a family.
LEMMA RotatesFamily ==
  ASSUME Inv, NEW w \in Workers, worker[w].pc \in {"owner", "append"}
  PROVE  worker[w].family \in TokenId
BY FreeHasNoLocals DEF Inv, TypeOK, Worker

\* A rotation that is given up, with its token spent and no successor, drops the
\* baton.
LEMMA GivenUp ==
  ASSUME Chains, Chains', NEW w \in Workers, NEW x, Go(w, x), token' = token,
         x.pc \notin {"owner", "append"},
         NEW f \in TokenId, Rotating(w, f)
  PROVE  /\ batonBar[f] = Run!Passing
         /\ batonBar' = [batonBar EXCEPT ![f] = Run!Dropped]
         /\ {i \in TokenId : Issued(i)}' = {i \in TokenId : Issued(i)}
<1>1. /\ worker'[w].pc \notin {"owner", "append"}
      /\ \A o \in Workers : o # w => worker'[o] = worker[o]
  BY DEF Go, Chains, Inv, TypeOK
<1>2. batonBar[f] = Run!Passing
  BY BatonIs DEF BatonReads, Run!Passing
<1>3. Ended(f)'
  <2>1. (InFamily(f) # {})'
    BY DEF Chains, RotatesTokens, InFamily
  <2>2. \A j \in TokenId : token'[j].family = f => ~Live(j)'
    BY DEF Chains, Inv, ChainInv, Live, Issued
  <2>3. \A o \in Workers : ~Rotating(o, f)'
    BY <1>1 DEF Chains, Inv, ChainInv, Rotating
  <2>4. QED
    BY <2>1, <2>2, <2>3 DEF Ended, InFamily
<1>4. BatonReads'
  BY BatonIs, PTL
<1>5. batonBar'[f] = Run!Dropped
  BY <1>3, <1>4 DEF BatonReads, Run!Dropped
<1>6. ASSUME NEW g \in TokenId, g # f PROVE batonBar'[g] = batonBar[g]
  <2>1. ASSUME NEW o \in Workers PROVE Rotating(o, g)' <=> Rotating(o, g)
    <3>1. CASE o = w
      BY <1>1, <1>6, <3>1 DEF Rotating
    <3>2. CASE o # w
      BY <1>1, <3>2 DEF Rotating
    <3>3. QED
      BY <3>1, <3>2
  <2>2. \A j \in TokenId : /\ token'[j].family = g <=> token[j].family = g
                           /\ token[j].family = g => (Live(j)' <=> Live(j))
    BY DEF Live, Issued
  <2>3. QED
    BY <2>1, <2>2, SameBaton
<1>7. batonBar' = [batonBar EXCEPT ![f] = Run!Dropped]
  BY <1>5, <1>6, OneBaton
<1>8. QED
  BY <1>2, <1>7 DEF Issued

\* A handler that dies gives up what it was rotating, or nothing.
LEMMA FailDrops ==
  ASSUME Chains, Chains', NEW w \in Workers, Fail(w)
  PROVE  [Run!RNext]_Run!rvars
<1> USE FreeHasNoLocals
<1>1. CASE worker[w].pc \notin {"owner", "append"}
  <2>1. /\ batonBar' = batonBar
        /\ {i \in TokenId : Issued(i)}' = {i \in TokenId : Issued(i)}
    BY <1>1, QuietStep DEF Fail
  <2>2. QED
    BY <2>1 DEF Run!rvars, Fail
<1>2. CASE worker[w].pc \in {"owner", "append"}
  <2>1. worker[w].family \in TokenId
    BY <1>2, RotatesFamily DEF Chains
  <2>2. PICK f \in TokenId : Rotating(w, f)
    BY <1>2, <2>1 DEF Rotating
  <2>3. /\ batonBar[f] = Run!Passing
        /\ batonBar' = [batonBar EXCEPT ![f] = Run!Dropped]
        /\ {i \in TokenId : Issued(i)}' = {i \in TokenId : Issued(i)}
    BY <2>2, GivenUp DEF Fail
  <2>4. Run!Drop(f)
    BY <2>3 DEF Run!Drop, Run!Passing, Fail
  <2>5. QED
    BY <2>4 DEF Run!RNext
<1>3. QED
  BY <1>1, <1>2

\* The owner decides whether the rotation goes on (RotateRefreshToken).
LEMMA OwnerDrops ==
  ASSUME Chains, Chains', NEW w \in Workers, ReadOwner(w)
  PROVE  [Run!RNext]_Run!rvars
<1> USE FreeHasNoLocals
<1>1. PICK f \in TokenId : f = worker[w].family /\ Rotating(w, f)
  BY RotatesFamily DEF ReadOwner, Rotating, Chains
<1>2. CASE account = "active"
  <2>1. /\ Go(w, [pc |-> "append", family |-> f, version |-> version])
        /\ token' = token
    BY <1>1, <1>2 DEF ReadOwner
  <2>2. \A g \in TokenId : f = g <=> Rotating(w, g)
    BY <1>1 DEF Rotating
  <2>3. \A o \in Workers : \A g \in TokenId : Rotating(o, g)' <=> Rotating(o, g)
    BY <2>1, <2>2, StillRotating DEF Chains, Inv
  <2>4. batonBar' = batonBar
    BY <2>1, <2>3, SameBatons
  <2>5. {i \in TokenId : Issued(i)}' = {i \in TokenId : Issued(i)}
    BY <2>1 DEF Issued
  <2>6. QED
    BY <2>4, <2>5 DEF Run!rvars, ReadOwner
<1>3. CASE account # "active"
  <2>1. PICK x : Go(w, x) /\ x.pc \in {"free", "revoke"}
    BY <1>3 DEF ReadOwner
  <2>2. /\ batonBar[f] = Run!Passing
        /\ batonBar' = [batonBar EXCEPT ![f] = Run!Dropped]
        /\ {i \in TokenId : Issued(i)}' = {i \in TokenId : Issued(i)}
    BY <1>1, <2>1, GivenUp DEF ReadOwner
  <2>3. Run!Drop(f)
    BY <2>2 DEF Run!Drop, Run!Passing, ReadOwner
  <2>4. QED
    BY <2>3 DEF Run!RNext
<1>4. QED
  BY <1>2, <1>3

\* The successor takes the baton up; its access token may be of a version that
\* is gone (appendToFamily).
LEMMA AppendPasses ==
  ASSUME Chains, Chains', NEW w \in Workers, Append(w)
  PROVE  [Run!RNext]_Run!rvars
<1> USE FreeHasNoLocals
<1>1. PICK f \in TokenId : f = worker[w].family /\ Rotating(w, f)
  BY RotatesFamily DEF Append, Rotating, Chains
<1>2. PICK k \in TokenId : NextToken(k) /\ token' = [token EXCEPT ![k] = Fresh(f)]
  BY <1>1 DEF Append
<1>3. /\ token \in [TokenId -> Token \cup {NoToken}] /\ ~Issued(k)
      /\ token[k] = NoToken
  BY <1>2 DEF NextToken, Chains, Inv, TypeOK, Issued
<1>4. /\ \A i \in TokenId : i # k => token'[i] = token[i]
      /\ token'[k] = Fresh(f)
  BY <1>2, <1>3
<1>5. token'[k].family = f /\ Issued(k)' /\ Live(k)'
  BY <1>4 DEF Fresh, NoToken, Issued, Live
<1>6. /\ worker'[w] = Free
      /\ \A o \in Workers : o # w => worker'[o] = worker[o]
  BY DEF Append, Go, Chains, Inv, TypeOK
<1>7. BatonReads /\ BatonReads'
  BY BatonIs, PTL
<1>8. batonBar[f] = Run!Passing /\ batonBar'[f] = Run!Carried(k)
  BY <1>1, <1>5, <1>7 DEF BatonReads, Run!Passing, Run!Carried
<1>9. ASSUME NEW g \in TokenId, g # f PROVE batonBar'[g] = batonBar[g]
  <2>1. ASSUME NEW i \in TokenId
        PROVE  /\ token'[i].family = g <=> token[i].family = g
               /\ token[i].family = g => (Live(i)' <=> Live(i))
    <3>1. CASE i = k
      <4>1. token[i].family # g /\ token'[i].family # g
        BY <1>3, <1>5, <1>9, <3>1 DEF NoToken, TokenId
      <4>2. QED
        BY <4>1
    <3>2. CASE i # k
      BY <1>4, <3>2 DEF Live, Issued
    <3>3. QED
      BY <3>1, <3>2
  <2>2. ASSUME NEW o \in Workers PROVE Rotating(o, g)' <=> Rotating(o, g)
    <3>1. CASE o = w
      BY <1>1, <1>6, <1>9, <3>1 DEF Rotating
    <3>2. CASE o # w
      BY <1>6, <3>2 DEF Rotating
    <3>3. QED
      BY <3>1, <3>2
  <2>3. QED
    BY <2>1, <2>2, SameBaton
<1>10. batonBar' = [batonBar EXCEPT ![f] = Run!Carried(k)]
  BY <1>8, <1>9, OneBaton
<1>11. {i \in TokenId : Issued(i)}' = {i \in TokenId : Issued(i)} \cup {k}
  BY <1>4, <1>5 DEF Issued
<1>12. UNCHANGED (version \in access) \/ (version \in access)' = TRUE
  BY DEF Append
<1>13. Run!PassTo(f, k)
  BY <1>3, <1>8, <1>10, <1>11, <1>12 DEF Run!PassTo, Append
<1>14. QED
  BY <1>13 DEF Run!RNext

\* What a revocation reaches is not live after it.
LEMMA RevokedDead ==
  ASSUME TypeOK, NEW T, token' = Revoked(T), NEW i \in TokenId, i \in T
  PROVE  ~Live(i)'
<1>1. token'[i] = IF Issued(i) THEN [token[i] EXCEPT !.revoked = TRUE]
                  ELSE token[i]
  BY DEF Revoked
<1>2. CASE Issued(i)
  <2>1. token[i] \in Token
    BY <1>2 DEF TypeOK, Issued
  <2>2. token'[i].revoked
    BY <1>1, <1>2, <2>1 DEF Token
  <2>3. QED
    BY <2>2 DEF Live
<1>3. CASE ~Issued(i)
  BY <1>1, <1>3 DEF Live, Issued
<1>4. QED
  BY <1>2, <1>3

\* A revocation of all tokens of a family takes its baton if somebody carries it,
\* and passes a rotation by (RevokeRefreshFamily).
LEMMA RevokedBaton ==
  ASSUME Chains, Chains', NEW T \in SUBSET TokenId, token' = Revoked(T),
         NEW f \in TokenId,
         \/ \A i \in TokenId : token[i].family = f => i \in T
         \/ \A i \in TokenId : token[i].family = f => i \notin T,
         \A w \in Workers : Rotating(w, f)' <=> Rotating(w, f)
  PROVE  batonBar'[f] =
           IF batonBar[f].is = "carried" /\ \E i \in T : token[i].family = f
           THEN Run!Dropped ELSE batonBar[f]
<1>1. \A i \in TokenId : /\ Issued(i)' <=> Issued(i)
                         /\ token'[i].family = token[i].family
                         /\ Live(i)' => Live(i)
  BY RevokedRows DEF Chains, Inv
<1>2. ASSUME NEW i \in TokenId, i \in T PROVE ~Live(i)'
  BY <1>2, RevokedDead DEF Chains, Inv
<1>3. BatonReads /\ BatonReads'
  BY BatonIs, PTL
<1>4. CASE \A i \in TokenId : token[i].family = f => i \notin T
  <2>1. ASSUME NEW i \in TokenId, token[i].family = f PROVE token'[i] = token[i]
    BY <1>4, <2>1 DEF Revoked
  <2>2. batonBar'[f] = batonBar[f]
    BY <1>1, <2>1, SameBaton DEF Live, Issued
  <2>3. ~\E i \in T : token[i].family = f
    BY <1>4
  <2>4. QED
    BY <2>2, <2>3
<1>5. CASE \A i \in TokenId : token[i].family = f => i \in T
  <2>1. \A i \in TokenId : token'[i].family = f => ~Live(i)'
    BY <1>1, <1>2, <1>5
  <2>2. CASE InFamily(f) = {}
    <3>1. (InFamily(f) = {})'
      BY <1>1, <2>2 DEF InFamily
    <3>2. batonBar[f] = [is |-> "none"] /\ batonBar'[f] = [is |-> "none"]
      BY <1>3, <2>2, <3>1 DEF BatonReads
    <3>3. QED
      BY <3>2
  <2>3. CASE Ended(f)
    <3>1. Ended(f)'
      BY <1>1, <2>1, <2>3 DEF Ended, InFamily
    <3>2. batonBar[f] = [is |-> "dropped"] /\ batonBar'[f] = [is |-> "dropped"]
      BY <1>3, <2>3, <3>1 DEF BatonReads
    <3>3. QED
      BY <3>2
  <2>4. ASSUME NEW i \in TokenId, Live(i), token[i].family = f
        PROVE  batonBar'[f] = IF /\ batonBar[f].is = "carried"
                                 /\ \E j \in T : token[j].family = f
                              THEN Run!Dropped ELSE batonBar[f]
    <3>1. \A w \in Workers : ~Rotating(w, f)
      BY <2>4 DEF Chains, Inv, ChainInv
    <3>2. Ended(f)'
      BY <1>1, <2>1, <2>4, <3>1 DEF Ended, InFamily
    <3>3. batonBar[f] = [is |-> "carried", by |-> i]
      BY <1>3, <2>4 DEF BatonReads
    <3>4. batonBar'[f] = Run!Dropped
      BY <1>3, <3>2 DEF BatonReads, Run!Dropped
    <3>5. \E j \in T : token[j].family = f
      BY <1>5, <2>4
    <3>6. QED
      BY <3>3, <3>4, <3>5
  <2>5. ASSUME NEW w \in Workers, Rotating(w, f)
        PROVE  batonBar'[f] = batonBar[f] /\ batonBar[f].is = "passing"
    <3>1. Rotating(w, f)'
      BY <2>5
    <3>2. batonBar[f] = [is |-> "passing"] /\ batonBar'[f] = [is |-> "passing"]
      BY <1>3, <2>5, <3>1 DEF BatonReads
    <3>3. QED
      BY <3>2
  <2>6. QED
    BY <2>2, <2>3, <2>4, <2>5, BatonCases
<1>6. QED
  BY <1>4, <1>5

\* All tokens revoked at once: every baton that is carried is taken.
LEMMA AllTaken ==
  ASSUME Chains, Chains', token' = Revoked(TokenId),
         \A w \in Workers : \A f \in TokenId : Rotating(w, f)' <=> Rotating(w, f)
  PROVE  /\ batonBar' = Run!Taken
         /\ {i \in TokenId : Issued(i)}' = {i \in TokenId : Issued(i)}
<1>1. BatonReads
  BY BatonIs
<1>2. ASSUME NEW f \in TokenId
      PROVE  batonBar'[f] = IF batonBar[f].is = "carried" THEN Run!Dropped
                            ELSE batonBar[f]
  <2>1. batonBar'[f] =
          IF batonBar[f].is = "carried" /\ \E i \in TokenId : token[i].family = f
          THEN Run!Dropped ELSE batonBar[f]
    BY RevokedBaton
  <2>2. CASE InFamily(f) = {}
    <3>1. batonBar[f] = [is |-> "none"]
      BY <1>1, <2>2 DEF BatonReads
    <3>2. QED
      BY <2>1, <3>1
  <2>3. CASE InFamily(f) # {}
    BY <2>1, <2>3 DEF InFamily
  <2>4. QED
    BY <2>2, <2>3
<1>3. batonBar' = [f \in TokenId |-> batonBar'[f]]
  BY DEF batonBar
<1>4. Run!Taken = [f \in TokenId |-> IF batonBar[f].is = "carried"
                                     THEN Run!Dropped ELSE batonBar[f]]
  BY DEF Run!Taken
<1>5. batonBar' = Run!Taken
  BY <1>2, <1>3, <1>4
<1>6. \A i \in TokenId : Issued(i)' <=> Issued(i)
  BY RevokedRows DEF Chains, Inv
<1>7. QED
  BY <1>5, <1>6

\* Revoking a family drops its baton, or misses it (RevokeRefreshFamily).
LEMMA RevokeDrops ==
  ASSUME Chains, Chains', NEW w \in Workers, RevokeFamily(w)
  PROVE  [Run!RNext]_Run!rvars
<1> USE FreeHasNoLocals
<1>1. PICK f \in TokenId : f = worker[w].family
  BY DEF RevokeFamily, Chains, Inv, TypeOK, Worker
<1>2. token' = Revoked(InFamily(f)) /\ Go(w, Free)
  BY <1>1 DEF RevokeFamily
<1>t. InFamily(f) \in SUBSET TokenId
  BY DEF InFamily
<1>3. \A o \in Workers : \A g \in TokenId : Rotating(o, g)' <=> Rotating(o, g)
  BY StillRotating DEF RevokeFamily, Rotating, Chains, Inv
<1>4. {i \in TokenId : Issued(i)}' = {i \in TokenId : Issued(i)}
  <2>1. \A i \in TokenId : Issued(i)' <=> Issued(i)
    BY <1>2, RevokedRows DEF Chains, Inv
  <2>2. QED
    BY <2>1
<1>5. ASSUME NEW g \in TokenId, g # f PROVE batonBar'[g] = batonBar[g]
  <2>1. \A i \in TokenId : token[i].family = g => i \notin InFamily(f)
    BY <1>5 DEF InFamily
  <2>2. ~\E i \in InFamily(f) : token[i].family = g
    BY <1>5 DEF InFamily
  <2>3. QED
    BY <1>2, <1>3, <1>t, <2>1, <2>2, RevokedBaton
<1>6. batonBar'[f] = Run!Dropped \/ batonBar'[f] = batonBar[f]
  <2>1. \A i \in TokenId : token[i].family = f => i \in InFamily(f)
    BY DEF InFamily
  <2>2. QED
    BY <1>2, <1>3, <1>t, <2>1, RevokedBaton
<1>7. CASE batonBar'[f] = batonBar[f]
  <2>1. batonBar' = batonBar
    BY <1>5, <1>7 DEF batonBar
  <2>2. QED
    BY <1>4, <2>1 DEF Run!rvars, RevokeFamily
<1>8. CASE batonBar'[f] # batonBar[f]
  <2>1. \A i \in TokenId : token[i].family = f => i \in InFamily(f)
    BY DEF InFamily
  <2>2. batonBar'[f] = IF /\ batonBar[f].is = "carried"
                          /\ \E i \in InFamily(f) : token[i].family = f
                       THEN Run!Dropped ELSE batonBar[f]
    BY <1>2, <1>3, <1>t, <2>1, RevokedBaton
  <2>3. batonBar[f].is = "carried" /\ batonBar'[f] = Run!Dropped
    BY <1>8, <2>2
  <2>4. batonBar' = [batonBar EXCEPT ![f] = Run!Dropped]
    BY <1>5, <2>3, OneBaton
  <2>5. Run!Drop(f)
    BY <1>4, <2>3, <2>4 DEF Run!Drop, RevokeFamily
  <2>6. QED
    BY <2>5 DEF Run!RNext
<1>9. QED
  BY <1>7, <1>8

\* Logging out everywhere takes whatever is carried (Logout's everywhere).
LEMMA RevokeAllTakes ==
  ASSUME Chains, Chains', NEW w \in Workers, RevokeAll(w)
  PROVE  [Run!RNext]_Run!rvars
<1>1. \A o \in Workers : \A f \in TokenId : Rotating(o, f)' <=> Rotating(o, f)
  BY StillRotating DEF RevokeAll, Rotating, Chains, Inv
<1>2. /\ batonBar' = Run!Taken
      /\ {i \in TokenId : Issued(i)}' = {i \in TokenId : Issued(i)}
  BY <1>1, AllTaken DEF RevokeAll
<1>3. Run!DropAll
  BY <1>2 DEF Run!DropAll, RevokeAll
<1>4. QED
  BY <1>3 DEF Run!RNext

\* The reset spends its link, takes what is carried and strands what is in
\* circulation, all at once (ConsumePasswordReset's transaction).
LEMMA RedeemChanges ==
  ASSUME Chains, Chains', NEW w \in Workers, Redeem(w)
  PROVE  [Run!RNext]_Run!rvars
<1> USE FreeHasNoLocals
<1>1. PICK j \in LinkId : j = worker[w].link
  BY DEF Redeem, Chains, Inv, TypeOK, Worker
<1>2. \A o \in Workers : \A f \in TokenId : Rotating(o, f)' <=> Rotating(o, f)
  BY StillRotating DEF Redeem, Rotating, Chains, Inv
<1>3. CASE link[j] # "unused"
  <2>1. UNCHANGED <<password, version, token, link, access>>
    BY <1>1, <1>3 DEF Redeem
  <2>2. batonBar' = batonBar
    BY <1>2, <2>1, SameBatons
  <2>3. QED
    BY <2>1, <2>2 DEF Run!rvars, Issued
<1>4. CASE link[j] = "unused"
  <2>1. /\ link' = [link EXCEPT ![j] = "used"]
        /\ password' = password + 1
        /\ token' = Revoked(TokenId)
        /\ version' = version + 1
        /\ access' = access
    BY <1>1, <1>4 DEF Redeem
  <2>2. /\ batonBar' = Run!Taken
        /\ {i \in TokenId : Issued(i)}' = {i \in TokenId : Issued(i)}
    BY <1>2, <2>1, AllTaken
  <2>3. (version \in access)' = FALSE
    BY <2>1, SessionBounds DEF Chains, AccessInv, Inv, TypeOK, Versions
  <2>4. Run!Change(j)
    BY <1>4, <2>1, <2>2, <2>3 DEF Run!Change
  <2>5. QED
    BY <2>4 DEF Run!RNext
<1>5. QED
  BY <1>3, <1>4

-----------------------------------------------------------------------------
\* Every step of the handlers is a step of the relay, or leaves it as it is.
LEMMA RelayStep == Chains /\ Chains' /\ [Next]_svars => [Run!RNext]_Run!rvars
<1> SUFFICES ASSUME Chains, Chains', [Next]_svars PROVE [Run!RNext]_Run!rvars
  OBVIOUS
<1>1. ASSUME NEW w \in Workers, Begin(w) PROVE [Run!RNext]_Run!rvars
  BY <1>1, DoorSteps DEF Begin
<1>2. ASSUME NEW w \in Workers, WorkerStep(w) PROVE [Run!RNext]_Run!rvars
  BY <1>2, OpenStarts, ClaimLetsGo, OwnerDrops, AppendPasses, RevokeDrops,
     RevokeAllTakes, DoorSteps, RedeemChanges DEF WorkerStep
<1>3. ASSUME NEW w \in Workers, Fail(w) PROVE [Run!RNext]_Run!rvars
  BY <1>3, FailDrops
<1>4. CASE (\E a \in {"active", "inactive", "deleted"} : SetAccount(a))
           \/ UNCHANGED svars
  <2>1. UNCHANGED <<password, version, token, link, access, worker>>
    BY <1>4 DEF SetAccount, svars
  <2>2. batonBar' = batonBar
    BY <2>1, SameBatons DEF Rotating
  <2>3. QED
    BY <2>1, <2>2 DEF Run!rvars, Issued
<1>5. QED
  BY <1>1, <1>2, <1>3, <1>4 DEF Next

\* The handlers of an account's sessions pass batons on, for any number of
\* handlers, tokens, links and failures: no ticket is good for two rotations, what
\* has ended is not taken up again, and a password costs a link and every session
\* that is carried (RotateRefreshToken, ConsumePasswordReset).
THEOREM RelayIsKept == Spec => KeepsRelay
<1>1. Init => Run!RInit
  <2> SUFFICES ASSUME Init PROVE Run!RInit
    OBVIOUS
  <2>1. \A i \in TokenId : ~Issued(i) /\ token[i].family # i
    BY DEF Init, Issued, NoToken, TokenId
  <2>2. \A f \in TokenId : InFamily(f) = {}
    BY DEF Init, InFamily, NoToken, TokenId
  <2>3. batonBar = [f \in TokenId |-> Run!NotBegun]
    BY <2>2 DEF batonBar, Run!NotBegun
  <2>4. {i \in TokenId : Issued(i)} = {}
    BY <2>1
  <2>5. (version \in access) = FALSE
    BY DEF Init
  <2>6. QED
    BY <2>3, <2>4, <2>5 DEF Run!RInit, Init
<1>2. QED
  BY <1>1, RelayStep, ChainsInvariant, PTL DEF Spec, KeepsRelay, Run!RSpec
=============================================================================
