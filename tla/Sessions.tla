------------------------------- MODULE Sessions -------------------------------
(***************************************************************************)
(* One account's sessions: refresh-token families and their rotation,      *)
(* access tokens and the version that strands them, password reset links   *)
(* (src/internal/services/refresh.go, password_reset.go, auth.go and       *)
(* handlers/session.go).                                                   *)
(*                                                                         *)
(* Every statement commits by itself, except in the reset transaction, so  *)
(* a handler is a worker that takes one statement per step.  What it read  *)
(* stays in its locals while other workers go on.  An expired token or     *)
(* link is refused without a trace when it is read, as if nobody had       *)
(* presented it, so expiry needs no state of its own.                      *)
(***************************************************************************)
EXTENDS Integers, FiniteSets

CONSTANTS
  Workers,      \* slots for handlers running at once
  MaxTokens,    \* bound: refresh_tokens rows ever created
  MaxLinks,     \* bound: password_reset_tokens rows ever created
  MaxVersion,   \* bound: the account's token_version
  MaxFaults     \* bound: failing statements and dying replicas

ASSUME SessionBounds ==
  MaxTokens \in Nat /\ MaxLinks \in Nat /\ MaxVersion \in Nat /\ MaxFaults \in Nat

VARIABLES
  account,    \* users row: is_active, or hard-deleted
  password,   \* which password is set, counted from 0
  version,    \* users.token_version
  token,      \* token[i]: the i-th refresh_tokens row
  link,       \* link[j]: the j-th password_reset_tokens row
  access,     \* token_versions of the access tokens issued
  worker,     \* worker[w]: locals of a handler
  faults

svars == <<account, password, version, token, link, access, worker, faults>>

TokenId == 1 .. MaxTokens
LinkId == 1 .. MaxLinks
Versions == 0 .. MaxVersion

\* A family is named after its first token.
Token == [family : TokenId, used : BOOLEAN, revoked : BOOLEAN]
NoToken == [family |-> 0]
LinkState == {"none", "unused", "used"}

Worker ==
  [pc : {"claim", "owner"}, tok : TokenId, family : TokenId]
  \cup [pc : {"append"}, family : TokenId, version : Versions]
  \cup [pc : {"revoke"}, family : TokenId]
  \cup [pc : {"open"}, version : Versions]
  \cup [pc : {"revokeAll", "bump", "supersede", "createLink"}]
  \cup [pc : {"redeem"}, link : LinkId]
Free == [pc |-> "free"]

TypeOK ==
  /\ account \in {"active", "inactive", "deleted"}
  /\ password \in Nat
  /\ version \in Versions
  /\ token \in [TokenId -> Token \cup {NoToken}]
  /\ link \in [LinkId -> LinkState]
  /\ access \subseteq Versions
  /\ worker \in [Workers -> Worker \cup {Free}]
  /\ faults \in 0 .. MaxFaults

Init ==
  /\ account = "active"
  /\ password = 0
  /\ version = 0
  /\ token = [i \in TokenId |-> NoToken]
  /\ link = [j \in LinkId |-> "none"]
  /\ access = {}
  /\ worker = [w \in Workers |-> Free]
  /\ faults = 0

-----------------------------------------------------------------------------
Issued(i) == token[i] # NoToken
Live(i) == Issued(i) /\ ~token[i].used /\ ~token[i].revoked
InFamily(f) == {i \in TokenId : token[i].family = f}
NextToken(i) == ~Issued(i) /\ \A j \in TokenId : j < i => Issued(j)

Go(w, next) == worker' = [worker EXCEPT ![w] = next]
Fresh(f) == [family |-> f, used |-> FALSE, revoked |-> FALSE]
Revoked(T) ==
  [i \in TokenId |->
     IF i \in T /\ Issued(i) THEN [token[i] EXCEPT !.revoked = TRUE] ELSE token[i]]

-----------------------------------------------------------------------------
(* Login *)

\* services.Login with the right password; the row as read goes into the
\* access token, which is signed before the refresh token is stored.
BeginLogin(w) ==
  /\ worker[w] = Free
  /\ account = "active"
  /\ Go(w, [pc |-> "open", version |-> version])
  /\ access' = access \cup {version}
  /\ UNCHANGED <<account, password, version, token, link, faults>>

\* IssueRefreshToken: each sign-in starts a family of its own.
OpenFamily(w) ==
  /\ worker[w].pc = "open"
  /\ \E i \in TokenId :
       NextToken(i) /\ token' = [token EXCEPT ![i] = Fresh(i)]
  /\ Go(w, Free)
  /\ UNCHANGED <<account, password, version, link, access, faults>>

-----------------------------------------------------------------------------
(* RotateRefreshToken *)

\* The row as read: a revoked token is refused and leaves no trace,
\* a used one is a replay, the rest are there to be claimed.
BeginRefresh(w, i) ==
  LET t == token[i] IN
  /\ worker[w] = Free
  /\ Issued(i) /\ ~t.revoked
  /\ Go(w, IF t.used THEN [pc |-> "revoke", family |-> t.family]
           ELSE [pc |-> "claim", tok |-> i, family |-> t.family])
  /\ UNCHANGED <<account, password, version, token, link, access, faults>>

\* Mutant of Claim: an UPDATE without its conditions.
ClaimAsRead(w) ==
  LET t == worker[w] IN
  /\ t.pc = "claim"
  /\ token' = [token EXCEPT ![t.tok].used = TRUE]
  /\ Go(w, [t EXCEPT !.pc = "owner"])
  /\ UNCHANGED <<account, password, version, link, access, faults>>

\* Mutant of Claim: the UPDATE does not ask for revoked_at IS NULL.
ClaimRevoked(w) ==
  LET t == worker[w] IN
  /\ t.pc = "claim"
  /\ IF ~token[t.tok].used
     THEN /\ token' = [token EXCEPT ![t.tok].used = TRUE]
          /\ Go(w, [t EXCEPT !.pc = "owner"])
     ELSE Go(w, Free) /\ UNCHANGED token
  /\ UNCHANGED <<account, password, version, link, access, faults>>

\* The conditional UPDATE; a loser answers 409.
Claim(w) ==
  LET t == worker[w] IN
  /\ t.pc = "claim"
  /\ IF Live(t.tok)
     THEN /\ token' = [token EXCEPT ![t.tok].used = TRUE]
          /\ Go(w, [t EXCEPT !.pc = "owner"])
     ELSE Go(w, Free) /\ UNCHANGED token
  /\ UNCHANGED <<account, password, version, link, access, faults>>

ReadOwner(w) ==
  LET t == worker[w] IN
  /\ t.pc = "owner"
  /\ \/ /\ account = "deleted"
        /\ Go(w, Free)
     \/ /\ account = "inactive"
        /\ Go(w, [pc |-> "revoke", family |-> t.family])
     \/ /\ account = "active"
        /\ Go(w, [pc |-> "append", family |-> t.family, version |-> version])
  /\ UNCHANGED <<account, password, version, token, link, access, faults>>

\* Mutant of Append: the successor is stored without its family.
AppendAlone(w) ==
  LET t == worker[w] IN
  /\ t.pc = "append"
  /\ \E i \in TokenId :
       NextToken(i) /\ token' = [token EXCEPT ![i] = Fresh(0)]
  /\ access' = access \cup {t.version}
  /\ Go(w, Free)
  /\ UNCHANGED <<account, password, version, link, faults>>

\* appendToFamily, then the access token for the row read before it.  The
\* insert asks nothing of the family.
Append(w) ==
  LET t == worker[w] IN
  /\ t.pc = "append"
  /\ \E i \in TokenId :
       NextToken(i) /\ token' = [token EXCEPT ![i] = Fresh(t.family)]
  /\ access' = access \cup {t.version}
  /\ Go(w, Free)
  /\ UNCHANGED <<account, password, version, link, faults>>

\* RevokeRefreshFamily: on a replay, for an inactive owner, and on logout.
RevokeFamily(w) ==
  LET t == worker[w] IN
  /\ t.pc = "revoke"
  /\ token' = Revoked(InFamily(t.family))
  /\ Go(w, Free)
  /\ UNCHANGED <<account, password, version, link, access, faults>>

-----------------------------------------------------------------------------
(* Logout and LogoutEverywhere *)

\* FamilyForToken does not ask whether the token is any good.
BeginLogout(w, i) ==
  /\ worker[w] = Free
  /\ Issued(i)
  /\ Go(w, [pc |-> "revoke", family |-> token[i].family])
  /\ UNCHANGED <<account, password, version, token, link, access, faults>>

\* The Auth middleware lets in a token of the current version.
BeginLogoutEverywhere(w) ==
  /\ worker[w] = Free
  /\ account = "active" /\ version \in access
  /\ Go(w, [pc |-> "revokeAll"])
  /\ UNCHANGED <<account, password, version, token, link, access, faults>>

RevokeAll(w) ==
  /\ worker[w].pc = "revokeAll"
  /\ token' = Revoked(TokenId)
  /\ Go(w, [pc |-> "bump"])
  /\ UNCHANGED <<account, password, version, link, access, faults>>

\* RevokeAllSessions: an increment in SQL.
Bump(w) ==
  /\ worker[w].pc = "bump"
  /\ version < MaxVersion
  /\ version' = version + 1
  /\ Go(w, Free)
  /\ UNCHANGED <<account, password, token, link, access, faults>>

-----------------------------------------------------------------------------
(* Password reset *)

BeginForgot(w) ==
  /\ worker[w] = Free
  /\ account = "active"
  /\ Go(w, [pc |-> "supersede"])
  /\ UNCHANGED <<account, password, version, token, link, access, faults>>

\* CreatePasswordReset: outstanding links are spent in one statement and the
\* new one is stored in another.
Supersede(w) ==
  /\ worker[w].pc = "supersede"
  /\ link' = [j \in LinkId |->
       IF link[j] = "unused" THEN "used" ELSE link[j]]
  /\ Go(w, [pc |-> "createLink"])
  /\ UNCHANGED <<account, password, version, token, access, faults>>

CreateLink(w) ==
  /\ worker[w].pc = "createLink"
  /\ \E j \in LinkId :
       /\ link[j] = "none" /\ \A k \in LinkId : k < j => link[k] # "none"
       /\ link' = [link EXCEPT ![j] = "unused"]
  /\ Go(w, Free)
  /\ UNCHANGED <<account, password, version, token, access, faults>>

\* ConsumePasswordReset up to the transaction; hashing takes its time.
BeginReset(w, j) ==
  /\ worker[w] = Free
  /\ link[j] = "unused"
  /\ account = "active"
  /\ Go(w, [pc |-> "redeem", link |-> j])
  /\ UNCHANGED <<account, password, version, token, link, access, faults>>

\* Mutant of Redeem: the transaction trusts the link that was read.
RedeemAsRead(w) ==
  LET t == worker[w] IN
  /\ t.pc = "redeem"
  /\ version < MaxVersion
  /\ link' = [link EXCEPT ![t.link] = "used"]
  /\ password' = password + 1
  /\ token' = Revoked(TokenId)
  /\ version' = version + 1
  /\ Go(w, Free)
  /\ UNCHANGED <<account, access, faults>>

\* The transaction: claim the link, set the password, end every session.
Redeem(w) ==
  LET t == worker[w] IN
  /\ t.pc = "redeem"
  /\ \/ /\ link[t.link] # "unused"
        /\ UNCHANGED <<password, version, token, link>>
     \/ /\ link[t.link] = "unused"
        /\ version < MaxVersion
        /\ link' = [link EXCEPT ![t.link] = "used"]
        /\ password' = password + 1
        /\ token' = Revoked(TokenId)
        /\ version' = version + 1
  /\ Go(w, Free)
  /\ UNCHANGED <<account, access, faults>>

-----------------------------------------------------------------------------
(* The account, and failures *)

\* AdminUpdateUser and AdminDeleteUser, as far as sessions see them: the rows
\* of refresh_tokens stay as they are.
SetAccount(a) ==
  /\ account # "deleted" /\ a # account
  /\ account' = a
  /\ UNCHANGED <<password, version, token, link, access, worker, faults>>

\* A statement fails or the replica dies: the handler is gone.
Fail(w) ==
  /\ worker[w] # Free
  /\ faults < MaxFaults
  /\ faults' = faults + 1
  /\ Go(w, Free)
  /\ UNCHANGED <<account, password, version, token, link, access>>

-----------------------------------------------------------------------------
WorkerStep(w) ==
  \/ OpenFamily(w) \/ Claim(w) \/ ReadOwner(w) \/ Append(w) \/ RevokeFamily(w)
  \/ RevokeAll(w) \/ Bump(w) \/ Supersede(w) \/ CreateLink(w) \/ Redeem(w)

Begin(w) ==
  \/ BeginLogin(w) \/ BeginLogoutEverywhere(w) \/ BeginForgot(w)
  \/ \E i \in TokenId : BeginRefresh(w, i) \/ BeginLogout(w, i)
  \/ \E j \in LinkId : BeginReset(w, j)

Next ==
  \/ \E w \in Workers : Begin(w) \/ WorkerStep(w) \/ Fail(w)
  \/ \E a \in {"active", "inactive", "deleted"} : SetAccount(a)

Spec == Init /\ [][Next]_svars

-----------------------------------------------------------------------------
\* Between the claim of a token and the insert of its successor.
Rotating(w, f) == worker[w].pc \in {"owner", "append"} /\ worker[w].family = f

\* "Two requests arriving together cannot both win and fork the chain"
\* (RotateRefreshToken): a family has one live token, or one on its way.
ChainNeverForks ==
  \A i, j \in TokenId :
    Live(i) /\ Live(j) /\ token[i].family = token[j].family => i = j

\* A family with no live token and none on its way has ended: no login, replay,
\* reactivation or late handler brings it back (IssueRefreshToken,
\* appendToFamily, RevokeRefreshFamily).
Ended(f) ==
  /\ InFamily(f) # {}
  /\ \A i \in InFamily(f) : ~Live(i)
  /\ \A w \in Workers : ~Rotating(w, f)
EndedStaysEnded == [][\A f \in TokenId : Ended(f) => Ended(f)']_svars

\* A password changes only by spending a link nobody has spent, and with it
\* every token that could have been refreshed is revoked and every access token
\* in circulation stranded (ConsumePasswordReset).
ResetEvicts ==
  [][password' # password =>
       /\ \E j \in LinkId : link[j] = "unused" /\ link'[j] = "used"
       /\ \A i \in TokenId : ~Live(i)'
       /\ version' \notin access']_svars

\* "The entire family is revoked": once one token of a family is revoked, none
\* of it is live (RevokeRefreshFamily).
FamilyRevokedWhole ==
  \A i, j \in TokenId :
    Issued(i) /\ token[i].revoked /\ token[j].family = token[i].family
    => ~Live(j)

-----------------------------------------------------------------------------
\* A family has at most one live token or rotation under way, and is named by
\* the token it began with.
ChainInv ==
  /\ ChainNeverForks
  /\ \A i \in TokenId : Issued(i) => Issued(token[i].family)
  /\ \A w \in Workers : \A f \in TokenId : Rotating(w, f) =>
       /\ Issued(f)
       /\ \A i \in TokenId : token[i].family = f => ~Live(i)
       /\ \A o \in Workers : Rotating(o, f) => o = w
  /\ \A w \in Workers : worker[w].pc = "claim" =>
       Issued(worker[w].tok) /\ token[worker[w].tok].family = worker[w].family
  /\ \A w \in Workers : worker[w].pc = "revoke" => Issued(worker[w].family)

-----------------------------------------------------------------------------
\* A family as a baton: a live token carries it, a rotation passes it on, and
\* both at once would be two of them.
batonBar ==
  [f \in TokenId |->
     LET live == {i \in InFamily(f) : Live(i)}
         rotating == {w \in Workers : Rotating(w, f)} IN
     IF InFamily(f) = {} THEN [is |-> "none"]
     ELSE IF live = {} /\ rotating = {} THEN [is |-> "dropped"]
     ELSE IF rotating = {} THEN [is |-> "carried", by |-> CHOOSE i \in live : TRUE]
     ELSE IF live = {} THEN [is |-> "passing"]
     ELSE [is |-> "forked"]]

Run == INSTANCE Relay WITH
         Tickets <- TokenId, Slips <- LinkId, baton <- batonBar,
         handed <- {i \in TokenId : Issued(i)}, entry <- version \in access,
         secret <- password, slip <- link

\* A family is carried on by one refresh token after the other, each of them good
\* for one rotation; revocations and resets end what is carried, and nothing
\* that has ended is taken up again (RotateRefreshToken, RevokeRefreshFamily,
\* ConsumePasswordReset, RevokeAllSessions).
KeepsRelay == Run!RSpec
=============================================================================
