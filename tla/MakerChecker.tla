---------------------------- MODULE MakerChecker ----------------------------
(***************************************************************************)
(* What the approvals control promises, without handlers, rules, keys or   *)
(* retries: somebody asks, enough other people assent, the grant is spent  *)
(* once and admits one act.  Approvals implements this.                    *)
(***************************************************************************)
EXTENDS Integers, FiniteSets

CONSTANTS
  People,   \* makers and checkers
  Matters,  \* what an act is about: an action on a record
  Sizes,    \* how large an act is
  Quorums,  \* how many others must assent
  Ids       \* requests

VARIABLES
  intent,    \* intent[i]: what request i asks for, never revised
  assent,    \* assent[i]: who has said yes to it
  fate,      \* fate[i]: where it stands
  performed  \* performed[i]: how many acts were done in its name

mcvars == <<intent, assent, fate, performed>>

Intent == [maker : People, matter : Matters, size : Sizes, quorum : Quorums]
NoIntent == [quorum |-> 0]

MCInit ==
  /\ intent = [i \in Ids |-> NoIntent]
  /\ assent = [i \in Ids |-> {}]
  /\ fate = [i \in Ids |-> "unasked"]
  /\ performed = [i \in Ids |-> 0]

\* A maker has at most one open request per matter.
Ask(i, t) ==
  /\ fate[i] = "unasked"
  /\ \A j \in Ids : fate[j] = "open" =>
       intent[j].maker # t.maker \/ intent[j].matter # t.matter
  /\ intent' = [intent EXCEPT ![i] = t]
  /\ fate' = [fate EXCEPT ![i] = "open"]
  /\ UNCHANGED <<assent, performed>>

\* A latecomer's yes is kept, and changes nothing.
Assent(i, p) ==
  /\ fate[i] # "unasked"
  /\ p # intent[i].maker
  /\ p \notin assent[i]
  /\ assent' = [assent EXCEPT ![i] = @ \cup {p}]
  /\ UNCHANGED <<intent, fate, performed>>

Grant(i) ==
  /\ fate[i] = "open"
  /\ Cardinality(assent[i]) >= intent[i].quorum
  /\ fate' = [fate EXCEPT ![i] = "granted"]
  /\ UNCHANGED <<intent, assent, performed>>

Refuse(i) ==
  /\ fate[i] = "open"
  /\ fate' = [fate EXCEPT ![i] = "refused"]
  /\ UNCHANGED <<intent, assent, performed>>

Spend(i) ==
  /\ fate[i] = "granted"
  /\ fate' = [fate EXCEPT ![i] = "spent"]
  /\ UNCHANGED <<intent, assent, performed>>

\* The act a spent grant admits; it may also never happen.
Perform(i) ==
  /\ fate[i] = "spent"
  /\ performed[i] = 0
  /\ performed' = [performed EXCEPT ![i] = 1]
  /\ UNCHANGED <<intent, assent, fate>>

MCNext ==
  \E i \in Ids :
    \/ \E t \in Intent : Ask(i, t)
    \/ \E p \in People : Assent(i, p)
    \/ Grant(i) \/ Refuse(i) \/ Spend(i) \/ Perform(i)

MCSpec == MCInit /\ [][MCNext]_mcvars
=============================================================================
