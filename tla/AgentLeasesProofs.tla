---------------------------- MODULE AgentLeasesProofs ----------------------------
(***************************************************************************)
(* What the lease contract of the coordinator promises, for any set of      *)
(* agents and any number of daemon lifetimes.                               *)
(***************************************************************************)
EXTENDS AgentLeases, TLAPS

LEMMA InitLeases == Init => TypeOK /\ Exclusive
BY DEF Init, TypeOK, Exclusive

LEMMA GrantKeeps ==
  ASSUME TypeOK, Exclusive, NEW a \in Agents, Grant(a)
  PROVE  TypeOK' /\ Exclusive'
<1>1. issued[a] + 1 \in Nat BY DEF TypeOK
<1>2. TypeOK' BY <1>1 DEF TypeOK, Grant
<1>3. Exclusive' BY DEF TypeOK, Exclusive, Grant, Free
<1> QED BY <1>2, <1>3

LEMMA StepLeases == TypeOK /\ Exclusive /\ [Next]_vars => TypeOK' /\ Exclusive'
<1> SUFFICES ASSUME TypeOK, Exclusive, [Next]_vars PROVE TypeOK' /\ Exclusive'
  OBVIOUS
<1>1. ASSUME NEW a \in Agents, Reserve(a) PROVE TypeOK' /\ Exclusive'
  BY <1>1 DEF TypeOK, Exclusive, Reserve, Free
<1>2. ASSUME NEW a \in Agents, Unreserve(a) PROVE TypeOK' /\ Exclusive'
  BY <1>2 DEF TypeOK, Exclusive, Unreserve
<1>3. ASSUME NEW S \in SUBSET Agents, Revoke(S) PROVE TypeOK' /\ Exclusive'
  BY <1>3 DEF TypeOK, Exclusive, Revoke
<1>4. CASE Restart
  BY <1>4 DEF TypeOK, Exclusive, Restart
<1>5. CASE UNCHANGED vars
  BY <1>5 DEF vars, TypeOK, Exclusive
<1> QED BY GrantKeeps, <1>1, <1>2, <1>3, <1>4, <1>5 DEF Next

\* An agent executes for one holder at a time, a run or an external executor,
\* and a run only under the newest token (claim_occupancy, acquire of the slot).
THEOREM OneHolder == Spec => [](TypeOK /\ Exclusive)
BY InitLeases, StepLeases, PTL DEF Spec

\* A token that comes into force was never issued before: whoever still holds
\* an old one can be told from the present holder (the fencing generation).
THEOREM FreshTokens == Spec => TokensAreFresh
<1> DEFINE Fresh == \A a \in Agents, t \in Nat :
                      t \in leases'[a] /\ t \notin leases[a] => t > issued[a]
<1>1. TypeOK /\ [Next]_vars => [Fresh]_vars
  <2> SUFFICES ASSUME TypeOK, Next, NEW a \in Agents, NEW t \in Nat,
                      t \in leases'[a], t \notin leases[a]
               PROVE  t > issued[a]
    BY DEF Fresh
  <2>1. ASSUME NEW b \in Agents, Grant(b) PROVE t > issued[a]
    <3>1. a = b /\ t = issued[a] + 1 BY <2>1 DEF Grant, TypeOK
    <3> QED BY <3>1 DEF TypeOK
  <2>2. ASSUME NEW b \in Agents, Reserve(b) \/ Unreserve(b) PROVE FALSE
    BY <2>2 DEF Reserve, Unreserve
  <2>3. ASSUME NEW S \in SUBSET Agents, Revoke(S) PROVE FALSE
    BY <2>3 DEF Revoke
  <2>4. CASE Restart
    BY <2>4 DEF Restart
  <2> QED BY <2>1, <2>2, <2>3, <2>4 DEF Next
<1> QED BY <1>1, OneHolder, PTL DEF Spec, TokensAreFresh
=============================================================================
