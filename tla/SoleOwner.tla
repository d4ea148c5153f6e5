------------------------------- MODULE SoleOwner -------------------------------
(***************************************************************************)
(* What the intake leases (arbora/messaging/lease.py) promise to a platform *)
(* that allows one poller per account: who polls has been granted the       *)
(* platform, a grant is not taken back or given to somebody else while its  *)
(* owner still polls, and grants are numbered, each above the ones before.  *)
(***************************************************************************)
EXTENDS Naturals

CONSTANTS
  Owners,     \* who may poll
  Posts,      \* what is polled
  Nobody

VARIABLES
  owner,      \* who was granted the post, or Nobody
  pollers,    \* who polls it
  term        \* the number of its latest grant

soleVars == <<owner, pollers, term>>

SoleInit ==
  /\ owner = [p \in Posts |-> Nobody]
  /\ pollers = [p \in Posts |-> {}]
  /\ term = [p \in Posts |-> 0]

Grant(i, p) ==
  /\ owner[p] = Nobody /\ pollers[p] = {}
  /\ owner' = [owner EXCEPT ![p] = i]
  /\ term' = [term EXCEPT ![p] = @ + 1]
  /\ UNCHANGED pollers

\* The grants of the posts in S end; nobody polls there any more.
EndGrants(S) ==
  /\ \A p \in S : pollers[p] = {}
  /\ owner' = [p \in Posts |-> IF p \in S THEN Nobody ELSE owner[p]]
  /\ UNCHANGED <<pollers, term>>

StartPolling(i, S) ==
  /\ \A p \in S : owner[p] = i
  /\ pollers' = [p \in Posts |-> IF p \in S THEN {i} ELSE pollers[p]]
  /\ UNCHANGED <<owner, term>>

StopPolling(i, S) ==
  /\ pollers' = [p \in Posts |-> IF p \in S THEN pollers[p] \ {i} ELSE pollers[p]]
  /\ UNCHANGED <<owner, term>>

SoleNext ==
  \/ \E S \in SUBSET Posts : EndGrants(S)
  \/ \E i \in Owners, p \in Posts : Grant(i, p)
  \/ \E i \in Owners, S \in SUBSET Posts : StartPolling(i, S) \/ StopPolling(i, S)

SoleSpec == SoleInit /\ [][SoleNext]_soleVars
================================================================================
