------------------------------ MODULE EffectOnce ------------------------------
(***************************************************************************)
(* What the effect-owner port (EffectJournal in arbora/api/invoke/audit.py) *)
(* promises to every transport and process that shares it: a key is bound   *)
(* to one request for ever, the effect behind it is sent to its owner at    *)
(* most once, an outcome is stored at most once, and nothing is sent after  *)
(* the outcome is stored.                                                   *)
(***************************************************************************)
CONSTANTS
  EffectKeys,     \* stable tenant/principal/operation/key identities
  Bindings,       \* request and authority digests
  Outcomes,       \* what an effect can settle to
  Successes,      \* the outcomes that say that the effect was made
  NoBinding, NoOutcome    \* no binding, no outcome yet

VARIABLES
  bound,      \* the binding a key was reserved with
  sent,       \* has the effect of the key been sent to its owner?
  outcome     \* the outcome stored for the key

effectVars == <<bound, sent, outcome>>

EffectInit ==
  /\ bound = [k \in EffectKeys |-> NoBinding]
  /\ sent = [k \in EffectKeys |-> FALSE]
  /\ outcome = [k \in EffectKeys |-> NoOutcome]

\* One entry of a function changes, and the rest of it does not.
Only(f, g, k) == g = [f EXCEPT ![k] = g[k]]

Bind(k) ==
  /\ bound[k] = NoBinding
  /\ bound'[k] \in Bindings
  /\ Only(bound, bound', k)
  /\ UNCHANGED <<sent, outcome>>

Send(k) ==
  /\ bound[k] # NoBinding
  /\ ~sent[k]
  /\ outcome[k] = NoOutcome
  /\ sent' = [sent EXCEPT ![k] = TRUE]
  /\ UNCHANGED <<bound, outcome>>

Settle(k) ==
  /\ bound[k] # NoBinding
  /\ outcome[k] = NoOutcome
  /\ outcome'[k] \in Outcomes
  /\ outcome'[k] \in Successes => sent[k]
  /\ Only(outcome, outcome', k)
  /\ UNCHANGED <<bound, sent>>

EffectNext == \E k \in EffectKeys : Bind(k) \/ Send(k) \/ Settle(k)

EffectSpec == EffectInit /\ [][EffectNext]_effectVars
===============================================================================
