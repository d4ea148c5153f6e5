------------------------------- MODULE MCInvoke -------------------------------
(***************************************************************************)
(* Small instances of Invoke: operations of each replay owner, callers that *)
(* retry with the same key or plan, and callers that reuse one for another  *)
(* request.                                                                 *)
(***************************************************************************)
EXTENDS Invoke, TLC

CONSTANTS alice, a1, a2, k1, p1,
          Scenarios   \* see Situation

Entry(e, c, nat, own, ext) ==
  [effect |-> e, confirm |-> c, natural |-> nat, native |-> own, external |-> ext]

MixedOps == {"graph.read", "graph.write", "access.grant", "access.admin",
             "orphan.write"}

MCOperation ==
  [o \in Ops |->
     CASE o = "graph.read"   -> Entry("read", "none", TRUE, FALSE, FALSE)
       [] o = "graph.write"  -> Entry("write", "none", FALSE, TRUE, FALSE)
       [] o = "access.grant" -> Entry("write", "none", TRUE, FALSE, TRUE)
       [] o = "access.admin" -> Entry("admin", "console", FALSE, FALSE, TRUE)
       [] o = "orphan.write" -> Entry("write", "none", FALSE, FALSE, FALSE)
       [] o = "fleet.call"   -> Entry("write", "none", FALSE, FALSE, TRUE)]

WriteTool == {[effect |-> "write", confirm |-> "none"]}
DestructiveTool == {[effect |-> "destructive", confirm |-> "plan"]}
ChangingTool == WriteTool \cup DestructiveTool

Ask(o, a, k, p) ==
  [op |-> o, args |-> a, principal |-> alice, key |-> k, plan |-> p,
   intent |-> FALSE, console |-> FALSE]

\* A keyed fleet call retried, with the same and with other arguments.
KeyedRequests == {Ask("fleet.call", a1, k1, None), Ask("fleet.call", a2, k1, None)}

\* Calls that ask for a plan and calls that bring one.
PlannedRequests ==
  {Ask("fleet.call", a1, None, None), Ask("fleet.call", a1, None, p1),
   Ask("fleet.call", a1, k1, p1)}

\* Keyed and planned calls of one tool while its catalog entry changes.
AuthorityRequests ==
  {Ask("fleet.call", a1, k1, None), Ask("fleet.call", a1, None, p1),
   Ask("fleet.call", a2, None, p1)}

\* Every kind of operation, once.
MixedRequests ==
  {Ask("graph.read", a1, None, None), Ask("graph.write", a1, k1, None),
   Ask("graph.write", a1, None, None), Ask("access.grant", a1, None, None),
   Ask("orphan.write", a1, k1, None),
   [Ask("access.admin", a1, None, p1) EXCEPT !.console = TRUE],
   [Ask("access.admin", a1, None, None) EXCEPT !.console = TRUE],
   Ask("access.grant", a1, k1, p1),
   [Ask("access.grant", a1, k1, None) EXCEPT !.intent = TRUE]}

-------------------------------------------------------------------------------
(* Several situations in one instance: a scenario fixes callers' requests,  *)
(* the decisions the catalog can give, how often authority changes and how  *)
(* many of the invocations take place; it is chosen in the initial state    *)
(* and restricts every step.                                                *)

VARIABLE scenario

Situation(requests, decisions, revisions, callers) ==
  [requests |-> requests, decisions |-> decisions, revisions |-> revisions,
   callers |-> callers]

FleetScenarios ==
  {Situation(KeyedRequests, WriteTool, 0, 3),
   Situation(PlannedRequests, DestructiveTool, 0, 3),
   Situation(AuthorityRequests, ChangingTool, 1, 2)}

MixedScenario == {Situation(MixedRequests, WriteTool, 0, 2)}

MCRequests == UNION {s.requests : s \in Scenarios}

AsAsked(i) ==
  \E r \in scenario.requests : \A f \in DOMAIN r : req'[i][f] = r[f]

WithinScenario ==
  /\ meta' \in scenario.decisions
  /\ rev' <= scenario.revisions
  /\ \A i \in Invocations : req'[i] # req[i] => AsAsked(i)
  /\ Cardinality({i \in Invocations : pc'[i] # "idle"}) <= scenario.callers

MCInit == scenario \in Scenarios /\ Init /\ meta \in scenario.decisions
MCNext == Next /\ WithinScenario /\ UNCHANGED scenario
MCSpec == MCInit /\ [][MCNext]_<<vars, scenario>>

Symmetry == Permutations(Invocations)
===============================================================================
