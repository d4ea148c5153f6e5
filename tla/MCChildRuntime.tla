---------------------------- MODULE MCChildRuntime ----------------------------
(***************************************************************************)
(* Small instances of ChildRuntime: the ways the multiplexer calls a child, *)
(* two calls of them at a time.                                             *)
(***************************************************************************)
EXTENDS ChildRuntime, TLC

CONSTANTS c1, c2

Call(tool, retry, marked, factory, preflight) ==
  [tool |-> tool, retry |-> retry, marked |-> marked, factory |-> factory,
   preflight |-> preflight]

\* _dispatch_proxied_call: a tool that may be replayed, one that may not, and
\* one with a selected disclosure.
RetryTool     == Call(TRUE, TRUE, TRUE, FALSE, FALSE)
OnceTool      == Call(TRUE, FALSE, TRUE, FALSE, FALSE)
DisclosedTool == Call(TRUE, FALSE, TRUE, FALSE, TRUE)
\* A read of a task, whose request is built anew for another generation.
ReadRequest   == Call(FALSE, TRUE, FALSE, TRUE, FALSE)
\* A call without a marker, as the defaults of call_tool make it.
BareTool      == Call(TRUE, TRUE, FALSE, FALSE, FALSE)

CallShapes    == (c1 :> ReadRequest @@ c2 :> DisclosedTool)
LiveShapes    == (c1 :> RetryTool @@ c2 :> BareTool)
OnceShapes    == (c1 :> OnceTool @@ c2 :> OnceTool)
===============================================================================
