----------------------------- MODULE SessionLoads -----------------------------
(***************************************************************************)
(* The tools one MCP session has loaded, and the native calls it makes.     *)
(*                                                                         *)
(* SessionLoads keeps the session's items, each under the generation of the *)
(* load that put it there; a native call (FleetMCPBinding.call_native)      *)
(* acquires a grant on one generation and goes through several awaits with  *)
(* it: the catalog, the notices, the gateway, the child.  Requests of one   *)
(* session interleave at these awaits, and everything between two of them   *)
(* is one step.  The catalog can change, the policy revision be replaced    *)
(* and the session expire meanwhile.                                        *)
(*                                                                         *)
(* Left out: mounting and rendering, whose outcome a request only waits for *)
(* before its next step, and the time of last use: which of the items that  *)
(* a load may evict is the oldest decides nothing here.                     *)
(***************************************************************************)
EXTENDS Integers, FiniteSets

CONSTANTS
  LoadItems,     \* catalog items
  LoadRequests,  \* requests of the session that can be under way at once
  Bindings,      \* what a catalog item can be bound to (item_binding)
  LoadCap,       \* cap of SessionLoads
  MaxLoads,      \* bound: generations that are ever loaded
  MaxEdits       \* bound: changes of the catalog

ASSUME LoadsAssumption ==
  /\ LoadCap \in Nat \ {0}
  /\ MaxLoads \in Nat
  /\ MaxEdits \in Nat
  /\ IsFiniteSet(LoadItems) /\ Bindings # {}
  /\ "free" \notin LoadRequests

VARIABLES
  session,     \* the _Session of the key
  catalog,     \* the binding of each item, "hidden" if the caller cannot load it
  edits,       \* how often the catalog changed
  loads,       \* loads so far; an item's generation is the number of its load
  request,     \* the requests under way
  onceOnly,    \* history: the loads made with auto_unload
  consumed,    \* history: what was dispatched of them, as <<item, generation>>
  again,       \* history: one of these was dispatched again
  told,        \* history: a notice sent after the last change has arrived
  fresh,       \* history: the requests that send a notice of the last change
  lost         \* history: what took the mark of the last change off, unsent

loadsVars == <<session, catalog, edits, loads, request, onceOnly, consumed, again,
               told, fresh, lost>>

dispatches == <<consumed, again>>

\* _Session: generation 0 and claim "free" stand for a missing entry.
NewSession ==
  [items |-> {}, oneShot |-> {}, pending |-> FALSE,
   generation |-> [i \in LoadItems |-> 0],
   binding |-> [i \in LoadItems |-> "none"],
   claim |-> [i \in LoadItems |-> "free"]]

\* A request that is not under way; gen, binding, claimed and dispatched are
\* the LoadGrant of a native call.
NoRequest ==
  [pc |-> "idle", then |-> "end", item |-> "none", gen |-> 0, binding |-> "none",
   claimed |-> FALSE, dispatched |-> FALSE, items |-> {}, gone |-> {},
   evict |-> FALSE, bound |-> [i \in LoadItems |-> "none"]]

LoadsInit ==
  /\ session = NewSession
  /\ catalog = [i \in LoadItems |-> CHOOSE b \in Bindings : TRUE]
  /\ edits = 0
  /\ loads = 0
  /\ request = [r \in LoadRequests |-> NoRequest]
  /\ onceOnly = {}
  /\ consumed = {}
  /\ again = FALSE
  /\ told = TRUE
  /\ fresh = {}
  /\ lost = "none"

-------------------------------------------------------------------------------
(* SessionLoads: what each method makes of the session                       *)

\* _remove
Without(s, gone) ==
  [s EXCEPT
     !.items = @ \ gone, !.oneShot = @ \ gone,
     !.generation = [i \in LoadItems |-> IF i \in gone THEN 0 ELSE @[i]],
     !.binding = [i \in LoadItems |-> IF i \in gone THEN "none" ELSE @[i]],
     !.claim = [i \in LoadItems |-> IF i \in gone THEN "free" ELSE @[i]]]

\* retractable
Retractable(s) == {i \in LoadItems : s.generation[i] # 0}

\* unload
Unload(s, targets) ==
  LET removed == targets \cap Retractable(s)
  IN [Without(s, removed) EXCEPT !.pending = @ \/ removed # {}]

\* current
Current(s, r) ==
  LET g == request[r]
  IN /\ s.generation[g.item] = g.gen
     /\ s.binding[g.item] = g.binding
     /\ g.claimed => s.claim[g.item] = r
     /\ g.item \in s.items \/ g.dispatched

\* Mutant: a consumed one-shot is not announced.
ConsumedInSilence(s, r) ==
  IF request[r].claimed
  THEN [s EXCEPT !.items = @ \ {request[r].item},
                 !.oneShot = @ \ {request[r].item}]
  ELSE s

\* dispatch, once it is accepted: a claimed one-shot is consumed.
Consumed(s, r) ==
  IF request[r].claimed
  THEN [s EXCEPT !.items = @ \ {request[r].item},
                 !.oneShot = @ \ {request[r].item}, !.pending = TRUE]
  ELSE s

\* Mutant: revoke by name.
RevokedByName(s, r) == Unload(s, {request[r].item})

\* revoke
Revoked(s, r) ==
  IF s.generation[request[r].item] # request[r].gen THEN s
  ELSE Unload(s, {request[r].item})

\* Mutant: a dispatched one-shot keeps its generation and its claim.
ReleasedIfUnused(s, r, dispatched) ==
  IF request[r].claimed /\ ~dispatched /\ s.claim[request[r].item] = r
  THEN [s EXCEPT !.claim[request[r].item] = "free"]
  ELSE s

\* release
Released(s, r, dispatched) ==
  LET g == request[r]
  IN IF /\ s.generation[g.item] = g.gen
        /\ g.claimed /\ s.claim[g.item] = r
     THEN IF dispatched THEN Without(s, {g.item})
                        ELSE [s EXCEPT !.claim[g.item] = "free"]
     ELSE s

-------------------------------------------------------------------------------
(* Requests: what happens between two awaits                                 *)

Put(r, fields) == request' = [request EXCEPT ![r] = fields]

\* redeliver_pending up to its await, in session s; the request goes on at
\* `then` when there is nothing to send.
Redeliver(s, r, fields, then) ==
  IF s.pending
  THEN Put(r, [fields EXCEPT !.pc = "resend", !.then = then])
  ELSE Put(r, IF then = "end" THEN NoRequest ELSE [fields EXCEPT !.pc = then])

\* The session becomes s.  As long as its items stay as they are, the client
\* knows them if it did before (known), and why is what took the mark off.
SessionFrom(s, known, why) ==
  /\ session' = s
  /\ told' = (known /\ s.items = session.items)
  /\ lost' = IF s.items = session.items THEN why ELSE "none"

SessionBecomes(s) == SessionFrom(s, told, lost)

\* revoke_invisible: is the item gone from the catalog, bound otherwise, or
\* no longer loadable by the caller?
Invisible(i) == catalog[i] # session.binding[i]

\* revoke_invisible, up to its first await.
BeginJudging(r, fields) ==
  IF Retractable(session) = {} THEN Redeliver(session, r, fields, fields.then)
  ELSE Put(r, [fields EXCEPT !.pc = "judge", !.items = Retractable(session)])

\* Mutant: a one-shot is shared like an ordinary load.
NeverReserved(i) == FALSE

\* acquire: a one-shot is reserved for the call, an ordinary load is shared.
Reserved(i) == i \in session.oneShot

\* call_native, up to the first await of _invoke_native.
CallNative(r, i) ==
  LET once == Reserved(i)
  IN /\ request[r].pc = "idle"
     /\ i \in session.items
     /\ session.claim[i] = "free"
     /\ session' = [session EXCEPT !.claim[i] = IF once THEN r ELSE @]
     /\ BeginJudging(r, [NoRequest EXCEPT
          !.item = i, !.gen = session.generation[i],
          !.binding = session.binding[i], !.claimed = once, !.then = "get"])
     /\ UNCHANGED <<catalog, edits, loads, dispatches, onceOnly, told,
                    lost>>

\* visible_names, for tools/list.
ListTools(r) ==
  /\ request[r].pc = "idle"
  /\ BeginJudging(r, NoRequest)
  /\ UNCHANGED <<session, catalog, edits, loads, dispatches, onceOnly,
                 told, lost>>

\* revoke_invisible: the catalog has answered for one item.  With the last
\* answer the items found invisible are unloaded, by name.
Judge(r, i) ==
  LET g    == request[r]
      gone == g.gone \cup (IF Invisible(i) THEN {i} ELSE {})
      s    == Unload(session, gone)
  IN /\ g.pc = "judge" /\ i \in g.items
     /\ IF g.items # {i}
        THEN /\ Put(r, [g EXCEPT !.items = @ \ {i}, !.gone = gone])
             /\ UNCHANGED <<session, told, lost>>
        ELSE /\ SessionBecomes(s)
             /\ IF gone = {} THEN Redeliver(s, r, [g EXCEPT !.items = {}], g.then)
                ELSE Put(r, [g EXCEPT !.pc = "announce", !.items = {}, !.gone = {}])
     /\ UNCHANGED <<catalog, edits, loads, dispatches, onceOnly>>

\* The notice of a change was sent, or not; SessionLoads.notification leaves
\* the pending mark as it is.
Announced(r) ==
  LET g == request[r]
  IN /\ g.pc = "announce"
     /\ told' \in {told, told \/ r \in fresh}
     /\ IF g.then = "done" THEN Put(r, NoRequest)
        ELSE Redeliver(session, r, g, g.then)
     /\ UNCHANGED <<session, catalog, edits, loads, dispatches, onceOnly, lost>>

\* redelivered
Redelivered(s, sent) == IF sent THEN [s EXCEPT !.pending = FALSE] ELSE s

\* The redelivery's send is over, and the request goes on: with the catalog,
\* by raising (the grant is released), by revoking its grant, or by ending.
Resent(r) ==
  \E sent \in BOOLEAN :
    LET g  == request[r]
        s1 == Redelivered(session, sent)
        s2 == CASE g.then = "raise"  -> Released(s1, r, g.dispatched)
                [] g.then = "revoke" -> Revoked(s1, r)
                [] OTHER             -> s1
    IN /\ g.pc = "resend"
       /\ SessionFrom(s2, told \/ (sent /\ r \in fresh),
            IF sent /\ r \notin fresh /\ session.pending THEN "overtaken" ELSE lost)
       /\ CASE g.then = "get"    -> Put(r, [g EXCEPT !.pc = "get"])
            [] g.then = "revoke" -> Redeliver(s2, r, g, "end")
            [] OTHER             -> Put(r, NoRequest)
       /\ UNCHANGED <<catalog, edits, loads, dispatches, onceOnly>>

\* History: the grant was dispatched.
Dispatched(g) ==
  LET load == <<g.item, g.gen>>
  IN IF g.gen \in onceOnly
     THEN consumed' = consumed \cup {load} /\ again' = (again \/ load \in consumed)
     ELSE UNCHANGED dispatches

\* _invoke_native: the catalog has answered; a grant that is no longer good is
\* revoked and the call raises.
GetItem(r) ==
  LET g    == request[r]
      good == catalog[g.item] = g.binding /\ Current(session, r)
      s    == Revoked(session, r)
  IN /\ g.pc = "get"
     /\ IF good
        THEN /\ Put(r, [g EXCEPT !.pc = "invoke"])
             /\ UNCHANGED <<session, told, lost>>
        ELSE IF s.pending
        THEN SessionBecomes(s) /\ Redeliver(s, r, g, "raise")
        ELSE SessionBecomes(Released(s, r, g.dispatched)) /\ Put(r, NoRequest)
     /\ UNCHANGED <<catalog, edits, loads, dispatches, onceOnly>>

\* The invocation is over: refused for lack of authority, failed otherwise, or
\* well, which for a replay or a preview means that no child was called and
\* the grant is consumed only now.  The grant is released; then the pending
\* notice is sent and, after a refusal, the grant revoked.
Return(r, outcome) ==
  LET g     == request[r]
      late  == outcome = "ok" /\ ~g.dispatched
      taken == late /\ Current(session, r)
      s1    == IF taken THEN Consumed(session, r) ELSE session
      s2    == Released(s1, r, g.dispatched \/ taken)
      s3    == Revoked(s2, r)
  IN /\ IF taken THEN Dispatched(g) ELSE UNCHANGED dispatches
     /\ \/ /\ late /\ ~taken                        \* raises
           /\ SessionBecomes(s2)
           /\ Put(r, NoRequest)
        \/ /\ ~(late /\ ~taken)
           /\ outcome = "unauthorized" => s2.pending
           /\ SessionBecomes(s2)
           /\ Redeliver(s2, r, g, IF outcome = "unauthorized" THEN "revoke" ELSE "end")
        \/ /\ outcome = "unauthorized" /\ ~s2.pending
           /\ SessionBecomes(s3)
           /\ Redeliver(s3, r, g, "end")

InvokeReturns(r, outcome) ==
  /\ request[r].pc \in {"invoke", "child"}
  /\ Return(r, outcome)
  /\ UNCHANGED <<catalog, edits, loads, onceOnly>>

\* commit_native_dispatch: the grant is consumed just before the child is
\* called, or the invocation is refused with UNKNOWN_TOOL.
CommitDispatch(r) ==
  LET g == request[r]
  IN /\ g.pc = "invoke"
     /\ IF Current(session, r)
        THEN /\ SessionBecomes(Consumed(session, r))
             /\ Dispatched(g)
             /\ Put(r, [g EXCEPT !.pc = "child", !.dispatched = TRUE])
        ELSE Return(r, "unauthorized")
     /\ UNCHANGED <<catalog, edits, loads, onceOnly>>

-------------------------------------------------------------------------------
(* MultiplexerOps: loading, unloading, policy revisions                      *)

\* load_tools: the items are resolved and their bindings read; mounting follows.
ResolveLoad(r) ==
  \E wanted \in SUBSET {i \in LoadItems : catalog[i] # "hidden"},
     evict \in BOOLEAN :
    /\ request[r].pc = "idle"
    /\ wanted # {} /\ Cardinality(wanted) <= LoadCap
    /\ Cardinality(wanted \cup session.items) > LoadCap => evict
    /\ Put(r, [NoRequest EXCEPT
         !.pc = "load", !.items = wanted, !.evict = evict,
         !.bound = [i \in LoadItems |-> IF i \in wanted THEN catalog[i]
                                                         ELSE "none"]])
    /\ UNCHANGED <<session, catalog, edits, loads, dispatches, onceOnly, told, lost>>

\* Mutant: only the items already there are counted against the cap.
OverflowBefore(s, wanted) == Cardinality(s.items) - LoadCap

\* _overflow_victims: how many items are too many.
Overflow(s, wanted) == Cardinality(s.items \cup wanted) - LoadCap

\* _overflow_victims: the sets of items that can be evicted for a load; none if
\* eviction was not asked for, or if too few of the items are not wanted again.
Victims(s, wanted, evict) ==
  IF Overflow(s, wanted) <= 0 THEN {{}}
  ELSE {v \in SUBSET (s.items \ wanted) :
          evict /\ Cardinality(v) = Overflow(s, wanted)}

\* _mark_loaded: every wanted item is loaded anew and loses its claim.
Loaded(s, wanted, bound, once) ==
  [s EXCEPT
     !.items = @ \cup wanted,
     !.oneShot = IF once THEN @ \cup wanted ELSE @ \ wanted,
     !.generation = [i \in LoadItems |-> IF i \in wanted THEN loads + 1 ELSE @[i]],
     !.binding = [i \in LoadItems |-> IF i \in wanted THEN bound[i] ELSE @[i]],
     !.claim = [i \in LoadItems |-> IF i \in wanted THEN "free" ELSE @[i]]]

\* load_tools, after mounting: SessionLoads.load, then the notice is sent.
LoadTools(r) ==
  LET g == request[r]
  IN /\ g.pc = "load" /\ loads < MaxLoads
     /\ \/ /\ Victims(session, g.items, g.evict) = {}        \* LOAD_CAP_EXCEEDED
           /\ Put(r, NoRequest)
           /\ UNCHANGED <<session, told, lost, loads, onceOnly>>
        \/ \E victims \in Victims(session, g.items, g.evict), once \in BOOLEAN :
             LET new == Loaded(Without(session, victims), g.items, g.bound, once)
             IN /\ SessionBecomes([new EXCEPT !.pending =
                     @ \/ victims # {} \/ ~(g.items \subseteq session.items)])
                /\ loads' = loads + 1
                /\ onceOnly' = IF once THEN onceOnly \cup {loads + 1} ELSE onceOnly
                /\ Put(r, [NoRequest EXCEPT !.pc = "announce", !.then = "done"])
     /\ UNCHANGED <<catalog, edits, dispatches>>

\* unload_tools with the items, servers or kinds it is asked for, and
\* invalidate_policy_revision, which unloads everything.
UnloadTools(r) ==
  \E targets \in SUBSET Retractable(session) :
    LET s == Unload(session, targets)
    IN /\ request[r].pc = "idle"
       /\ targets # {}
       /\ SessionBecomes(s)
       /\ Put(r, [NoRequest EXCEPT !.pc = "announce", !.then = "done"])
       /\ UNCHANGED <<catalog, edits, loads, dispatches, onceOnly>>

\* _session: nothing has touched the session for its idle time; the next access
\* finds a new one.  What was loaded is dropped and a pending mark with it, and
\* nobody tells the client.
Expire ==
  /\ session # NewSession
  /\ session' = NewSession
  /\ told' = (told /\ session.items = {})
  /\ lost' = "expired"
  /\ UNCHANGED <<catalog, edits, loads, request, dispatches, onceOnly>>

\* The catalog or the caller's scopes change under the session.
EditCatalog(i) ==
  /\ edits < MaxEdits
  /\ edits' = edits + 1
  /\ \E b \in Bindings \cup {"hidden"} :
       b # catalog[i] /\ catalog' = [catalog EXCEPT ![i] = b]
  /\ UNCHANGED <<session, loads, request, dispatches, onceOnly, told,
                 lost>>

\* History of the notices: a send that starts now tells of every change so
\* far; one that was under way no longer tells of the last one after a change.
Sends ==
  LET moved == {r \in LoadRequests : request'[r] # request[r]}
  IN fresh' = {r \in moved : request'[r].pc \in {"announce", "resend"}}
              \cup (IF session'.items # session.items THEN {} ELSE fresh \ moved)

LoadsNext ==
  /\ \/ Expire
     \/ \E i \in LoadItems : EditCatalog(i)
     \/ \E r \in LoadRequests :
          \/ ListTools(r) \/ Announced(r) \/ Resent(r) \/ GetItem(r)
          \/ CommitDispatch(r) \/ ResolveLoad(r) \/ LoadTools(r) \/ UnloadTools(r)
          \/ \E i \in LoadItems : CallNative(r, i) \/ Judge(r, i)
          \/ \E o \in {"ok", "failed", "unauthorized"} : InvokeReturns(r, o)
  /\ Sends

LoadsSpec == LoadsInit /\ [][LoadsNext]_loadsVars

-------------------------------------------------------------------------------
(* Properties *)

\* The session has its type and never more items than its cap, whichever loads
\* were resolved side by side.
LoadsTypeOK ==
  /\ session \in
       [items : {s \in SUBSET LoadItems : Cardinality(s) <= LoadCap},
        oneShot : SUBSET session.items, pending : BOOLEAN,
        generation : [LoadItems -> 0..loads],
        binding : [LoadItems -> Bindings \cup {"none"}],
        claim : [LoadItems -> LoadRequests \cup {"free"}]]
  /\ catalog \in [LoadItems -> Bindings \cup {"hidden"}]
  /\ loads \in 0..MaxLoads /\ edits \in 0..MaxEdits
  /\ \A r \in LoadRequests :
       request[r].pc \in {"idle", "judge", "announce", "resend", "get", "invoke",
                          "child", "load"}

\* A tool loaded with auto_unload is dispatched at most once per load, however
\* many calls race for it and however they end.
OneShotOnce == ~again

\* When no native call is under way the session holds no claim and no
\* generation of an item that is not loaded: nothing that only the call could
\* have cleared stays behind to refuse the next one.
QuietSessionIsClean ==
  (\A r \in LoadRequests : request[r].gen = 0) =>
    /\ \A i \in LoadItems : session.claim[i] = "free"
    /\ Retractable(session) = session.items

\* A call that acquired its grant many awaits ago, on a load that has since been
\* unloaded, evicted, reloaded, revoked or has expired, is not dispatched, and
\* what it does at its end (release, revoke) leaves a later load alone.
StaleGrantIsHarmless ==
  [][\A r \in LoadRequests :
       LET g == request[r]
       IN /\ g.gen # 0 /\ session.generation[g.item] # g.gen
          /\ g.pc \in {"get", "invoke"} \/ g.then \in {"raise", "revoke"}
          /\ request'[r] # g
          => /\ request'[r].pc # "child"
             /\ session'.generation = session.generation
             /\ session'.items = session.items]_loadsVars

\* A client whose list is out of date is owed a notice ("Resend on the next
\* request for clients that missed list_changed"), whichever sends failed and
\* whoever changed the list.  Two things take the mark of the last change off
\* unsent, until the next change: the expiry of the session, and a redelivery
\* that was already being sent when the change was made.
NoticeOwed == ~told /\ lost = "none" => session.pending
===============================================================================
