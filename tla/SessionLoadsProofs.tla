--------------------------- MODULE SessionLoadsProofs ---------------------------
(***************************************************************************)
(* Proofs about the tools a session has loaded, for any number of items,    *)
(* requests, loads and changes of the catalog, and any cap.                 *)
(***************************************************************************)
EXTENDS SessionLoads, FiniteSetTheorems, TLAPS

SessionTypes ==
  [items : SUBSET LoadItems, oneShot : SUBSET LoadItems, pending : BOOLEAN,
   generation : [LoadItems -> Nat], binding : [LoadItems -> Bindings \cup {"none"}],
   claim : [LoadItems -> LoadRequests \cup {"free"}]]

Nexts == {"end", "done", "get", "raise", "revoke"}
RequestTypes ==
  [pc : {"idle", "judge", "announce", "resend", "get", "invoke", "child", "load"},
   then : Nexts, item : LoadItems \cup {"none"}, gen : Nat,
   binding : Bindings \cup {"none"}, claimed : BOOLEAN, dispatched : BOOLEAN,
   items : SUBSET LoadItems, gone : SUBSET LoadItems, evict : BOOLEAN,
   bound : [LoadItems -> Bindings \cup {"none"}]]

\* A session by itself: an item has the generation of its load; one that is not
\* there but still has one was consumed by the call that claims it; a load made
\* with auto_unload is a one-shot.
SessionOK(s) ==
  /\ s \in SessionTypes
  /\ s.oneShot \subseteq s.items
  /\ \A i \in LoadItems :
       /\ s.generation[i] <= loads
       /\ i \in s.items => s.generation[i] # 0
       /\ s.generation[i] # 0 /\ i \notin s.items => s.claim[i] # "free"
       /\ i \in s.items /\ s.generation[i] \in onceOnly => i \in s.oneShot

\* What is there has not been dispatched as a one-shot.
Unspent(s, spent) == \A i \in s.items : <<i, s.generation[i]>> \notin spent

\* The request g that claims item i has a grant on just this load, has still to
\* release it, and has consumed the item if and only if it was dispatched.
Holds(g, s, i) ==
  /\ g.claimed /\ g.item = i /\ g.gen = s.generation[i] /\ g.gen # 0
  /\ g.then \in {"get", "raise"}
  /\ g.dispatched <=> i \notin s.items

\* A request by itself: where it is, and what it does next; a grant on a
\* one-shot load is a claim.
RequestOK(g) ==
  /\ g \in RequestTypes
  /\ g.gen <= loads /\ (g.gen \in onceOnly => g.claimed)
  /\ g.then \in {"raise", "revoke"} => g.pc = "resend"
  /\ g.then = "done" => g.pc = "announce"
  /\ g.pc \in {"get", "invoke", "child"} => g.then = "get"
  /\ g.pc \in {"idle", "load"} => g.then = "end"
  /\ g.then \in {"get", "raise", "revoke"} => g.item \in LoadItems
  /\ g.then = "get" /\ g.dispatched => g.pc = "child"

Reasons == {"none", "overtaken", "expired"}

Histories ==
  /\ loads \in 0..MaxLoads /\ edits \in 0..MaxEdits
  /\ catalog \in [LoadItems -> Bindings \cup {"hidden"}]
  /\ onceOnly \subseteq 1..loads /\ consumed \subseteq LoadItems \X (1..loads)
  /\ told \in BOOLEAN /\ lost \in Reasons /\ again \in BOOLEAN

ClaimsAreHeld ==
  \A i \in LoadItems : session.claim[i] # "free" =>
    Holds(request[session.claim[i]], session, i)

IInv ==
  /\ Histories
  /\ SessionOK(session) /\ Cardinality(session.items) <= LoadCap
  /\ request \in [LoadRequests -> RequestTypes]
  /\ \A r \in LoadRequests : RequestOK(request[r])
  /\ ClaimsAreHeld
  /\ Unspent(session, consumed) /\ OneShotOnce
  /\ NoticeOwed

--------------------------------------------------------------------------------
(* What the methods of SessionLoads make of a session                         *)

\* t is s without some of its items: every item is as it was or is cleared.
Less(s, t) ==
  /\ t \in SessionTypes
  /\ \A i \in LoadItems :
       \/ /\ i \in t.items <=> i \in s.items
          /\ i \in t.oneShot <=> i \in s.oneShot
          /\ t.generation[i] = s.generation[i]
          /\ t.claim[i] = s.claim[i]
       \/ /\ i \notin t.items /\ i \notin t.oneShot
          /\ t.generation[i] = 0 /\ t.claim[i] = "free"

\* No item was added or loaded anew.
Within(s, t) == \A i \in t.items : i \in s.items /\ t.generation[i] = s.generation[i]

\* Whoever but r claims an item in t claims it in s, and nothing else happened
\* to that item.
Kept(s, t, r) ==
  \A i \in LoadItems : t.claim[i] \notin {"free", r} =>
    /\ t.claim[i] = s.claim[i] /\ t.generation[i] = s.generation[i]
    /\ i \in t.items <=> i \in s.items

\* A change of the items is owed to the client, and no debt is forgotten.
Notice(s, t) == s.pending \/ t.items # s.items => t.pending

\* What a request r that loads nothing may do to the session, and what it may
\* do when it sends nothing.
Safe(s, t, r) == SessionOK(t) /\ Within(s, t) /\ Kept(s, t, r)
Good(s, t, r) == Safe(s, t, r) /\ Notice(s, t)

\* A smaller session is as good as the one it comes from, and who still holds a
\* claim in it held it before.
LEMMA LessIsOK ==
  ASSUME NEW s, SessionOK(s), NEW t, Less(s, t), Histories
  PROVE  SessionOK(t) /\ Within(s, t) /\ \A r : Kept(s, t, r)
<1>1. \A i \in t.oneShot : i \in t.items
  BY DEF SessionOK, Less, SessionTypes
<1>2. \A i \in LoadItems :
        /\ t.generation[i] <= loads
        /\ i \in t.items => t.generation[i] # 0
        /\ t.generation[i] # 0 /\ i \notin t.items => t.claim[i] # "free"
        /\ i \in t.items /\ t.generation[i] \in onceOnly => i \in t.oneShot
  BY DEF SessionOK, Less, Histories
<1>3. SessionOK(t)
  BY <1>1, <1>2 DEF SessionOK, Less
<1>4. Within(s, t)
  BY DEF Less, SessionTypes, Within
<1>5. \A r : Kept(s, t, r)
  BY DEF Less, Kept
<1> QED
  BY <1>3, <1>4, <1>5

\* _remove
LEMMA WithoutMeaning ==
  ASSUME NEW s \in SessionTypes, NEW gone \in SUBSET LoadItems
  PROVE  /\ Less(s, Without(s, gone))
         /\ Without(s, gone).items = s.items \ gone
         /\ Without(s, gone).pending = s.pending
         /\ Without(s, gone).binding \in [LoadItems -> Bindings \cup {"none"}]
         /\ \A i \in gone : Without(s, gone).claim[i] = "free"
         /\ \A i \in LoadItems \ gone :
              /\ Without(s, gone).generation[i] = s.generation[i]
              /\ Without(s, gone).claim[i] = s.claim[i]
<1> DEFINE t == Without(s, gone)
           gens == [i \in LoadItems |-> IF i \in gone THEN 0 ELSE s.generation[i]]
           bound == [i \in LoadItems |-> IF i \in gone THEN "none" ELSE s.binding[i]]
           claims == [i \in LoadItems |-> IF i \in gone THEN "free" ELSE s.claim[i]]
<1>1. t = [s EXCEPT !.items = s.items \ gone, !.oneShot = s.oneShot \ gone,
                    !.generation = gens, !.binding = bound, !.claim = claims]
  BY DEF Without
<1>2. /\ gens \in [LoadItems -> Nat]
      /\ bound \in [LoadItems -> Bindings \cup {"none"}]
      /\ claims \in [LoadItems -> LoadRequests \cup {"free"}]
  BY DEF SessionTypes
<1> HIDE DEF t, gens, bound, claims
<1>3. /\ t \in SessionTypes
      /\ t.items = s.items \ gone /\ t.oneShot = s.oneShot \ gone
      /\ t.pending = s.pending
      /\ t.generation = gens /\ t.binding = bound /\ t.claim = claims
  BY <1>1, <1>2 DEF SessionTypes
<1>4. Less(s, t)
  BY <1>3 DEF Less, gens, claims
<1> QED
  BY <1>2, <1>3, <1>4 DEF t, gens, claims

\* unload
LEMMA UnloadMeaning ==
  ASSUME NEW s, SessionOK(s), Histories, NEW targets \in SUBSET LoadItems
  PROVE  \A r : Good(s, Unload(s, targets), r)
<1> DEFINE removed == targets \cap Retractable(s)
           t == Without(s, removed)
           u == Unload(s, targets)
<1>1. s \in SessionTypes /\ removed \in SUBSET LoadItems
  BY DEF SessionOK
<1>2. /\ Less(s, t) /\ t.items = s.items \ removed /\ t.pending = s.pending
      /\ \A i \in removed : t.claim[i] = "free"
      /\ \A i \in LoadItems \ removed :
           t.generation[i] = s.generation[i] /\ t.claim[i] = s.claim[i]
  BY <1>1, WithoutMeaning
<1>3. u = [t EXCEPT !.pending = s.pending \/ removed # {}]
  BY <1>2 DEF Unload
<1> HIDE DEF removed, t, u
<1>5. t \in SessionTypes /\ s.pending \in BOOLEAN
  BY <1>1, <1>2 DEF Less, SessionTypes
<1>6. /\ u \in SessionTypes
      /\ u.items = t.items /\ u.oneShot = t.oneShot
      /\ u.generation = t.generation /\ u.claim = t.claim
      /\ u.pending = (s.pending \/ removed # {})
  BY <1>3, <1>5 DEF SessionTypes
<1>7. Less(s, u)
  BY <1>2, <1>6 DEF Less
<1>8. Notice(s, u)
  BY <1>2, <1>6 DEF Notice
<1>9. \A r : Good(s, u, r)
  BY <1>7, <1>8, LessIsOK DEF Good, Safe
<1> QED
  BY <1>9 DEF u

\* An unchanged session, and two changes one after the other.
LEMMA GoodComposes ==
  ASSUME NEW r, NEW s, SessionOK(s)
  PROVE  /\ Good(s, s, r)
         /\ \A t, u : Good(s, t, r) /\ Good(t, u, r) => Good(s, u, r)
<1>1. Good(s, s, r)
  BY DEF Good, Safe, Within, Kept, Notice
<1>2. ASSUME NEW t, NEW u, Good(s, t, r), Good(t, u, r)
      PROVE  Good(s, u, r)
  <2>1. Within(s, u)
    BY <1>2 DEF Good, Safe, Within
  <2>2. Kept(s, u, r)
    BY <1>2 DEF Good, Safe, Kept
  <2>3. Notice(s, u)
    BY <1>2 DEF Good, Safe, Notice
  <2> QED
    BY <1>2, <2>1, <2>2, <2>3 DEF Good, Safe
<1> QED
  BY <1>1, <1>2

\* revoke: by generation, or not at all.
LEMMA RevokedMeaning ==
  ASSUME NEW s, SessionOK(s), Histories, NEW r, request[r].item \in LoadItems
  PROVE  /\ \A q : Good(s, Revoked(s, r), q)
         /\ s.generation[request[r].item] # request[r].gen => Revoked(s, r) = s
<1>1. \A q : Good(s, Unload(s, {request[r].item}), q)
  BY UnloadMeaning
<1>2. \A q : Good(s, s, q)
  BY GoodComposes
<1> QED
  BY <1>1, <1>2 DEF Revoked

\* The claims of r are on the item of its grant, which it has consumed if it
\* was dispatched.
Claims(s, r, dispatched) ==
  \A i \in LoadItems : s.claim[i] = r =>
    /\ request[r].claimed /\ request[r].item = i
    /\ request[r].gen = s.generation[i]
    /\ dispatched <=> i \notin s.items

\* release: r claims nothing any more, and the items stay as they are.
LEMMA ReleasedMeaning ==
  ASSUME NEW s, SessionOK(s), Histories, NEW r \in LoadRequests,
         NEW dispatched \in BOOLEAN, request[r].item \in LoadItems,
         Claims(s, r, dispatched)
  PROVE  LET t == Released(s, r, dispatched)
         IN /\ Good(s, t, r) /\ t.items = s.items
            /\ \A i \in LoadItems : t.claim[i] # r
            /\ s.generation[request[r].item] # request[r].gen => t = s
<1> DEFINE i == request[r].item
           t == Released(s, r, dispatched)
<1>1. s \in SessionTypes /\ r # "free" /\ i \in LoadItems
  BY LoadsAssumption DEF SessionOK
<1>2. CASE s.claim[i] # r
  <2>1. t = s
    BY <1>2 DEF Released
  <2>2. \A j \in LoadItems : s.claim[j] # r
    BY <1>2 DEF Claims
  <2> QED
    BY <2>1, <2>2, GoodComposes
<1>3. CASE s.claim[i] = r /\ dispatched
  <2>1. t = Without(s, {i}) /\ i \notin s.items /\ s.generation[i] = request[r].gen
    BY <1>1, <1>3 DEF Released, Claims
  <2>2. /\ Less(s, t) /\ t.items = s.items /\ t.pending = s.pending
        /\ t.claim[i] = "free" /\ \A j \in LoadItems \ {i} : t.claim[j] = s.claim[j]
    <3> DEFINE gone == {i}
    <3>1. gone \in SUBSET LoadItems /\ s.items \ gone = s.items
      BY <1>1, <2>1
    <3>2. t = Without(s, gone) /\ i \in gone /\ LoadItems \ gone = LoadItems \ {i}
      BY <2>1
    <3> HIDE DEF t, i, gone
    <3>3. /\ Less(s, Without(s, gone)) /\ Without(s, gone).items = s.items \ gone
          /\ Without(s, gone).pending = s.pending
          /\ \A j \in gone : Without(s, gone).claim[j] = "free"
          /\ \A j \in LoadItems \ gone : Without(s, gone).claim[j] = s.claim[j]
      BY <1>1, <3>1, WithoutMeaning
    <3> QED
      BY <3>1, <3>2, <3>3
  <2>3. \A j \in LoadItems : t.claim[j] # r
    BY ZenonT(60), <1>1, <1>3, <2>2 DEF Claims
  <2>4. Notice(s, t)
    BY <2>2 DEF Notice
  <2> QED
    BY <2>1, <2>2, <2>3, <2>4, LessIsOK DEF Good, Safe
<1>4. CASE s.claim[i] = r /\ ~dispatched
  <2>1. /\ t = [s EXCEPT !.claim[i] = "free"] /\ i \in s.items
        /\ s.generation[i] = request[r].gen
    BY <1>1, <1>4 DEF Released, Claims
  <2> HIDE DEF t, i
  <2>2. /\ t \in SessionTypes /\ t.items = s.items /\ t.pending = s.pending
        /\ t.oneShot = s.oneShot /\ t.generation = s.generation
        /\ t.claim[i] = "free" /\ \A j \in LoadItems \ {i} : t.claim[j] = s.claim[j]
    BY <1>1, <2>1 DEF SessionTypes
  <2>3. \A j \in LoadItems : t.claim[j] # r
    BY <1>1, <1>4, <2>2 DEF Claims, i
  <2>4. SessionOK(t)
    BY <2>1, <2>2 DEF SessionOK
  <2>5. Within(s, t) /\ Kept(s, t, r) /\ Notice(s, t)
    BY <1>4, <2>2 DEF Within, Kept, Notice
  <2> QED
    BY <2>1, <2>2, <2>3, <2>4, <2>5 DEF Good, Safe, t, i
<1> QED
  BY <1>2, <1>3, <1>4

\* dispatch: a claimed one-shot is taken from the session; its generation and
\* its claim stay until the call is over.
LEMMA ConsumedMeaning ==
  ASSUME NEW s, SessionOK(s), Histories, NEW r \in LoadRequests,
         request[r].item \in LoadItems, RequestOK(request[r]),
         s.generation[request[r].item] = request[r].gen,
         request[r].claimed => s.claim[request[r].item] = r
  PROVE  LET t == Consumed(s, r)
         IN /\ Good(s, t, r) /\ t.claim = s.claim /\ t.generation = s.generation
            /\ t.items = IF request[r].claimed THEN s.items \ {request[r].item}
                                               ELSE s.items
<1> DEFINE i == request[r].item
           t == Consumed(s, r)
<1>1. s \in SessionTypes /\ r # "free"
  BY LoadsAssumption DEF SessionOK
<1>2. CASE ~request[r].claimed
  BY <1>2, GoodComposes DEF Consumed
<1>3. CASE request[r].claimed
  <2>1. t = [s EXCEPT !.items = s.items \ {i}, !.oneShot = s.oneShot \ {i},
                      !.pending = TRUE]
    BY <1>3 DEF Consumed
  <2> HIDE DEF t, i
  <2>2. /\ t \in SessionTypes /\ t.items = s.items \ {i} /\ t.pending = TRUE
        /\ t.oneShot = s.oneShot \ {i} /\ t.generation = s.generation
        /\ t.claim = s.claim
    BY <1>1, <2>1 DEF SessionTypes
  <2>3. s.claim[i] # "free"
    BY <1>1, <1>3 DEF i
  <2>4. SessionOK(t)
    BY <2>2, <2>3 DEF SessionOK
  <2>5. Within(s, t) /\ Notice(s, t)
    BY <2>2 DEF Within, Notice
  <2>6. Kept(s, t, r)
    BY <1>3, <2>2 DEF Kept, i
  <2> QED
    BY <1>3, <2>2, <2>4, <2>5, <2>6 DEF Good, Safe, t, i
<1> QED
  BY <1>2, <1>3

--------------------------------------------------------------------------------
(* What becomes of a request                                                  *)

SameGrant(q, g) ==
  /\ q.item = g.item /\ q.gen = g.gen
  /\ q.claimed = g.claimed /\ q.dispatched = g.dispatched

\* Request g ended or goes on, to `then`.
GoesOn(q, g, then) ==
  \/ then = "end" /\ q = NoRequest
  \/ /\ q \in RequestTypes /\ SameGrant(q, g) /\ q.then = then
     /\ q.pc \in {"judge", "resend"} \/ (q.pc = "get" /\ then = "get")
     /\ then \in {"raise", "revoke"} => q.pc = "resend"

\* A request that is not under way.
LEMMA NoRequestMeaning ==
  ASSUME Histories
  PROVE  /\ NoRequest \in RequestTypes /\ RequestOK(NoRequest)
         /\ NoRequest.pc = "idle" /\ NoRequest.then = "end" /\ NoRequest.gen = 0
         /\ NoRequest.dispatched = FALSE
<1>1. /\ NoRequest.pc = "idle" /\ NoRequest.then = "end" /\ NoRequest.gen = 0
      /\ NoRequest.dispatched = FALSE
  BY DEF NoRequest
<1>2. NoRequest \in RequestTypes
  <2> DEFINE unbound == [i \in LoadItems |-> "none"]
  <2>1. unbound \in [LoadItems -> Bindings \cup {"none"}]
    OBVIOUS
  <2>2. NoRequest = [pc |-> "idle", then |-> "end", item |-> "none", gen |-> 0,
                     binding |-> "none", claimed |-> FALSE, dispatched |-> FALSE,
                     items |-> {}, gone |-> {}, evict |-> FALSE, bound |-> unbound]
    BY DEF NoRequest
  <2> HIDE DEF unbound
  <2> QED
    BY <2>1, <2>2 DEF RequestTypes, Nexts
<1>3. RequestOK(NoRequest)
  BY <1>1, <1>2 DEF RequestOK, Histories
<1> QED
  BY <1>1, <1>2, <1>3

\* Put
LEMMA PutMeaning ==
  ASSUME request \in [LoadRequests -> RequestTypes], NEW r \in LoadRequests,
         NEW fields \in RequestTypes, Put(r, fields)
  PROVE  /\ request' \in [LoadRequests -> RequestTypes] /\ request'[r] = fields
         /\ \A q \in LoadRequests : q # r => request'[q] = request[q]
BY DEF Put

\* redeliver_pending
LEMMA RedeliverMeaning ==
  ASSUME Histories, request \in [LoadRequests -> RequestTypes],
         NEW r \in LoadRequests, NEW s, NEW fields \in RequestTypes,
         NEW then \in {"end", "get", "raise", "revoke"},
         then \in {"raise", "revoke"} => s.pending,
         then = "get" => fields.then = "get",
         Redeliver(s, r, fields, then)
  PROVE  /\ request' \in [LoadRequests -> RequestTypes]
         /\ \A q \in LoadRequests : q # r => request'[q] = request[q]
         /\ GoesOn(request'[r], fields, then)
<1>1. CASE s.pending
  <2> DEFINE new == [fields EXCEPT !.pc = "resend", !.then = then]
  <2>1. /\ new \in RequestTypes /\ new.pc = "resend" /\ new.then = then
        /\ SameGrant(new, fields)
    BY DEF RequestTypes, Nexts, SameGrant
  <2>2. Put(r, new)
    BY <1>1 DEF Redeliver
  <2> HIDE DEF new
  <2> QED
    BY <2>1, <2>2, PutMeaning DEF GoesOn
<1>2. CASE ~s.pending /\ then = "end"
  <2>1. Put(r, NoRequest)
    BY <1>2 DEF Redeliver
  <2> QED
    BY <1>2, <2>1, PutMeaning, NoRequestMeaning DEF GoesOn
<1>3. CASE ~s.pending /\ then = "get"
  <2> DEFINE new == [fields EXCEPT !.pc = "get"]
  <2>1. /\ new \in RequestTypes /\ new.pc = "get" /\ new.then = then
        /\ SameGrant(new, fields)
    BY <1>3 DEF RequestTypes, Nexts, SameGrant
  <2>2. Put(r, new)
    BY <1>3 DEF Redeliver
  <2> HIDE DEF new
  <2> QED
    BY <1>3, <2>1, <2>2, PutMeaning DEF GoesOn
<1> QED
  BY <1>1, <1>2, <1>3

\* revoke_invisible, up to its first await
LEMMA BeginJudgingMeaning ==
  ASSUME Histories, SessionOK(session), request \in [LoadRequests -> RequestTypes],
         NEW r \in LoadRequests, NEW fields \in RequestTypes,
         fields.then \in {"end", "get"}, BeginJudging(r, fields)
  PROVE  /\ request' \in [LoadRequests -> RequestTypes]
         /\ \A q \in LoadRequests : q # r => request'[q] = request[q]
         /\ GoesOn(request'[r], fields, fields.then)
<1>1. CASE Retractable(session) = {}
  <2>1. Redeliver(session, r, fields, fields.then)
    BY <1>1 DEF BeginJudging
  <2> QED
    BY <2>1, RedeliverMeaning
<1>2. CASE Retractable(session) # {}
  <2> DEFINE new == [fields EXCEPT !.pc = "judge", !.items = Retractable(session)]
  <2>1. Retractable(session) \in SUBSET LoadItems
    BY DEF Retractable
  <2>2. /\ new \in RequestTypes /\ new.pc = "judge" /\ new.then = fields.then
        /\ SameGrant(new, fields)
    BY <2>1 DEF RequestTypes, SameGrant
  <2>3. Put(r, new)
    BY <1>2 DEF BeginJudging
  <2> HIDE DEF new
  <2> QED
    BY <2>2, <2>3, PutMeaning DEF GoesOn
<1> QED
  BY <1>1, <1>2

\* What goes on is a request that may be where it is.
LEMMA GoesOnIsOK ==
  ASSUME Histories, NEW g \in RequestTypes, NEW q, NEW then \in Nexts \ {"done"},
         GoesOn(q, g, then),
         g.gen <= loads, g.gen \in onceOnly => g.claimed,
         then \in {"get", "raise", "revoke"} => g.item \in LoadItems,
         then = "get" => ~g.dispatched
  PROVE  RequestOK(q)
<1>1. CASE q = NoRequest
  BY <1>1, NoRequestMeaning
<1>2. CASE q # NoRequest
  BY <1>2 DEF GoesOn, SameGrant, RequestOK, Nexts
<1> QED
  BY <1>1, <1>2

--------------------------------------------------------------------------------
(* A step of one request                                                      *)

\* What request r has to show for a step that loads nothing.
LEMMA Frame ==
  ASSUME IInv, NEW r \in LoadRequests, Safe(session, session', r),
         UNCHANGED <<loads, onceOnly, catalog, edits>>,
         request' \in [LoadRequests -> RequestTypes],
         \A q \in LoadRequests : q # r => request'[q] = request[q],
         RequestOK(request'[r]),
         \A i \in LoadItems : session'.claim[i] = r =>
           Holds(request'[r], session', i),
         Unspent(session', consumed'), consumed' \subseteq LoadItems \X (1..loads),
         again' \in BOOLEAN, ~again',
         NoticeOwed', told' \in BOOLEAN, lost' \in Reasons
  PROVE  IInv'
<1>1. Histories'
  BY DEF IInv, Histories
<1>2. SessionOK(session)'
  BY DEF Safe, SessionOK
<1>3. (Cardinality(session.items) <= LoadCap)'
  <2>1. session'.items \subseteq session.items /\ session.items \subseteq LoadItems
    BY DEF IInv, Safe, SessionOK, SessionTypes, Within
  <2>2. IsFiniteSet(session.items)
    BY <2>1, LoadsAssumption, FS_Subset
  <2>3. /\ Cardinality(session'.items) <= Cardinality(session.items)
        /\ Cardinality(session'.items) \in Nat /\ Cardinality(session.items) \in Nat
    BY <2>1, <2>2, FS_Subset, FS_CardinalityType
  <2> QED
    BY <2>3, LoadsAssumption DEF IInv
<1>4. \A q \in LoadRequests : RequestOK(request[q])'
  BY DEF IInv, RequestOK
<1>5. ClaimsAreHeld'
  <2> SUFFICES ASSUME NEW i \in LoadItems, session'.claim[i] # "free"
               PROVE  Holds(request'[session'.claim[i]], session', i)
    BY DEF ClaimsAreHeld, Holds
  <2>1. CASE session'.claim[i] = r
    BY <2>1
  <2>2. CASE session'.claim[i] # r
    <3>1. /\ session'.claim[i] = session.claim[i]
          /\ session'.generation[i] = session.generation[i]
          /\ i \in session'.items <=> i \in session.items
      BY <2>2 DEF Safe, Kept
    <3>2. session.claim[i] \in LoadRequests
      BY <3>1 DEF IInv, SessionOK, SessionTypes
    <3> QED
      BY <2>2, <3>1, <3>2 DEF IInv, ClaimsAreHeld, Holds
  <2> QED
    BY <2>1, <2>2
<1> QED
  BY <1>1, <1>2, <1>3, <1>4, <1>5 DEF IInv, Unspent, OneShotOnce

\* The session becomes s: a client that is not told is owed a notice.
LEMMA BecomesMeaning ==
  ASSUME IInv, NEW s, Notice(session, s), SessionBecomes(s)
  PROVE  session' = s /\ told' \in BOOLEAN /\ lost' \in Reasons /\ NoticeOwed'
<1>1. /\ session' = s /\ told' = (told /\ s.items = session.items)
      /\ lost' = IF s.items = session.items THEN lost ELSE "none"
  BY DEF SessionBecomes, SessionFrom
<1>2. told \in BOOLEAN /\ lost \in Reasons /\ NoticeOwed
  BY DEF IInv, Histories
<1>3. told' \in BOOLEAN /\ lost' \in Reasons
  BY <1>1, <1>2 DEF Reasons
<1> QED
  BY <1>1, <1>2, <1>3 DEF NoticeOwed, Notice

\* A request that has nothing to release claims nothing.
LEMMA NothingClaimed ==
  ASSUME IInv, NEW r \in LoadRequests, request[r].then \notin {"get", "raise"}
  PROVE  \A i \in LoadItems : session.claim[i] # r
BY LoadsAssumption DEF IInv, ClaimsAreHeld, Holds

\* What r claims in a session that only lost items, it has claimed before.
LEMMA ClaimsStay ==
  ASSUME IInv, NEW r \in LoadRequests, NEW s, Kept(session, s, "free"), NEW g,
         SameGrant(g, request[r]), g.then \in {"get", "raise"}
  PROVE  \A i \in LoadItems : s.claim[i] = r => Holds(g, s, i)
<1> SUFFICES ASSUME NEW i \in LoadItems, s.claim[i] = r
             PROVE  Holds(g, s, i)
  OBVIOUS
<1>1. /\ session.claim[i] = r /\ s.generation[i] = session.generation[i]
      /\ i \in s.items <=> i \in session.items
  BY LoadsAssumption DEF Kept
<1>2. Holds(request[r], session, i)
  BY <1>1, LoadsAssumption DEF IInv, ClaimsAreHeld
<1> QED
  BY <1>1, <1>2 DEF Holds, SameGrant

\* A step that leaves the histories of the dispatches alone.
LEMMA QuietFrame ==
  ASSUME IInv, NEW r \in LoadRequests, Good(session, session', r),
         UNCHANGED <<loads, onceOnly, catalog, edits, dispatches>>,
         request' \in [LoadRequests -> RequestTypes],
         \A q \in LoadRequests : q # r => request'[q] = request[q],
         RequestOK(request'[r]),
         \A i \in LoadItems : session'.claim[i] = r =>
           Holds(request'[r], session', i),
         NoticeOwed', told' \in BOOLEAN, lost' \in Reasons
  PROVE  IInv'
<1>1. Unspent(session', consumed')
  BY DEF IInv, Unspent, Good, Safe, Within, dispatches
<1>2. consumed' \subseteq LoadItems \X (1..loads) /\ again' \in BOOLEAN /\ ~again'
  BY DEF IInv, Histories, OneShotOnce, dispatches
<1> QED
  BY <1>1, <1>2, Frame DEF Good

\* visible_names, for tools/list
LEMMA ListToolsKeeps ==
  ASSUME IInv, NEW r \in LoadRequests, ListTools(r)
  PROVE  IInv'
<1>1. /\ request[r].pc = "idle" /\ BeginJudging(r, NoRequest)
      /\ UNCHANGED <<session, catalog, edits, loads, dispatches, onceOnly, told,
                     lost>>
  BY DEF ListTools
<1>2. \A i \in LoadItems : session.claim[i] # r
  BY <1>1, NothingClaimed DEF IInv, RequestOK
<1>3. /\ request' \in [LoadRequests -> RequestTypes]
      /\ \A q \in LoadRequests : q # r => request'[q] = request[q]
      /\ GoesOn(request'[r], NoRequest, "end")
  BY <1>1, BeginJudgingMeaning, NoRequestMeaning DEF IInv
<1>4. RequestOK(request'[r])
  BY <1>3, GoesOnIsOK, NoRequestMeaning DEF IInv, RequestOK, Nexts
<1>5. Good(session, session', r)
  BY <1>1, GoodComposes DEF IInv
<1>6. NoticeOwed' /\ told' \in BOOLEAN /\ lost' \in Reasons
  BY <1>1 DEF IInv, Histories, NoticeOwed
<1> QED
  BY <1>1, <1>2, <1>3, <1>4, <1>5, <1>6, QuietFrame

\* acquire: the grant is on the load that is there, and a one-shot is claimed.
LEMMA CallNativeKeeps ==
  ASSUME IInv, NEW r \in LoadRequests, NEW i \in LoadItems, CallNative(r, i)
  PROVE  IInv'
<1> DEFINE once == Reserved(i)
           fields == [NoRequest EXCEPT
             !.item = i, !.gen = session.generation[i],
             !.binding = session.binding[i], !.claimed = once, !.then = "get"]
<1>1. /\ request[r].pc = "idle" /\ i \in session.items /\ session.claim[i] = "free"
      /\ session' = [session EXCEPT !.claim[i] = IF once THEN r ELSE session.claim[i]]
      /\ BeginJudging(r, fields)
      /\ UNCHANGED <<catalog, edits, loads, dispatches, onceOnly, told, lost>>
  BY DEF CallNative
<1>2. \A j \in LoadItems : session.claim[j] # r
  BY <1>1, NothingClaimed DEF IInv, RequestOK
<1>3. once \in BOOLEAN /\ session \in SessionTypes
  BY DEF Reserved, IInv, SessionOK
<1>4. /\ fields \in RequestTypes /\ fields.then = "get" /\ fields.item = i
      /\ fields.gen = session.generation[i] /\ fields.claimed = once
      /\ fields.dispatched = FALSE
  <2>1. /\ session.generation[i] \in Nat
        /\ session.binding[i] \in Bindings \cup {"none"}
    BY <1>3 DEF SessionTypes
  <2>2. NoRequest \in RequestTypes /\ NoRequest.dispatched = FALSE
    BY NoRequestMeaning DEF IInv
  <2> HIDE DEF once
  <2> QED
    BY <1>3, <2>1, <2>2 DEF RequestTypes, Nexts
<1>5. once <=> i \in session.oneShot
  BY DEF Reserved
<1> HIDE DEF once, fields
<1>6. /\ request' \in [LoadRequests -> RequestTypes]
      /\ \A q \in LoadRequests : q # r => request'[q] = request[q]
      /\ GoesOn(request'[r], fields, "get")
  BY <1>1, <1>4, BeginJudgingMeaning DEF IInv
<1>7. /\ session.generation[i] <= loads /\ session.generation[i] # 0
      /\ session.generation[i] \in onceOnly => once
  BY <1>1, <1>5 DEF IInv, SessionOK
<1>8. RequestOK(request'[r])
  BY <1>4, <1>6, <1>7, GoesOnIsOK DEF IInv, Nexts
<1>9. /\ session' \in SessionTypes
      /\ session'.items = session.items /\ session'.oneShot = session.oneShot
      /\ session'.pending = session.pending
      /\ session'.generation = session.generation
      /\ session'.claim[i] = IF once THEN r ELSE "free"
      /\ \A j \in LoadItems : j # i => session'.claim[j] = session.claim[j]
  BY <1>1, <1>3 DEF SessionTypes
<1>10. Good(session, session', r)
  <2>1. SessionOK(session')
    BY <1>1, <1>9, LoadsAssumption DEF IInv, SessionOK
  <2>2. Within(session, session') /\ Kept(session, session', r)
        /\ Notice(session, session')
    BY <1>1, <1>9 DEF Within, Kept, Notice
  <2> QED
    BY <2>1, <2>2 DEF Good, Safe
<1>11. \A j \in LoadItems : session'.claim[j] = r => Holds(request'[r], session', j)
  <2> SUFFICES ASSUME NEW j \in LoadItems, session'.claim[j] = r
               PROVE  Holds(request'[r], session', j)
    OBVIOUS
  <2>1. j = i /\ once
    BY <1>2, <1>9, LoadsAssumption
  <2>2. SameGrant(request'[r], fields) /\ request'[r].then = "get"
    BY <1>6 DEF GoesOn
  <2> QED
    BY <1>1, <1>4, <1>7, <1>9, <2>1, <2>2 DEF Holds, SameGrant
<1>12. NoticeOwed' /\ told' \in BOOLEAN /\ lost' \in Reasons
  BY <1>1, <1>9 DEF IInv, Histories, NoticeOwed
<1> QED
  BY <1>1, <1>6, <1>8, <1>10, <1>11, <1>12, QuietFrame

\* A request that goes on with a session that at most lost items: it claims what
\* it has claimed, if it has yet to release it.
LEMMA GoesOnFrame ==
  ASSUME IInv, NEW r \in LoadRequests, NEW then \in Nexts \ {"done"}, NEW g,
         SameGrant(g, request[r]), g \in RequestTypes,
         \A q : Good(session, session', q),
         UNCHANGED <<loads, onceOnly, catalog, edits, dispatches>>,
         request' \in [LoadRequests -> RequestTypes],
         \A q \in LoadRequests : q # r => request'[q] = request[q],
         GoesOn(request'[r], g, then),
         then \in {"get", "raise", "revoke"} => request[r].item \in LoadItems,
         then = "get" => ~request[r].dispatched,
         then \notin {"get", "raise"} => request[r].then \notin {"get", "raise"},
         NoticeOwed', told' \in BOOLEAN, lost' \in Reasons
  PROVE  IInv'
<1>1. RequestOK(request[r])
  BY DEF IInv
<1>2. RequestOK(request'[r])
  BY <1>1, GoesOnIsOK DEF IInv, SameGrant, RequestOK
<1>3. Kept(session, session', "free")
  BY DEF Good, Safe
<1>4. \A i \in LoadItems : session'.claim[i] = r => Holds(request'[r], session', i)
  <2>1. CASE then \in {"get", "raise"}
    <3>1. SameGrant(request'[r], request[r]) /\ request'[r].then \in {"get", "raise"}
      BY <2>1 DEF GoesOn, SameGrant
    <3> QED
      BY <1>3, <3>1, ClaimsStay
  <2>2. CASE then \notin {"get", "raise"}
    <3>1. \A i \in LoadItems : session.claim[i] # r
      BY <2>2, NothingClaimed
    <3> QED
      BY <1>3, <3>1, LoadsAssumption DEF Kept
  <2> QED
    BY <2>1, <2>2
<1> QED
  BY <1>2, <1>4, QuietFrame

\* revoke_invisible: the items that the catalog no longer shows are unloaded.
LEMMA JudgeKeeps ==
  ASSUME IInv, NEW r \in LoadRequests, NEW i \in LoadItems, Judge(r, i)
  PROVE  IInv'
<1> DEFINE g == request[r]
           gone == g.gone \cup (IF Invisible(i) THEN {i} ELSE {})
           s == Unload(session, gone)
<1>1. /\ g.pc = "judge" /\ g \in RequestTypes /\ RequestOK(g)
      /\ g.then \in {"get", "end"} /\ (g.then = "get" => ~g.dispatched)
      /\ g.then = "get" => g.item \in LoadItems
  BY DEF Judge, IInv, RequestOK, RequestTypes, Nexts
<1>2. gone \in SUBSET LoadItems
  BY <1>1 DEF RequestTypes
<1>3. UNCHANGED <<catalog, edits, loads, dispatches, onceOnly>>
  BY DEF Judge
<1>4. CASE g.items # {i}
  <2> DEFINE new == [g EXCEPT !.items = g.items \ {i}, !.gone = gone]
  <2>1. Put(r, new) /\ UNCHANGED <<session, told, lost>>
    BY <1>4 DEF Judge
  <2> HIDE DEF gone
  <2>2. /\ new \in RequestTypes /\ SameGrant(new, g) /\ new.then = g.then
        /\ new.pc = "judge"
    BY <1>1, <1>2 DEF RequestTypes, SameGrant
  <2> HIDE DEF new
  <2>3. /\ request' \in [LoadRequests -> RequestTypes] /\ request'[r] = new
        /\ \A q \in LoadRequests : q # r => request'[q] = request[q]
    BY <2>1, <2>2, PutMeaning DEF IInv
  <2>4. GoesOn(request'[r], g, g.then)
    BY <1>1, <2>2, <2>3 DEF GoesOn
  <2>5. \A q : Good(session, session', q)
    BY <2>1, GoodComposes DEF IInv
  <2>6. NoticeOwed' /\ told' \in BOOLEAN /\ lost' \in Reasons
    BY <1>3, <2>1 DEF IInv, Histories, NoticeOwed
  <2>7. SameGrant(g, request[r]) /\ g.then \in Nexts \ {"done"}
    BY <1>1 DEF SameGrant, Nexts
  <2> QED
    BY <1>1, <1>3, <2>3, <2>4, <2>5, <2>6, <2>7, GoesOnFrame
<1>5. CASE g.items = {i}
  <2> HIDE DEF gone
  <2>1. \A q : Good(session, s, q)
    BY <1>2, UnloadMeaning DEF IInv
  <2>2. SessionBecomes(s)
    BY <1>5 DEF Judge, gone
  <2> HIDE DEF s
  <2>3. session' = s /\ NoticeOwed' /\ told' \in BOOLEAN /\ lost' \in Reasons
    BY <1>3, <2>1, <2>2, BecomesMeaning DEF Good, Safe
  <2>4. CASE gone = {}
    <3> DEFINE new == [g EXCEPT !.items = {}]
    <3>1. Redeliver(s, r, new, g.then)
      BY <1>5, <2>4 DEF Judge, gone, s
    <3>2. new \in RequestTypes /\ SameGrant(new, g) /\ new.then = g.then
      BY <1>1 DEF RequestTypes, SameGrant
    <3> HIDE DEF new
    <3>3. /\ request' \in [LoadRequests -> RequestTypes]
          /\ \A q \in LoadRequests : q # r => request'[q] = request[q]
          /\ GoesOn(request'[r], new, g.then)
      BY <1>1, <3>1, <3>2, RedeliverMeaning DEF IInv
    <3>4. g.then \in Nexts \ {"done"}
      BY <1>1 DEF Nexts
    <3> QED
      BY <1>1, <1>3, <2>1, <2>3, <3>2, <3>3, <3>4, GoesOnFrame
  <2>5. CASE gone # {}
    <3> DEFINE new == [g EXCEPT !.pc = "announce", !.items = {}, !.gone = {}]
    <3>1. Put(r, new)
      BY <1>5, <2>5 DEF Judge, gone
    <3>2. /\ new \in RequestTypes /\ SameGrant(new, g) /\ new.then = g.then
          /\ new.pc = "announce"
      BY <1>1 DEF RequestTypes, SameGrant
    <3> HIDE DEF new
    <3>3. /\ request' \in [LoadRequests -> RequestTypes] /\ request'[r] = new
          /\ \A q \in LoadRequests : q # r => request'[q] = request[q]
      BY <3>1, <3>2, PutMeaning DEF IInv
    <3>4. RequestOK(request'[r])
      BY <1>1, <3>2, <3>3 DEF RequestOK, SameGrant
    <3>5. \A j \in LoadItems : session'.claim[j] = r => Holds(request'[r], session', j)
      <4>1. CASE g.then = "get"
        BY <2>1, <2>3, <3>2, <3>3, <4>1, ClaimsStay DEF Good, Safe
      <4>2. CASE g.then # "get"
        BY ZenonT(60), <1>1, <2>1, <2>3, <4>2, NothingClaimed, LoadsAssumption
           DEF Good, Safe, Kept
      <4> QED
        BY <4>1, <4>2
    <3> QED
      BY <1>3, <2>1, <2>3, <3>3, <3>4, <3>5, QuietFrame
  <2> QED
    BY <2>4, <2>5
<1> QED
  BY <1>4, <1>5

\* The notice of a change was sent, or was not.
LEMMA AnnouncedKeeps ==
  ASSUME IInv, NEW r \in LoadRequests, Announced(r)
  PROVE  IInv'
<1> DEFINE g == request[r]
<1>1. /\ g.pc = "announce" /\ g \in RequestTypes /\ RequestOK(g)
      /\ g.then \in {"get", "end", "done"} /\ (g.then = "get" => ~g.dispatched)
      /\ g.then = "get" => g.item \in LoadItems
  BY DEF Announced, IInv, RequestOK, RequestTypes, Nexts
<1>2. UNCHANGED <<session, catalog, edits, loads, dispatches, onceOnly, lost>>
  BY DEF Announced
<1>3. NoticeOwed' /\ told' \in BOOLEAN /\ lost' \in Reasons
  <2>1. told' \in {told, told \/ r \in fresh} /\ told \in BOOLEAN
    BY DEF Announced, IInv, Histories
  <2>2. told' \in BOOLEAN /\ (told => told')
    BY <2>1
  <2> QED
    BY <1>2, <2>2 DEF IInv, Histories, NoticeOwed
<1>4. \A q : Good(session, session', q)
  BY <1>2, GoodComposes DEF IInv
<1>5. CASE g.then = "done"
  <2>1. Put(r, NoRequest)
    BY <1>5 DEF Announced
  <2>2. /\ request' \in [LoadRequests -> RequestTypes] /\ request'[r] = NoRequest
        /\ \A q \in LoadRequests : q # r => request'[q] = request[q]
    BY <2>1, PutMeaning, NoRequestMeaning DEF IInv
  <2>3. \A i \in LoadItems : session'.claim[i] # r
    BY <1>2, <1>5, NothingClaimed
  <2> QED
    BY <1>2, <1>3, <1>4, <2>2, <2>3, NoRequestMeaning, QuietFrame DEF IInv
<1>6. CASE g.then # "done"
  <2>1. Redeliver(session, r, g, g.then)
    BY <1>6 DEF Announced
  <2>2. /\ request' \in [LoadRequests -> RequestTypes]
        /\ \A q \in LoadRequests : q # r => request'[q] = request[q]
        /\ GoesOn(request'[r], g, g.then)
    BY <1>1, <1>6, <2>1, RedeliverMeaning DEF IInv
  <2>3. SameGrant(g, request[r]) /\ g.then \in Nexts \ {"done"}
    BY <1>1, <1>6 DEF SameGrant, Nexts
  <2> QED
    BY <1>1, <1>2, <1>3, <1>4, <1>6, <2>2, <2>3, GoesOnFrame
<1> QED
  BY <1>5, <1>6

\* unload_tools
LEMMA UnloadToolsKeeps ==
  ASSUME IInv, NEW r \in LoadRequests, UnloadTools(r)
  PROVE  IInv'
<1> DEFINE new == [NoRequest EXCEPT !.pc = "announce", !.then = "done"]
<1>1. PICK targets \in SUBSET Retractable(session) :
        /\ request[r].pc = "idle"
        /\ SessionBecomes(Unload(session, targets)) /\ Put(r, new)
        /\ UNCHANGED <<catalog, edits, loads, dispatches, onceOnly>>
  BY DEF UnloadTools
<1>2. targets \in SUBSET LoadItems
  BY DEF Retractable
<1>3. \A q : Good(session, Unload(session, targets), q)
  BY <1>2, UnloadMeaning DEF IInv
<1>4. /\ session' = Unload(session, targets)
      /\ NoticeOwed' /\ told' \in BOOLEAN /\ lost' \in Reasons
  BY <1>1, <1>3, BecomesMeaning DEF Good
<1>5. /\ new \in RequestTypes /\ new.pc = "announce" /\ new.then = "done"
      /\ new.gen = 0
  BY NoRequestMeaning DEF IInv, RequestTypes, Nexts
<1> HIDE DEF new
<1>6. /\ request' \in [LoadRequests -> RequestTypes] /\ request'[r] = new
      /\ \A q \in LoadRequests : q # r => request'[q] = request[q]
  BY <1>1, <1>5, PutMeaning DEF IInv
<1>7. RequestOK(request'[r])
  BY <1>5, <1>6 DEF RequestOK, IInv, Histories
<1>8. \A i \in LoadItems : session'.claim[i] # r
  <2>1. \A i \in LoadItems : session.claim[i] # r
    BY <1>1, NothingClaimed DEF IInv, RequestOK
  <2>2. Kept(session, session', "free")
    BY <1>3, <1>4 DEF Good, Safe
  <2> QED
    BY <2>1, <2>2, LoadsAssumption DEF Kept
<1> QED
  BY <1>1, <1>3, <1>4, <1>6, <1>7, <1>8, QuietFrame

\* load_tools, up to mounting
LEMMA ResolveLoadKeeps ==
  ASSUME IInv, NEW r \in LoadRequests, ResolveLoad(r)
  PROVE  IInv'
<1>1. PICK wanted \in SUBSET {i \in LoadItems : catalog[i] # "hidden"},
           evict \in BOOLEAN :
        /\ request[r].pc = "idle"
        /\ Put(r, [NoRequest EXCEPT
             !.pc = "load", !.items = wanted, !.evict = evict,
             !.bound = [i \in LoadItems |-> IF i \in wanted THEN catalog[i]
                                                             ELSE "none"]])
        /\ UNCHANGED <<session, catalog, edits, loads, dispatches, onceOnly, told,
                       lost>>
  BY DEF ResolveLoad
<1> DEFINE bound == [i \in LoadItems |-> IF i \in wanted THEN catalog[i] ELSE "none"]
           new == [NoRequest EXCEPT !.pc = "load", !.items = wanted,
                                    !.evict = evict, !.bound = bound]
<1>2. Put(r, new)
  BY <1>1
<1>3. bound \in [LoadItems -> Bindings \cup {"none"}] /\ wanted \in SUBSET LoadItems
  BY DEF IInv, Histories
<1> HIDE DEF bound
<1>4. /\ new \in RequestTypes /\ new.pc = "load" /\ new.then = "end"
      /\ new.gen = 0
  BY <1>3, NoRequestMeaning DEF IInv, RequestTypes
<1> HIDE DEF new
<1>5. /\ request' \in [LoadRequests -> RequestTypes] /\ request'[r] = new
      /\ \A q \in LoadRequests : q # r => request'[q] = request[q]
  BY <1>2, <1>4, PutMeaning DEF IInv
<1>6. RequestOK(request'[r])
  BY <1>4, <1>5 DEF RequestOK, IInv, Histories
<1>7. \A i \in LoadItems : session'.claim[i] # r
  BY <1>1, NothingClaimed DEF IInv, RequestOK
<1>8. Good(session, session', r)
  BY <1>1, GoodComposes DEF IInv
<1>9. NoticeOwed' /\ told' \in BOOLEAN /\ lost' \in Reasons
  BY <1>1 DEF IInv, Histories, NoticeOwed
<1> QED
  BY <1>1, <1>5, <1>6, <1>7, <1>8, <1>9, QuietFrame

\* What r claims is what its grant is on.
LEMMA ClaimsOf ==
  ASSUME IInv, NEW r \in LoadRequests, NEW s, Kept(session, s, "free")
  PROVE  Claims(s, r, request[r].dispatched)
<1> SUFFICES ASSUME NEW i \in LoadItems, s.claim[i] = r
             PROVE  /\ request[r].claimed /\ request[r].item = i
                    /\ request[r].gen = s.generation[i]
                    /\ request[r].dispatched <=> i \notin s.items
  BY DEF Claims
<1>1. /\ session.claim[i] = r /\ s.generation[i] = session.generation[i]
      /\ i \in s.items <=> i \in session.items
  BY LoadsAssumption DEF Kept
<1>2. Holds(request[r], session, i)
  BY <1>1, LoadsAssumption DEF IInv, ClaimsAreHeld
<1> QED
  BY <1>1, <1>2 DEF Holds

\* redelivered: only the mark of the notice that is owed changes.
LEMMA RedeliveredMeaning ==
  ASSUME IInv, NEW sent \in BOOLEAN
  PROVE  LET s == Redelivered(session, sent)
         IN /\ \A q : Safe(session, s, q)
            /\ s.items = session.items /\ (~sent => s = session)
            /\ s.generation = session.generation /\ s.claim = session.claim
<1> DEFINE s == Redelivered(session, sent)
<1>1. session \in SessionTypes
  BY DEF IInv, SessionOK
<1>2. /\ s \in SessionTypes /\ s.items = session.items /\ s.oneShot = session.oneShot
      /\ s.generation = session.generation /\ s.claim = session.claim
      /\ ~sent => s = session
  BY <1>1 DEF Redelivered, SessionTypes
<1> HIDE DEF s
<1>3. SessionOK(s)
  BY <1>2 DEF IInv, SessionOK
<1>4. Within(session, s) /\ \A q : Kept(session, s, q)
  BY <1>2 DEF Within, Kept
<1> QED
  BY <1>2, <1>3, <1>4 DEF Safe, s

\* The redelivery is over: what the request does next.
LEMMA ResentKeeps ==
  ASSUME IInv, NEW r \in LoadRequests, Resent(r)
  PROVE  IInv'
<1> DEFINE g == request[r]
<1>1. PICK sent \in BOOLEAN :
    LET s1 == Redelivered(session, sent)
        s2 == CASE g.then = "raise"  -> Released(s1, r, g.dispatched)
                [] g.then = "revoke" -> Revoked(s1, r)
                [] OTHER             -> s1
    IN /\ g.pc = "resend"
       /\ SessionFrom(s2, told \/ (sent /\ r \in fresh),
            IF sent /\ r \notin fresh /\ session.pending THEN "overtaken" ELSE lost)
       /\ CASE g.then = "get"    -> Put(r, [g EXCEPT !.pc = "get"])
            [] g.then = "revoke" -> Redeliver(s2, r, g, "end")
            [] OTHER             -> Put(r, NoRequest)
       /\ UNCHANGED <<catalog, edits, loads, dispatches, onceOnly>>
  BY DEF Resent
<1> DEFINE s1 == Redelivered(session, sent)
           s2 == CASE g.then = "raise"  -> Released(s1, r, g.dispatched)
                   [] g.then = "revoke" -> Revoked(s1, r)
                   [] OTHER             -> s1
<1>2. /\ \A q : Safe(session, s1, q)
      /\ s1.items = session.items /\ (~sent => s1 = session)
  BY RedeliveredMeaning
<1>3. /\ g \in RequestTypes /\ RequestOK(g) /\ g.pc = "resend"
      /\ g.then \in {"get", "end", "raise", "revoke"}
      /\ g.then \in {"get", "raise", "revoke"} => g.item \in LoadItems
      /\ g.then = "get" => ~g.dispatched
  BY <1>1 DEF IInv, RequestOK, RequestTypes, Nexts
<1> HIDE DEF s1
<1>4. Claims(s1, r, g.dispatched) /\ SessionOK(s1) /\ g.dispatched \in BOOLEAN
  BY <1>2, <1>3, ClaimsOf DEF Safe, RequestTypes
<1>5. /\ Good(s1, s2, r)
      /\ g.then = "get" => s2 = s1
      /\ g.then # "get" => \A i \in LoadItems : s2.claim[i] # r
  <2>1. CASE g.then = "raise"
    <3>1. s2 = Released(s1, r, g.dispatched)
      BY <2>1
    <3> QED
      BY <1>3, <1>4, <2>1, <3>1, ReleasedMeaning DEF IInv
  <2>2. CASE g.then = "revoke"
    <3>1. s2 = Revoked(s1, r)
      BY <2>2
    <3>2. \A q : Good(s1, Revoked(s1, r), q)
      BY <1>3, <1>4, <2>2, RevokedMeaning DEF IInv
    <3>3. \A i \in LoadItems : session.claim[i] # r
      BY <2>2, NothingClaimed
    <3> HIDE DEF s2
    <3>4. \A i \in LoadItems : s1.claim[i] # r
      BY <1>2, <3>3, LoadsAssumption DEF Safe, Kept
    <3>5. \A i \in LoadItems : s2.claim[i] # r
      BY <3>1, <3>2, <3>4, LoadsAssumption DEF Good, Safe, Kept
    <3> QED
      BY <2>2, <3>1, <3>2, <3>5
  <2>3. CASE g.then \in {"get", "end"}
    <3>1. s2 = s1
      BY <2>3
    <3>2. g.then # "get" => \A i \in LoadItems : session.claim[i] # r
      BY <2>3, NothingClaimed
    <3> HIDE DEF s2
    <3>3. g.then # "get" => \A i \in LoadItems : s1.claim[i] # r
      BY <1>2, <3>2, LoadsAssumption DEF Safe, Kept
    <3> QED
      BY <1>4, <3>1, <3>3, GoodComposes
  <2> QED
    BY <1>3, <2>1, <2>2, <2>3
<1>6. /\ SessionFrom(s2, told \/ (sent /\ r \in fresh),
           IF sent /\ r \notin fresh /\ session.pending THEN "overtaken" ELSE lost)
      /\ g.then = "get" => Put(r, [g EXCEPT !.pc = "get"])
      /\ g.then = "revoke" => Redeliver(s2, r, g, "end")
      /\ g.then \in {"raise", "end"} => Put(r, NoRequest)
      /\ UNCHANGED <<catalog, edits, loads, dispatches, onceOnly>>
  BY <1>1 DEF s1
<1> HIDE DEF s2
<1>7. /\ session' = s2
      /\ told' = ((told \/ (sent /\ r \in fresh)) /\ s2.items = session.items)
      /\ lost' = IF s2.items = session.items
                   THEN IF sent /\ r \notin fresh /\ session.pending
                          THEN "overtaken" ELSE lost
                   ELSE "none"
  BY <1>6 DEF SessionFrom
<1>8. NoticeOwed' /\ told' \in BOOLEAN /\ lost' \in Reasons
  <2>1. told \in BOOLEAN /\ lost \in Reasons /\ NoticeOwed
    BY DEF IInv, Histories
  <2>2. told' \in BOOLEAN /\ lost' \in Reasons
    BY <1>7, <2>1 DEF Reasons
  <2>3. s1.pending \/ s2.items # session.items => s2.pending
    BY <1>2, <1>5 DEF Good, Notice
  <2> QED
    BY <1>2, <1>7, <2>1, <2>2, <2>3 DEF NoticeOwed
<1>9. Safe(session, session', r)
  <2>1. Safe(session, s1, r) /\ Safe(s1, s2, r)
    BY <1>2, <1>5 DEF Good
  <2> QED
    BY <1>7, <2>1 DEF Safe, Within, Kept
<1>10. /\ request' \in [LoadRequests -> RequestTypes]
       /\ \A q \in LoadRequests : q # r => request'[q] = request[q]
       /\ RequestOK(request'[r])
       /\ g.then = "get" => SameGrant(request'[r], g) /\ request'[r].then = "get"
  <2>1. CASE g.then = "get"
    <3> DEFINE new == [g EXCEPT !.pc = "get"]
    <3>1. /\ new \in RequestTypes /\ new.pc = "get" /\ new.then = "get"
          /\ SameGrant(new, g)
      BY <1>3, <2>1 DEF RequestTypes, SameGrant
    <3>2. Put(r, new)
      BY <1>6, <2>1
    <3> HIDE DEF new
    <3>3. /\ request' \in [LoadRequests -> RequestTypes] /\ request'[r] = new
          /\ \A q \in LoadRequests : q # r => request'[q] = request[q]
      BY <3>1, <3>2, PutMeaning DEF IInv
    <3>4. RequestOK(new)
      BY <1>3, <2>1, <3>1 DEF RequestOK, SameGrant
    <3> QED
      BY <3>1, <3>3, <3>4
  <2>2. CASE g.then = "revoke"
    <3>1. /\ request' \in [LoadRequests -> RequestTypes]
          /\ \A q \in LoadRequests : q # r => request'[q] = request[q]
          /\ GoesOn(request'[r], g, "end")
      BY <1>3, <1>6, <2>2, RedeliverMeaning DEF IInv
    <3>2. RequestOK(request'[r])
      BY <1>3, <3>1, GoesOnIsOK DEF IInv, RequestOK, Nexts
    <3> QED
      BY <2>2, <3>1, <3>2
  <2>3. CASE g.then \in {"raise", "end"}
    BY <1>6, <2>3, PutMeaning, NoRequestMeaning DEF IInv
  <2> QED
    BY <1>3, <2>1, <2>2, <2>3
<1>11. \A i \in LoadItems : session'.claim[i] = r => Holds(request'[r], session', i)
  <2>1. CASE g.then = "get"
    <3>1. Kept(session, session', "free")
      BY <1>2, <1>5, <1>7, <2>1 DEF Safe
    <3> QED
      BY <1>10, <2>1, <3>1, ClaimsStay
  <2>2. CASE g.then # "get"
    BY <1>5, <1>7, <2>2
  <2> QED
    BY <2>1, <2>2
<1>12. Unspent(session', consumed')
  BY <1>6, <1>9 DEF IInv, Unspent, Safe, Within, dispatches
<1>13. consumed' \subseteq LoadItems \X (1..loads) /\ again' \in BOOLEAN /\ ~again'
  BY <1>6 DEF IInv, Histories, OneShotOnce, dispatches
<1> QED
  BY <1>6, <1>8, <1>9, <1>10, <1>11, <1>12, <1>13, Frame

\* _invoke_native: the catalog has answered.
LEMMA GetItemKeeps ==
  ASSUME IInv, NEW r \in LoadRequests, GetItem(r)
  PROVE  IInv'
<1> DEFINE g == request[r]
           s == Revoked(session, r)
           good == catalog[g.item] = g.binding /\ Current(session, r)
<1>1. /\ g.pc = "get" /\ g \in RequestTypes /\ RequestOK(g)
      /\ g.then = "get" /\ g.item \in LoadItems /\ ~g.dispatched
      /\ UNCHANGED <<catalog, edits, loads, dispatches, onceOnly>>
  BY DEF GetItem, IInv, RequestOK
<1>2. \A q : Good(session, s, q)
  BY <1>1, RevokedMeaning DEF IInv
<1>3. SameGrant(g, request[r]) /\ g.dispatched = FALSE
  BY <1>1 DEF SameGrant, RequestTypes
<1>4. CASE good
  <2> DEFINE new == [g EXCEPT !.pc = "invoke"]
  <2>1. Put(r, new) /\ UNCHANGED <<session, told, lost>>
    BY <1>4 DEF GetItem
  <2>2. /\ new \in RequestTypes /\ SameGrant(new, g) /\ new.then = "get"
        /\ new.pc = "invoke"
    BY <1>1 DEF RequestTypes, SameGrant
  <2> HIDE DEF new
  <2>3. /\ request' \in [LoadRequests -> RequestTypes] /\ request'[r] = new
        /\ \A q \in LoadRequests : q # r => request'[q] = request[q]
    BY <2>1, <2>2, PutMeaning DEF IInv
  <2>4. RequestOK(request'[r])
    BY <1>1, <2>2, <2>3 DEF RequestOK, SameGrant
  <2>5. Good(session, session', r) /\ Kept(session, session', "free")
    BY <2>1, GoodComposes DEF IInv, Kept
  <2>6. \A i \in LoadItems : session'.claim[i] = r => Holds(request'[r], session', i)
    BY <2>2, <2>3, <2>5, ClaimsStay
  <2>7. NoticeOwed' /\ told' \in BOOLEAN /\ lost' \in Reasons
    BY <1>1, <2>1 DEF IInv, Histories, NoticeOwed
  <2> QED
    BY <1>1, <2>3, <2>4, <2>5, <2>6, <2>7, QuietFrame
<1>5. CASE ~good /\ s.pending
  <2>1. SessionBecomes(s) /\ Redeliver(s, r, g, "raise")
    BY <1>5 DEF GetItem
  <2> HIDE DEF s, good
  <2>2. session' = s /\ NoticeOwed' /\ told' \in BOOLEAN /\ lost' \in Reasons
    BY <1>1, <1>2, <2>1, BecomesMeaning DEF Good
  <2>3. /\ request' \in [LoadRequests -> RequestTypes]
        /\ \A q \in LoadRequests : q # r => request'[q] = request[q]
        /\ GoesOn(request'[r], g, "raise")
    BY <1>1, <1>5, <2>1, RedeliverMeaning DEF IInv
  <2>4. "raise" \in Nexts \ {"done"}
    BY DEF Nexts
  <2> QED
    BY <1>1, <1>2, <1>3, <2>2, <2>3, <2>4, GoesOnFrame
<1>6. CASE ~good /\ ~s.pending
  <2> DEFINE t == Released(s, r, g.dispatched)
  <2>1. SessionBecomes(t) /\ Put(r, NoRequest)
    BY <1>6 DEF GetItem
  <2> HIDE DEF s, good
  <2>2. SessionOK(s) /\ Claims(s, r, g.dispatched) /\ g.dispatched \in BOOLEAN
    BY <1>1, <1>2, ClaimsOf DEF Good, Safe, RequestTypes
  <2>3. Good(s, t, r) /\ \A i \in LoadItems : t.claim[i] # r
    BY <1>1, <2>2, ReleasedMeaning DEF IInv
  <2>4. Good(session, t, r)
    BY <1>2, <2>3, GoodComposes DEF IInv
  <2> HIDE DEF t
  <2>5. session' = t /\ NoticeOwed' /\ told' \in BOOLEAN /\ lost' \in Reasons
    BY <1>1, <2>1, <2>4, BecomesMeaning DEF Good
  <2>6. /\ request' \in [LoadRequests -> RequestTypes] /\ request'[r] = NoRequest
        /\ \A q \in LoadRequests : q # r => request'[q] = request[q]
    BY <2>1, PutMeaning, NoRequestMeaning DEF IInv
  <2> QED
    BY <1>1, <2>3, <2>4, <2>5, <2>6, NoRequestMeaning, QuietFrame DEF IInv
<1> QED
  BY <1>4, <1>5, <1>6

\* A grant that is still good and is dispatched now was not dispatched before.
LEMMA DispatchedMeaning ==
  ASSUME IInv, NEW r \in LoadRequests, request[r].item \in LoadItems,
         Current(session, r), ~request[r].dispatched, Dispatched(request[r])
  PROVE  /\ Unspent(Consumed(session, r), consumed')
         /\ consumed' \subseteq LoadItems \X (1..loads)
         /\ again' \in BOOLEAN /\ ~again'
<1> DEFINE g == request[r]
           t == Consumed(session, r)
           load == <<g.item, g.gen>>
<1>1. /\ session.generation[g.item] = g.gen /\ g.item \in session.items
      /\ g.claimed => session.claim[g.item] = r
  BY DEF Current
<1>2. RequestOK(g) /\ Histories /\ SessionOK(session) /\ Unspent(session, consumed)
  BY DEF IInv
<1>3. /\ Good(session, t, r) /\ t.generation = session.generation
      /\ t.items = IF g.claimed THEN session.items \ {g.item} ELSE session.items
  BY <1>1, <1>2, ConsumedMeaning
<1>4. again \in BOOLEAN /\ ~again /\ consumed \subseteq LoadItems \X (1..loads)
  BY DEF IInv, Histories, OneShotOnce
<1>5. Unspent(t, consumed)
  BY <1>2, <1>3 DEF Unspent, Good, Safe, Within
<1> HIDE DEF t
<1>6. CASE g.gen \notin onceOnly
  BY <1>4, <1>5, <1>6 DEF Dispatched, dispatches, t
<1>7. CASE g.gen \in onceOnly
  <2>1. consumed' = consumed \cup {load} /\ again' = (again \/ load \in consumed)
    BY <1>7 DEF Dispatched
  <2>2. load \notin consumed
    BY <1>1, <1>2 DEF Unspent
  <2>3. load \in LoadItems \X (1..loads)
    <3>1. g.gen \in 1..loads /\ g.item \in LoadItems
      BY <1>2, <1>7 DEF Histories
    <3> QED
      BY <3>1
  <2>4. g.item \notin t.items
    BY <1>2, <1>3, <1>7 DEF RequestOK
  <2>5. Unspent(t, consumed')
    <3>1. \A i \in t.items : <<i, t.generation[i]>> # load
      BY <2>4
    <3> QED
      BY <1>5, <2>1, <3>1 DEF Unspent
  <2> QED
    BY <1>4, <2>1, <2>2, <2>3, <2>5 DEF t
<1> QED
  BY <1>6, <1>7

\* A call that has released its grant ends, or goes on to revoke it.
LEMMA EndFrame ==
  ASSUME IInv, NEW r \in LoadRequests, NEW s, Good(session, s, r),
         \A i \in LoadItems : s.claim[i] # r,
         UNCHANGED <<loads, onceOnly, catalog, edits>>,
         SessionBecomes(s),
         Unspent(s, consumed'), consumed' \subseteq LoadItems \X (1..loads),
         again' \in BOOLEAN, ~again',
         request' \in [LoadRequests -> RequestTypes],
         \A q \in LoadRequests : q # r => request'[q] = request[q],
         RequestOK(request'[r])
  PROVE  IInv'
<1>1. session' = s /\ NoticeOwed' /\ told' \in BOOLEAN /\ lost' \in Reasons
  BY BecomesMeaning DEF Good
<1> QED
  BY <1>1, Frame DEF Good

\* The invocation is over: the grant is consumed if no child was called, it is
\* released and, after a refusal, revoked.
LEMMA ReturnKeeps ==
  ASSUME IInv, NEW r \in LoadRequests, NEW outcome,
         request[r].pc \in {"invoke", "child"}, Return(r, outcome),
         UNCHANGED <<catalog, edits, loads, onceOnly>>
  PROVE  IInv'
<1> DEFINE g == request[r]
           late == outcome = "ok" /\ ~g.dispatched
           taken == late /\ Current(session, r)
           s1 == IF taken THEN Consumed(session, r) ELSE session
           disp == g.dispatched \/ taken
           s2 == Released(s1, r, disp)
           s3 == Revoked(s2, r)
<1>1. g \in RequestTypes /\ RequestOK(g) /\ g.then = "get" /\ g.item \in LoadItems
  BY DEF IInv, RequestOK
<1>2. IF taken THEN Dispatched(g) ELSE UNCHANGED dispatches
  BY DEF Return
<1>3. \/ SessionBecomes(s2) /\ Put(r, NoRequest)
      \/ /\ outcome = "unauthorized" => s2.pending
         /\ SessionBecomes(s2)
         /\ Redeliver(s2, r, g, IF outcome = "unauthorized" THEN "revoke" ELSE "end")
      \/ SessionBecomes(s3) /\ Redeliver(s3, r, g, "end")
  BY DEF Return
<1>4. Claims(session, r, g.dispatched)
  <2>1. Kept(session, session, "free")
    BY DEF Kept
  <2> QED
    BY <2>1, ClaimsOf
<1>5. disp \in BOOLEAN
  BY <1>1 DEF RequestTypes
<1>6. /\ Good(session, s1, r) /\ Claims(s1, r, disp) /\ Unspent(s1, consumed')
      /\ consumed' \subseteq LoadItems \X (1..loads)
      /\ again' \in BOOLEAN /\ ~again'
  <2>1. CASE taken
    <3>1. s1 = Consumed(session, r) /\ Dispatched(g) /\ ~g.dispatched /\ disp
      BY <1>2, <2>1
    <3>2. Current(session, r)
      BY <2>1
    <3>3. /\ session.generation[g.item] = g.gen
          /\ g.claimed => session.claim[g.item] = r
      BY <3>2 DEF Current
    <3>4. /\ Good(session, s1, r) /\ s1.claim = session.claim
          /\ s1.generation = session.generation
          /\ s1.items = IF g.claimed THEN session.items \ {g.item} ELSE session.items
      BY <1>1, <3>1, <3>3, ConsumedMeaning DEF IInv
    <3>5. /\ Unspent(s1, consumed') /\ consumed' \subseteq LoadItems \X (1..loads)
          /\ again' \in BOOLEAN /\ ~again'
      BY <1>1, <3>1, <3>2, DispatchedMeaning
    <3> HIDE DEF s1, disp
    <3>6. Claims(s1, r, disp)
      BY <1>4, <3>1, <3>4 DEF Claims
    <3> QED
      BY <3>4, <3>5, <3>6
  <2>2. CASE ~taken
    <3>1. s1 = session /\ disp = g.dispatched /\ UNCHANGED dispatches
      BY <1>1, <1>2, <2>2 DEF RequestTypes
    <3> HIDE DEF s1, disp
    <3>2. Good(session, s1, r) /\ Claims(s1, r, disp)
      BY <1>4, <3>1, GoodComposes DEF IInv
    <3> QED
      BY <3>1, <3>2 DEF IInv, dispatches, Histories, OneShotOnce
  <2> QED
    BY <2>1, <2>2
<1> HIDE DEF taken, late, s1, disp
<1>7. SessionOK(s1) /\ Histories
  BY <1>6 DEF Good, Safe, IInv
<1>8. Good(s1, s2, r) /\ \A i \in LoadItems : s2.claim[i] # r
  BY <1>1, <1>5, <1>6, <1>7, ReleasedMeaning
<1> HIDE DEF s2
<1>9. Good(session, s2, r)
  BY <1>6, <1>8, GoodComposes DEF IInv
<1>10. SessionOK(s2)
  BY <1>9 DEF Good, Safe
<1>11. \A q : Good(s2, s3, q)
  BY <1>1, <1>7, <1>10, RevokedMeaning
<1> HIDE DEF s3
<1>12. Good(session, s3, r) /\ \A i \in LoadItems : s3.claim[i] # r
  <2>1. Good(session, s3, r)
    BY <1>9, <1>11, GoodComposes DEF IInv
  <2>2. Kept(s2, s3, "free")
    BY <1>11 DEF Good, Safe
  <2> QED
    BY <1>8, <2>1, <2>2, LoadsAssumption DEF Kept
<1>13. Unspent(s2, consumed') /\ Unspent(s3, consumed')
  <2>1. Within(s1, s2) /\ Within(s2, s3)
    BY <1>8, <1>11 DEF Good, Safe
  <2> QED
    BY <1>6, <2>1 DEF Within, Unspent
<1>14. request \in [LoadRequests -> RequestTypes]
  BY DEF IInv
<1>15. CASE SessionBecomes(s2) /\ Put(r, NoRequest)
  <2>1. /\ request' \in [LoadRequests -> RequestTypes] /\ request'[r] = NoRequest
        /\ \A q \in LoadRequests : q # r => request'[q] = request[q]
    BY <1>7, <1>14, <1>15, PutMeaning, NoRequestMeaning
  <2>2. RequestOK(request'[r])
    BY <1>7, <2>1, NoRequestMeaning
  <2> QED
    BY <1>6, <1>8, <1>9, <1>13, <1>15, <2>1, <2>2, EndFrame
<1>16. ASSUME NEW s, NEW then \in {"end", "revoke"}, then = "revoke" => s.pending,
              Redeliver(s, r, g, then)
       PROVE  /\ request' \in [LoadRequests -> RequestTypes]
              /\ \A q \in LoadRequests : q # r => request'[q] = request[q]
              /\ RequestOK(request'[r])
  <2>1. /\ request' \in [LoadRequests -> RequestTypes]
        /\ \A q \in LoadRequests : q # r => request'[q] = request[q]
        /\ GoesOn(request'[r], g, then)
    BY <1>1, <1>7, <1>14, <1>16, RedeliverMeaning
  <2>2. RequestOK(request'[r])
    BY <1>1, <1>7, <2>1, GoesOnIsOK DEF RequestOK, Nexts
  <2> QED
    BY <2>1, <2>2
<1>17. CASE /\ outcome = "unauthorized" => s2.pending
            /\ SessionBecomes(s2)
            /\ Redeliver(s2, r, g, IF outcome = "unauthorized" THEN "revoke" ELSE "end")
  <2> DEFINE then == IF outcome = "unauthorized" THEN "revoke" ELSE "end"
  <2>1. /\ then \in {"end", "revoke"} /\ (then = "revoke" => s2.pending)
        /\ Redeliver(s2, r, g, then)
    BY <1>17
  <2> HIDE DEF then
  <2>2. /\ request' \in [LoadRequests -> RequestTypes]
        /\ \A q \in LoadRequests : q # r => request'[q] = request[q]
        /\ RequestOK(request'[r])
    BY <1>16, <2>1
  <2> QED
    BY <1>6, <1>8, <1>9, <1>13, <1>17, <2>2, EndFrame
<1>18. CASE SessionBecomes(s3) /\ Redeliver(s3, r, g, "end")
  <2>1. /\ request' \in [LoadRequests -> RequestTypes]
        /\ \A q \in LoadRequests : q # r => request'[q] = request[q]
        /\ RequestOK(request'[r])
    BY <1>16, <1>18
  <2> QED
    BY <1>6, <1>12, <1>13, <1>18, <2>1, EndFrame
<1> QED
  BY <1>3, <1>15, <1>17, <1>18

\* _invoke_native returns.
LEMMA InvokeReturnsKeeps ==
  ASSUME IInv, NEW r \in LoadRequests, NEW outcome, InvokeReturns(r, outcome)
  PROVE  IInv'
BY ReturnKeeps DEF InvokeReturns

\* commit_native_dispatch: the grant is consumed, or the call refused.
LEMMA CommitDispatchKeeps ==
  ASSUME IInv, NEW r \in LoadRequests, CommitDispatch(r)
  PROVE  IInv'
<1> DEFINE g == request[r]
           t == Consumed(session, r)
           new == [g EXCEPT !.pc = "child", !.dispatched = TRUE]
<1>1. /\ g.pc = "invoke" /\ g \in RequestTypes /\ RequestOK(g)
      /\ UNCHANGED <<catalog, edits, loads, onceOnly>>
  BY DEF CommitDispatch, IInv
<1>2. CASE ~Current(session, r)
  <2>1. Return(r, "unauthorized")
    BY <1>2 DEF CommitDispatch
  <2> QED
    BY <1>1, <2>1, ReturnKeeps
<1>3. CASE Current(session, r)
  <2>1. SessionBecomes(t) /\ Dispatched(g) /\ Put(r, new)
    BY <1>3 DEF CommitDispatch
  <2>2. g.then = "get" /\ g.item \in LoadItems /\ ~g.dispatched
    BY <1>1 DEF RequestOK
  <2>3. /\ session.generation[g.item] = g.gen
        /\ g.claimed => session.claim[g.item] = r
    BY <1>3 DEF Current
  <2>4. /\ Good(session, t, r) /\ t.claim = session.claim
        /\ t.generation = session.generation
        /\ t.items = IF g.claimed THEN session.items \ {g.item} ELSE session.items
    BY <1>1, <2>2, <2>3, ConsumedMeaning DEF IInv
  <2>5. /\ Unspent(t, consumed') /\ consumed' \subseteq LoadItems \X (1..loads)
        /\ again' \in BOOLEAN /\ ~again'
    BY <1>3, <2>1, <2>2, DispatchedMeaning
  <2> HIDE DEF t
  <2>6. session' = t /\ NoticeOwed' /\ told' \in BOOLEAN /\ lost' \in Reasons
    BY <1>1, <2>1, <2>4, BecomesMeaning DEF Good
  <2>7. /\ new \in RequestTypes /\ new.pc = "child" /\ new.then = "get"
        /\ new.item = g.item /\ new.gen = g.gen /\ new.claimed = g.claimed
        /\ new.dispatched = TRUE
    BY <1>1, <2>2 DEF RequestTypes
  <2> HIDE DEF new
  <2>8. /\ request' \in [LoadRequests -> RequestTypes] /\ request'[r] = new
        /\ \A q \in LoadRequests : q # r => request'[q] = request[q]
    BY <2>1, <2>7, PutMeaning DEF IInv
  <2>9. RequestOK(request'[r])
    BY <1>1, <2>2, <2>7, <2>8 DEF RequestOK
  <2>10. \A i \in LoadItems : session'.claim[i] = r => Holds(request'[r], session', i)
    <3> SUFFICES ASSUME NEW i \in LoadItems, session'.claim[i] = r
                 PROVE  Holds(request'[r], session', i)
      OBVIOUS
    <3>1. Holds(g, session, i)
      BY <2>4, <2>6, LoadsAssumption DEF IInv, ClaimsAreHeld
    <3> QED
      BY ZenonT(60), <2>4, <2>6, <2>7, <2>8, <3>1 DEF Holds
  <2> QED
    BY <1>1, <2>4, <2>5, <2>6, <2>8, <2>9, <2>10, Frame DEF Good
<1> QED
  BY <1>2, <1>3

--------------------------------------------------------------------------------
(* Loading                                                                    *)

\* _overflow_victims: what is evicted was there, is not wanted, and leaves room.
LEMMA VictimsMeaning ==
  ASSUME NEW s, s.items \in SUBSET LoadItems, NEW wanted \in SUBSET LoadItems,
         NEW evict, NEW v \in Victims(s, wanted, evict)
  PROVE  /\ v \subseteq s.items /\ v \cap wanted = {}
         /\ Cardinality((s.items \ v) \cup wanted) <= LoadCap
<1> DEFINE all == s.items \cup wanted
           rest == (s.items \ v) \cup wanted
<1>1. IsFiniteSet(all) /\ Cardinality(all) \in Nat
  BY LoadsAssumption, FS_Subset, FS_CardinalityType
<1>2. CASE Overflow(s, wanted) <= 0
  <2>1. v = {} /\ Cardinality(all) <= LoadCap
    BY <1>1, <1>2, LoadsAssumption DEF Victims, Overflow
  <2>2. rest = all
    BY <2>1
  <2> QED
    BY <2>1, <2>2
<1>3. CASE ~(Overflow(s, wanted) <= 0)
  <2>1. v \subseteq s.items \ wanted /\ Cardinality(v) = Cardinality(all) - LoadCap
    BY <1>3 DEF Victims, Overflow
  <2>2. rest = all \ v /\ all \cap v = v
    BY <2>1
  <2> HIDE DEF all, rest
  <2>3. Cardinality(all \ v) = Cardinality(all) - Cardinality(all \cap v)
    BY <1>1, FS_Difference
  <2>4. Cardinality(rest) = LoadCap
    <3>1. Cardinality(rest) = Cardinality(all) - Cardinality(v)
      BY <2>2, <2>3, Zenon
    <3>2. Cardinality(v) = Cardinality(all) - LoadCap
      BY <2>1
    <3> QED
      BY <1>1, <3>1, <3>2, LoadsAssumption
  <2> QED
    BY <2>1, <2>4, LoadsAssumption DEF rest
<1> QED
  BY <1>2, <1>3

\* load: every wanted item has the new generation and no claim, every victim is
\* gone, and the others are as they were.
IsLoaded(t, victims, wanted, once, pending) ==
  /\ t \in SessionTypes /\ t.pending = pending
  /\ t.items = (session.items \ victims) \cup wanted
  /\ t.oneShot = IF once THEN (session.oneShot \ victims) \cup wanted
                 ELSE (session.oneShot \ victims) \ wanted
  /\ \A i \in wanted : t.generation[i] = loads + 1 /\ t.claim[i] = "free"
  /\ \A i \in victims : t.generation[i] = 0 /\ t.claim[i] = "free"
  /\ \A i \in LoadItems : i \notin wanted /\ i \notin victims =>
       t.generation[i] = session.generation[i] /\ t.claim[i] = session.claim[i]

\* load, in the two steps of SessionLoads: _remove, then _mark_loaded.
LEMMA LoadedMeaning ==
  ASSUME Histories, SessionOK(session), NEW victims \in SUBSET LoadItems,
         NEW wanted \in SUBSET LoadItems, victims \cap wanted = {},
         NEW bound \in [LoadItems -> Bindings \cup {"none"}], NEW once \in BOOLEAN,
         NEW pending \in BOOLEAN, NEW t,
         t = [Loaded(Without(session, victims), wanted, bound, once)
                EXCEPT !.pending = pending]
  PROVE  IsLoaded(t, victims, wanted, once, pending)
<1> DEFINE w == Without(session, victims)
           gens == [i \in LoadItems |-> IF i \in wanted THEN loads + 1
                                        ELSE w.generation[i]]
           binds == [i \in LoadItems |-> IF i \in wanted THEN bound[i]
                                         ELSE w.binding[i]]
           claims == [i \in LoadItems |-> IF i \in wanted THEN "free"
                                          ELSE w.claim[i]]
           shots == IF once THEN w.oneShot \cup wanted ELSE w.oneShot \ wanted
           n == Loaded(w, wanted, bound, once)
<1>1. session \in SessionTypes /\ loads \in Nat
  BY DEF SessionOK, Histories
<1>2. /\ w \in SessionTypes /\ w.items = session.items \ victims
      /\ \A i \in victims : w.claim[i] = "free"
      /\ \A i \in LoadItems \ victims :
           w.generation[i] = session.generation[i] /\ w.claim[i] = session.claim[i]
  BY <1>1, WithoutMeaning DEF Less
<1>3. w.oneShot = session.oneShot \ victims
  BY <1>1 DEF Without, SessionTypes
<1>4. \A i \in victims : w.generation[i] = 0
  BY <1>1 DEF Without, SessionTypes
<1> HIDE DEF w
<1>5. n = [w EXCEPT !.items = w.items \cup wanted, !.oneShot = shots,
                    !.generation = gens, !.binding = binds, !.claim = claims]
  BY DEF Loaded
<1>6. /\ gens \in [LoadItems -> Nat]
      /\ binds \in [LoadItems -> Bindings \cup {"none"}]
      /\ claims \in [LoadItems -> LoadRequests \cup {"free"}]
      /\ shots \in SUBSET LoadItems
  BY <1>1, <1>2 DEF SessionTypes
<1> HIDE DEF gens, binds, claims, shots, n
<1>7. /\ n \in SessionTypes /\ n.items = w.items \cup wanted /\ n.oneShot = shots
      /\ n.generation = gens /\ n.claim = claims
  BY <1>2, <1>5, <1>6 DEF SessionTypes
<1>8. /\ t \in SessionTypes /\ t.items = w.items \cup wanted /\ t.oneShot = shots
      /\ t.generation = gens /\ t.claim = claims /\ t.pending = pending
  <2>1. t = [n EXCEPT !.pending = pending]
    BY DEF n, w
  <2> QED
    BY <1>7, <2>1 DEF SessionTypes
<1>9. /\ \A i \in wanted : t.generation[i] = loads + 1 /\ t.claim[i] = "free"
      /\ \A i \in victims : t.generation[i] = 0 /\ t.claim[i] = "free"
      /\ \A i \in LoadItems : i \notin wanted /\ i \notin victims =>
           t.generation[i] = session.generation[i] /\ t.claim[i] = session.claim[i]
  BY <1>2, <1>4, <1>8 DEF gens, claims
<1>10. t.oneShot = IF once THEN (session.oneShot \ victims) \cup wanted
                   ELSE (session.oneShot \ victims) \ wanted
  BY <1>3, <1>8 DEF shots
<1> QED
  BY <1>2, <1>8, <1>9, <1>10 DEF IsLoaded

\* load_tools: the items are loaded under a generation that nobody has a grant on.
LEMMA LoadToolsKeeps ==
  ASSUME IInv, NEW r \in LoadRequests, LoadTools(r)
  PROVE  IInv'
<1> DEFINE g == request[r]
<1>1. /\ g.pc = "load" /\ loads < MaxLoads /\ g \in RequestTypes
      /\ g.then = "end" /\ RequestOK(g)
      /\ UNCHANGED <<catalog, edits, dispatches>>
  BY DEF LoadTools, IInv, RequestOK
<1>2. /\ Histories /\ SessionOK(session) /\ session \in SessionTypes
      /\ request \in [LoadRequests -> RequestTypes]
      /\ loads \in Nat /\ MaxLoads \in Nat
  BY LoadsAssumption DEF IInv, SessionOK, Histories
<1>3. \A i \in LoadItems : session.claim[i] # r
  BY <1>1, NothingClaimed
<1>4. CASE Put(r, NoRequest) /\ UNCHANGED <<session, told, lost, loads, onceOnly>>
  <2>1. /\ request' \in [LoadRequests -> RequestTypes] /\ request'[r] = NoRequest
        /\ \A q \in LoadRequests : q # r => request'[q] = request[q]
    BY <1>2, <1>4, PutMeaning, NoRequestMeaning
  <2>2. RequestOK(request'[r])
    BY <1>2, <2>1, NoRequestMeaning
  <2>3. Good(session, session', r) /\ \A i \in LoadItems : session'.claim[i] # r
    BY <1>2, <1>3, <1>4, GoodComposes
  <2>4. NoticeOwed' /\ told' \in BOOLEAN /\ lost' \in Reasons
    BY <1>1, <1>4 DEF IInv, Histories, NoticeOwed
  <2> QED
    BY <1>1, <1>4, <2>1, <2>2, <2>3, <2>4, QuietFrame
<1>5. ASSUME NEW victims \in Victims(session, g.items, g.evict), NEW once \in BOOLEAN,
             LET new == Loaded(Without(session, victims), g.items, g.bound, once)
             IN SessionBecomes([new EXCEPT !.pending =
                  @ \/ victims # {} \/ ~(g.items \subseteq session.items)]),
             loads' = loads + 1,
             onceOnly' = IF once THEN onceOnly \cup {loads + 1} ELSE onceOnly,
             Put(r, [NoRequest EXCEPT !.pc = "announce", !.then = "done"])
      PROVE  IInv'
  <2> DEFINE wanted == g.items
             n == Loaded(Without(session, victims), g.items, g.bound, once)
             pending == session.pending \/ victims # {}
                        \/ ~(g.items \subseteq session.items)
             t == [n EXCEPT !.pending = pending]
             req == [NoRequest EXCEPT !.pc = "announce", !.then = "done"]
  <2>1. /\ wanted \in SUBSET LoadItems
        /\ g.bound \in [LoadItems -> Bindings \cup {"none"}]
        /\ session.items \in SUBSET LoadItems /\ session.pending \in BOOLEAN
    BY <1>1, <1>2 DEF RequestTypes, SessionTypes
  <2>2. /\ victims \subseteq session.items /\ victims \cap wanted = {}
        /\ Cardinality((session.items \ victims) \cup wanted) <= LoadCap
    <3> DEFINE evict == g.evict
    <3>1. victims \in Victims(session, wanted, evict)
      BY <1>5
    <3> HIDE DEF wanted, evict
    <3> QED
      BY <2>1, <3>1, VictimsMeaning
  <2>3. SessionBecomes(t)
    <3>1. n.pending = session.pending
      BY <1>2 DEF Loaded, Without, SessionTypes
    <3>2. SessionBecomes([n EXCEPT !.pending = n.pending \/ victims # {}
                                     \/ ~(g.items \subseteq session.items)])
      BY <1>5
    <3> HIDE DEF n
    <3> QED
      BY <3>1, <3>2
  <2>4. pending \in BOOLEAN /\ victims \in SUBSET LoadItems
    BY <2>1, <2>2
  <2> DEFINE bound == g.bound
  <2> HIDE DEF pending
  <2>5. /\ t \in SessionTypes /\ t.pending = pending
        /\ t.items = (session.items \ victims) \cup wanted
        /\ t.oneShot = IF once THEN (session.oneShot \ victims) \cup wanted
                       ELSE (session.oneShot \ victims) \ wanted
        /\ \A i \in wanted : t.generation[i] = loads + 1 /\ t.claim[i] = "free"
        /\ \A i \in victims : t.generation[i] = 0 /\ t.claim[i] = "free"
        /\ \A i \in LoadItems : i \notin wanted /\ i \notin victims =>
             t.generation[i] = session.generation[i] /\ t.claim[i] = session.claim[i]
    <3>1. t = [Loaded(Without(session, victims), wanted, bound, once)
                 EXCEPT !.pending = pending]
      OBVIOUS
    <3>2. bound \in [LoadItems -> Bindings \cup {"none"}]
      BY <2>1
    <3> HIDE DEF t, wanted, bound
    <3> QED
      <4>1. IsLoaded(t, victims, wanted, once, pending)
        BY <1>2, <2>1, <2>2, <2>4, <3>1, <3>2, LoadedMeaning
      <4> QED
        BY <4>1 DEF IsLoaded
  <2> HIDE DEF t, n, wanted
  <2>6. Notice(session, t)
    BY <2>1, <2>2, <2>5 DEF Notice, pending, wanted
  <2>7. session' = t /\ NoticeOwed' /\ told' \in BOOLEAN /\ lost' \in Reasons
    BY <1>1, <2>3, <2>6, BecomesMeaning
  <2>8. /\ onceOnly \subseteq 1..loads /\ consumed \subseteq LoadItems \X (1..loads)
        /\ onceOnly' \subseteq 1..(loads + 1)
        /\ loads + 1 \in onceOnly' => once
        /\ \A k \in Nat : k <= loads /\ k \in onceOnly' => k \in onceOnly
    BY <1>2, <1>5 DEF Histories
  <2>9. Histories'
    <3>1. loads' \in 0..MaxLoads /\ onceOnly' \subseteq 1..loads'
      BY <1>1, <1>2, <1>5, <2>8
    <3>2. consumed' = consumed /\ LoadItems \X (1..loads)
                                  \subseteq LoadItems \X (1..(loads + 1))
      BY <1>1, <1>2 DEF dispatches
    <3>3. consumed' \subseteq LoadItems \X (1..loads')
      BY <1>5, <2>8, <3>2
    <3> QED
      BY <1>1, <1>2, <2>7, <3>1, <3>3 DEF Histories, dispatches
  <2>10. SessionOK(session)'
    <3>1. t.oneShot \subseteq t.items
      BY <1>2, <2>5 DEF SessionOK
    <3>2. ASSUME NEW i \in LoadItems
          PROVE  /\ t.generation[i] <= loads + 1
                 /\ i \in t.items => t.generation[i] # 0
                 /\ t.generation[i] # 0 /\ i \notin t.items => t.claim[i] # "free"
                 /\ i \in t.items /\ t.generation[i] \in onceOnly' => i \in t.oneShot
      <4>1. session.generation[i] \in Nat
        BY <1>2 DEF SessionTypes
      <4>2. CASE i \in wanted
        BY <1>2, <2>5, <2>8, <4>2
      <4>3. CASE i \in victims
        BY <1>2, <2>2, <2>5, <4>3
      <4>4. CASE i \notin wanted /\ i \notin victims
        BY <1>2, <2>5, <2>8, <4>1, <4>4 DEF SessionOK
      <4> QED
        BY <4>2, <4>3, <4>4
    <3> QED
      BY <1>5, <2>5, <2>7, <3>1, <3>2 DEF SessionOK
  <2>11. (Cardinality(session.items) <= LoadCap)'
    BY <2>2, <2>5, <2>7
  <2>12. /\ req \in RequestTypes /\ req.pc = "announce" /\ req.then = "done"
         /\ req.gen = 0 /\ ~req.dispatched
    BY <1>2, NoRequestMeaning DEF RequestTypes, Nexts
  <2>13. /\ request' \in [LoadRequests -> RequestTypes] /\ request'[r] = req
         /\ \A q \in LoadRequests : q # r => request'[q] = request[q]
    <3>1. Put(r, req)
      BY <1>5
    <3> HIDE DEF req
    <3> QED
      BY <1>2, <2>12, <3>1, PutMeaning
  <2> HIDE DEF req
  <2>14. \A q \in LoadRequests : RequestOK(request[q])'
    <3> SUFFICES ASSUME NEW q \in LoadRequests
                 PROVE  RequestOK(request[q])'
      OBVIOUS
    <3>1. CASE q = r
      <4>1. req.gen <= loads + 1 /\ req.gen \notin onceOnly'
        BY <1>2, <2>8, <2>12
      <4> QED
        BY <1>5, <2>12, <2>13, <3>1, <4>1 DEF RequestOK
    <3>2. CASE q # r
      <4>1. RequestOK(request[q]) /\ request'[q] = request[q]
        BY <2>13, <3>2 DEF IInv
      <4>2. request[q].gen \in Nat
        BY <1>2 DEF RequestTypes
      <4> QED
        BY <1>2, <1>5, <2>8, <4>1, <4>2 DEF RequestOK
    <3> QED
      BY <3>1, <3>2
  <2>15. ClaimsAreHeld'
    <3> SUFFICES ASSUME NEW i \in LoadItems, session'.claim[i] # "free"
                 PROVE  Holds(request'[session'.claim[i]], session', i)
      BY DEF ClaimsAreHeld, Holds
    <3>1. i \notin wanted /\ i \notin victims
      BY <2>5, <2>7
    <3>2. /\ session'.claim[i] = session.claim[i]
          /\ session'.generation[i] = session.generation[i]
          /\ i \in session'.items <=> i \in session.items
      BY <2>5, <2>7, <3>1
    <3>3. session.claim[i] \in LoadRequests /\ session.claim[i] # r
      BY <1>2, <1>3, <3>2 DEF SessionTypes
    <3> QED
      BY <2>13, <3>2, <3>3 DEF IInv, ClaimsAreHeld, Holds
  <2>16. Unspent(session, consumed)'
    <3> SUFFICES ASSUME NEW i \in t.items
                 PROVE  <<i, t.generation[i]>> \notin consumed
      BY <1>1, <2>7 DEF Unspent, dispatches
    <3>1. CASE i \in wanted
      <4>1. t.generation[i] = loads + 1 /\ loads + 1 \notin 1..loads
        BY <1>2, <2>5, <3>1
      <4> QED
        BY <2>8, <4>1
    <3>2. CASE i \notin wanted
      <4>1. i \in session.items /\ t.generation[i] = session.generation[i]
        BY <2>1, <2>5, <3>2
      <4> QED
        BY <4>1 DEF IInv, Unspent
    <3> QED
      BY <3>1, <3>2
  <2>17. OneShotOnce'
    BY <1>1 DEF IInv, OneShotOnce, dispatches
  <2> QED
    BY <2>7, <2>9, <2>10, <2>11, <2>13, <2>14, <2>15, <2>16, <2>17 DEF IInv
<1> QED
  BY <1>4, <1>5 DEF LoadTools

\* A new session is a good one, and nobody claims anything in it.
LEMMA NewSessionMeaning ==
  ASSUME Histories
  PROVE  /\ SessionOK(NewSession) /\ NewSession.items = {}
         /\ \A i \in LoadItems : NewSession.claim[i] = "free"
<1> DEFINE gens == [i \in LoadItems |-> 0]
           binds == [i \in LoadItems |-> "none"]
           claims == [i \in LoadItems |-> "free"]
<1>1. /\ gens \in [LoadItems -> Nat]
      /\ binds \in [LoadItems -> Bindings \cup {"none"}]
      /\ claims \in [LoadItems -> LoadRequests \cup {"free"}]
      /\ \A i \in LoadItems : gens[i] = 0 /\ claims[i] = "free"
  OBVIOUS
<1>2. NewSession = [items |-> {}, oneShot |-> {}, pending |-> FALSE,
                    generation |-> gens, binding |-> binds, claim |-> claims]
  BY DEF NewSession
<1> HIDE DEF gens, binds, claims
<1>3. /\ NewSession \in SessionTypes /\ NewSession.items = {}
      /\ NewSession.oneShot = {} /\ NewSession.generation = gens
      /\ NewSession.claim = claims
  BY <1>1, <1>2 DEF SessionTypes
<1> QED
  BY <1>1, <1>3 DEF SessionOK, Histories

\* _session: the session expires, whatever the requests under way hold.
LEMMA ExpireKeeps ==
  ASSUME IInv, Expire
  PROVE  IInv'
<1>1. /\ session' = NewSession
      /\ told' = (told /\ session.items = {}) /\ lost' = "expired"
      /\ UNCHANGED <<catalog, edits, loads, request, dispatches, onceOnly>>
  BY DEF Expire
<1>2. /\ SessionOK(NewSession) /\ NewSession.items = {}
      /\ \A i \in LoadItems : NewSession.claim[i] = "free"
  BY NewSessionMeaning DEF IInv
<1>3. Histories'
  <2>1. told' \in BOOLEAN /\ lost' \in Reasons
    BY <1>1 DEF Reasons
  <2> QED
    BY <1>1, <2>1 DEF IInv, Histories, dispatches
<1>4. SessionOK(session)'
  BY <1>1, <1>2 DEF SessionOK
<1>5. (Cardinality(session.items) <= LoadCap)'
  BY <1>1, <1>2, FS_EmptySet, LoadsAssumption
<1>6. \A r \in LoadRequests : RequestOK(request[r])'
  BY <1>1 DEF IInv, RequestOK
<1>7. ClaimsAreHeld'
  BY <1>1, <1>2 DEF ClaimsAreHeld
<1>8. Unspent(session, consumed)' /\ OneShotOnce' /\ NoticeOwed'
  BY <1>1, <1>2 DEF IInv, Unspent, OneShotOnce, NoticeOwed, dispatches
<1> QED
  BY <1>1, <1>3, <1>4, <1>5, <1>6, <1>7, <1>8 DEF IInv

\* The catalog changes under the session.
LEMMA EditCatalogKeeps ==
  ASSUME IInv, NEW i \in LoadItems, EditCatalog(i)
  PROVE  IInv'
<1>1. /\ edits < MaxEdits /\ edits' = edits + 1
      /\ UNCHANGED <<session, loads, request, dispatches, onceOnly, told, lost>>
      /\ catalog' \in [LoadItems -> Bindings \cup {"hidden"}]
  BY DEF EditCatalog, IInv, Histories
<1>2. Histories'
  BY <1>1, LoadsAssumption DEF IInv, Histories, dispatches
<1>3. SessionOK(session)' /\ (Cardinality(session.items) <= LoadCap)'
  BY <1>1 DEF IInv, SessionOK
<1>4. \A r \in LoadRequests : RequestOK(request[r])'
  BY <1>1 DEF IInv, RequestOK
<1>5. ClaimsAreHeld'
  BY <1>1 DEF IInv, ClaimsAreHeld, Holds
<1>6. Unspent(session, consumed)' /\ OneShotOnce' /\ NoticeOwed'
  BY <1>1 DEF IInv, Unspent, OneShotOnce, NoticeOwed, dispatches
<1> QED
  BY <1>1, <1>2, <1>3, <1>4, <1>5, <1>6 DEF IInv

\* At the start.
LEMMA InitHolds == LoadsInit => IInv
<1> SUFFICES ASSUME LoadsInit PROVE IInv
  OBVIOUS
<1>1. /\ session = NewSession /\ edits = 0 /\ loads = 0 /\ onceOnly = {}
      /\ consumed = {} /\ request = [r \in LoadRequests |-> NoRequest]
  BY DEF LoadsInit
<1>2. again = FALSE /\ told = TRUE /\ lost = "none"
  BY Zenon DEF LoadsInit
<1>3. catalog \in [LoadItems -> Bindings \cup {"hidden"}]
  BY LoadsAssumption DEF LoadsInit
<1>4. Histories
  <2>1. told \in BOOLEAN /\ lost \in Reasons /\ again \in BOOLEAN
    BY <1>2 DEF Reasons
  <2>2. /\ loads \in 0..MaxLoads /\ edits \in 0..MaxEdits
        /\ onceOnly \subseteq 1..loads
    BY <1>1, LoadsAssumption
  <2>3. consumed \subseteq LoadItems \X (1..loads)
    BY <1>1
  <2> QED
    BY <1>3, <2>1, <2>2, <2>3 DEF Histories
<1>5. /\ SessionOK(NewSession) /\ NewSession.items = {}
      /\ \A i \in LoadItems : NewSession.claim[i] = "free"
  BY <1>4, NewSessionMeaning
<1>6. /\ request \in [LoadRequests -> RequestTypes]
      /\ \A r \in LoadRequests : RequestOK(request[r])
  BY <1>1, <1>4, NoRequestMeaning
<1>7. Cardinality(session.items) <= LoadCap
  BY <1>1, <1>5, FS_EmptySet, LoadsAssumption
<1>8. ClaimsAreHeld /\ Unspent(session, consumed) /\ OneShotOnce /\ NoticeOwed
  BY <1>1, <1>2, <1>5 DEF ClaimsAreHeld, Unspent, OneShotOnce, NoticeOwed
<1> QED
  BY <1>1, <1>4, <1>5, <1>6, <1>7, <1>8 DEF IInv

\* Every step.
LEMMA StepKeeps == IInv /\ [LoadsNext]_loadsVars => IInv'
<1> SUFFICES ASSUME IInv, [LoadsNext]_loadsVars PROVE IInv'
  OBVIOUS
<1>1. ASSUME NEW r \in LoadRequests,
             \/ ListTools(r) \/ Announced(r) \/ Resent(r) \/ GetItem(r)
             \/ CommitDispatch(r) \/ ResolveLoad(r) \/ LoadTools(r) \/ UnloadTools(r)
             \/ \E i \in LoadItems : CallNative(r, i) \/ Judge(r, i)
             \/ \E o \in {"ok", "failed", "unauthorized"} : InvokeReturns(r, o)
      PROVE  IInv'
  BY <1>1, ListToolsKeeps, AnnouncedKeeps, ResentKeeps, GetItemKeeps,
     CommitDispatchKeeps, ResolveLoadKeeps, LoadToolsKeeps, UnloadToolsKeeps,
     CallNativeKeeps, JudgeKeeps, InvokeReturnsKeeps
<1>2. CASE LoadsNext
  BY <1>1, <1>2, ExpireKeeps, EditCatalogKeeps DEF LoadsNext
<1>3. CASE UNCHANGED loadsVars
  <2>1. UNCHANGED <<session, catalog, edits, loads, request, onceOnly, consumed,
                    again, told, lost>>
    BY <1>3 DEF loadsVars
  <2>2. Histories'
    BY <2>1 DEF IInv, Histories
  <2>3. SessionOK(session)' /\ (Cardinality(session.items) <= LoadCap)'
    BY <2>1 DEF IInv, SessionOK
  <2>4. \A r \in LoadRequests : RequestOK(request[r])'
    BY <2>1 DEF IInv, RequestOK
  <2>5. ClaimsAreHeld'
    BY <2>1 DEF IInv, ClaimsAreHeld, Holds
  <2>6. Unspent(session, consumed)' /\ OneShotOnce' /\ NoticeOwed'
    BY <2>1 DEF IInv, Unspent, OneShotOnce, NoticeOwed
  <2> QED
    BY <2>1, <2>2, <2>3, <2>4, <2>5, <2>6 DEF IInv
<1> QED
  BY <1>2, <1>3

--------------------------------------------------------------------------------
(* The theorems                                                               *)

\* The inductive invariant holds in every reachable state.
THEOREM InvariantHolds == LoadsSpec => []IInv
BY InitHolds, StepKeeps, PTL DEF LoadsSpec

\* The session keeps its type, and never more items than its cap, whichever loads
\* SessionLoads.load admitted side by side.
THEOREM CapHolds == LoadsSpec => []LoadsTypeOK
<1>1. IInv => LoadsTypeOK
  <2> SUFFICES ASSUME IInv PROVE LoadsTypeOK
    OBVIOUS
  <2>1. session \in SessionTypes /\ Histories
    BY DEF IInv, SessionOK
  <2>2. /\ session.items \in {s \in SUBSET LoadItems : Cardinality(s) <= LoadCap}
        /\ session.oneShot \in SUBSET session.items
    BY <2>1 DEF IInv, SessionOK, SessionTypes
  <2>3. session.generation \in [LoadItems -> 0..loads]
    <3>1. \A i \in LoadItems : session.generation[i] \in 0..loads
      BY <2>1 DEF IInv, SessionOK, SessionTypes, Histories
    <3> QED
      BY <2>1, <3>1 DEF SessionTypes
  <2>4. \A r \in LoadRequests :
          request[r].pc \in {"idle", "judge", "announce", "resend", "get", "invoke",
                             "child", "load"}
    BY DEF IInv, RequestTypes
  <2> QED
    BY <2>1, <2>2, <2>3, <2>4 DEF LoadsTypeOK, SessionTypes, Histories
<1> QED
  BY <1>1, InvariantHolds, PTL

\* A tool loaded with auto_unload is dispatched at most once per load
\* (SessionLoads.dispatch, behind acquire's claim).
THEOREM OneDispatchPerLoad == LoadsSpec => []OneShotOnce
<1>1. IInv => OneShotOnce
  BY DEF IInv
<1> QED
  BY <1>1, InvariantHolds, PTL

\* When no native call is under way nothing is left of one: no claim, and no
\* generation without its item (SessionLoads.release on every way out).
THEOREM NothingIsLeftBehind == LoadsSpec => []QuietSessionIsClean
<1>1. IInv => QuietSessionIsClean
  <2> SUFFICES ASSUME IInv, \A r \in LoadRequests : request[r].gen = 0
               PROVE  /\ \A i \in LoadItems : session.claim[i] = "free"
                      /\ Retractable(session) = session.items
    BY DEF QuietSessionIsClean
  <2>1. session \in SessionTypes /\ SessionOK(session)
    BY DEF IInv, SessionOK
  <2>2. \A i \in LoadItems : session.claim[i] = "free"
    <3> SUFFICES ASSUME NEW i \in LoadItems, session.claim[i] # "free"
                 PROVE  FALSE
      OBVIOUS
    <3>1. session.claim[i] \in LoadRequests
      BY <2>1 DEF SessionTypes
    <3> QED
      BY <3>1 DEF IInv, ClaimsAreHeld, Holds
  <2>3. Retractable(session) = session.items
    BY <2>1, <2>2 DEF Retractable, SessionOK, SessionTypes
  <2> QED
    BY <2>2, <2>3
<1> QED
  BY <1>1, InvariantHolds, PTL

\* A client whose list is out of date is owed a notice (_Session.pending_changed),
\* unless the session expired since, or a redelivery sent before the last change
\* took its mark off (SessionLoads.redelivered).
THEOREM NoticeStaysOwed == LoadsSpec => []NoticeOwed
<1>1. IInv => NoticeOwed
  BY DEF IInv
<1> QED
  BY <1>1, InvariantHolds, PTL

\* What a request with a stale grant does in its next step.
LEMMA StaleGrantStep ==
  ASSUME IInv, NEW r \in LoadRequests,
         request[r].gen # 0, session.generation[request[r].item] # request[r].gen,
         request[r].pc \in {"get", "invoke"} \/ request[r].then \in {"raise", "revoke"},
         \/ GetItem(r) \/ CommitDispatch(r) \/ Resent(r)
         \/ \E o : InvokeReturns(r, o)
  PROVE  /\ request'[r].pc # "child"
         /\ session'.generation = session.generation
         /\ session'.items = session.items
<1> DEFINE g == request[r]
<1>1. /\ g \in RequestTypes /\ RequestOK(g) /\ request \in [LoadRequests -> RequestTypes]
      /\ Histories /\ session \in SessionTypes
  BY DEF IInv, SessionOK
<1>2. ~Current(session, r)
  BY DEF Current
<1>3. /\ Revoked(session, r) = session
      /\ \A d : Released(session, r, d) = session
  BY DEF Revoked, Released
<1>4. ASSUME NEW s, NEW then \in {"end", "raise", "revoke"},
             then \in {"raise", "revoke"} => s.pending, Redeliver(s, r, g, then)
      PROVE  request'[r].pc # "child"
  <2>1. GoesOn(request'[r], g, then)
    BY <1>1, <1>4, RedeliverMeaning
  <2> QED
    BY <1>1, <2>1, NoRequestMeaning DEF GoesOn
<1>5. ASSUME Put(r, NoRequest)
      PROVE  request'[r].pc # "child"
  BY <1>1, <1>5, PutMeaning, NoRequestMeaning
<1>6. CASE GetItem(r)
  <2>1. \/ session.pending /\ SessionBecomes(session)
           /\ Redeliver(session, r, g, "raise")
        \/ SessionBecomes(session) /\ Put(r, NoRequest)
    BY <1>2, <1>3, <1>6 DEF GetItem
  <2> QED
    BY <1>4, <1>5, <2>1 DEF SessionBecomes, SessionFrom
<1>7. ASSUME NEW o, Return(r, o)
      PROVE  /\ request'[r].pc # "child"
             /\ session' = session
  <2>1. \/ SessionBecomes(session) /\ Put(r, NoRequest)
        \/ /\ o = "unauthorized" => session.pending
           /\ SessionBecomes(session)
           /\ Redeliver(session, r, g, IF o = "unauthorized" THEN "revoke" ELSE "end")
        \/ SessionBecomes(session) /\ Redeliver(session, r, g, "end")
    BY <1>2, <1>3, <1>7 DEF Return
  <2>2. session' = session
    BY <2>1 DEF SessionBecomes, SessionFrom
  <2>3. CASE o = "unauthorized"
    <3>1. \/ Put(r, NoRequest)
          \/ session.pending /\ Redeliver(session, r, g, "revoke")
          \/ Redeliver(session, r, g, "end")
      BY <2>1, <2>3
    <3> QED
      BY <1>4, <1>5, <2>2, <3>1
  <2>4. CASE o # "unauthorized"
    <3>1. Put(r, NoRequest) \/ Redeliver(session, r, g, "end")
      BY <2>1, <2>4
    <3> QED
      BY <1>4, <1>5, <2>2, <3>1
  <2> QED
    BY <2>2, <2>3, <2>4
<1>8. CASE CommitDispatch(r)
  BY <1>2, <1>7, <1>8 DEF CommitDispatch
<1>9. CASE \E o : InvokeReturns(r, o)
  BY <1>7, <1>9 DEF InvokeReturns
<1>10. CASE Resent(r)
  <2>1. g.pc = "resend" /\ g.then \in {"raise", "revoke"}
    BY <1>10 DEF Resent
  <2>2. PICK sent \in BOOLEAN :
          LET s1 == Redelivered(session, sent)
              s2 == IF g.then = "raise" THEN Released(s1, r, g.dispatched)
                    ELSE Revoked(s1, r)
          IN /\ session' = s2
             /\ IF g.then = "revoke" THEN Redeliver(s2, r, g, "end")
                ELSE Put(r, NoRequest)
    BY <1>10, <2>1 DEF Resent, SessionFrom
  <2> DEFINE s1 == Redelivered(session, sent)
  <2>3. s1.items = session.items /\ s1.generation = session.generation
    BY RedeliveredMeaning
  <2> HIDE DEF s1
  <2>4. Revoked(s1, r) = s1 /\ Released(s1, r, g.dispatched) = s1
    BY <2>3 DEF Revoked, Released
  <2>5. /\ session' = s1
        /\ Redeliver(s1, r, g, "end") \/ Put(r, NoRequest)
    BY <2>1, <2>2, <2>4 DEF s1
  <2> QED
    BY <1>4, <1>5, <2>3, <2>5
<1> QED
  BY <1>6, <1>8, <1>9, <1>10

\* A request is moved by its own steps.
LEMMA OwnStep ==
  ASSUME LoadsNext, NEW r \in LoadRequests, request'[r] # request[r],
         request[r].pc \in {"get", "invoke", "resend"}
  PROVE  \/ GetItem(r) \/ CommitDispatch(r) \/ Resent(r)
         \/ \E o : InvokeReturns(r, o)
<1>1. ASSUME NEW q \in LoadRequests, q # r, NEW fields, Put(q, fields)
      PROVE  FALSE
  BY <1>1 DEF Put
<1>2. ASSUME NEW q \in LoadRequests, q # r,
             \/ ListTools(q) \/ Announced(q) \/ Resent(q) \/ GetItem(q)
             \/ CommitDispatch(q) \/ ResolveLoad(q) \/ LoadTools(q) \/ UnloadTools(q)
             \/ \E i \in LoadItems : CallNative(q, i) \/ Judge(q, i)
             \/ \E o \in {"ok", "failed", "unauthorized"} : InvokeReturns(q, o)
      PROVE  FALSE
  <2>1. ASSUME NEW s, NEW fields, NEW then, Redeliver(s, q, fields, then)
        PROVE  FALSE
    BY <1>1, <1>2, <2>1 DEF Redeliver
  <2>2. ASSUME NEW fields, BeginJudging(q, fields)
        PROVE  FALSE
    BY <1>1, <1>2, <2>1, <2>2 DEF BeginJudging
  <2>3. ASSUME NEW o, Return(q, o)
        PROVE  FALSE
    BY <1>1, <1>2, <2>1, <2>3 DEF Return
  <2>4. CASE ListTools(q) \/ Announced(q) \/ ResolveLoad(q) \/ UnloadTools(q)
    BY <1>1, <1>2, <2>1, <2>2, <2>4
       DEF ListTools, Announced, ResolveLoad, UnloadTools
  <2>5. CASE Resent(q)
    BY <1>1, <1>2, <2>1, <2>5 DEF Resent
  <2>6. CASE GetItem(q)
    BY <1>1, <1>2, <2>1, <2>6 DEF GetItem
  <2>7. CASE CommitDispatch(q)
    BY <1>1, <1>2, <2>3, <2>7 DEF CommitDispatch
  <2>8. CASE LoadTools(q)
    BY <1>1, <1>2, <2>8 DEF LoadTools
  <2>9. CASE \E i \in LoadItems : CallNative(q, i) \/ Judge(q, i)
    BY <1>1, <1>2, <2>1, <2>2, <2>9 DEF CallNative, Judge
  <2>10. CASE \E o \in {"ok", "failed", "unauthorized"} : InvokeReturns(q, o)
    BY <2>3, <2>10 DEF InvokeReturns
  <2> QED
    BY <1>2, <2>4, <2>5, <2>6, <2>7, <2>8, <2>9, <2>10
<1>3. ~Expire /\ ~(\E i \in LoadItems : EditCatalog(i))
  BY DEF Expire, EditCatalog
<1>4. /\ ~ListTools(r) /\ ~Announced(r) /\ ~ResolveLoad(r) /\ ~LoadTools(r)
      /\ ~UnloadTools(r)
      /\ \A i \in LoadItems : ~CallNative(r, i) /\ ~Judge(r, i)
  BY DEF ListTools, Announced, ResolveLoad, LoadTools, UnloadTools, CallNative, Judge
<1> QED
  BY <1>2, <1>3, <1>4 DEF LoadsNext

\* A grant on a load that is gone is not dispatched, and the release and the
\* revocation at the end of its call leave a later load alone (SessionLoads.revoke
\* and release compare the generation).
THEOREM StaleGrantsDoNothing == LoadsSpec => StaleGrantIsHarmless
<1> DEFINE Harmless ==
      \A r \in LoadRequests :
        LET g == request[r]
        IN /\ g.gen # 0 /\ session.generation[g.item] # g.gen
           /\ g.pc \in {"get", "invoke"} \/ g.then \in {"raise", "revoke"}
           /\ request'[r] # g
           => /\ request'[r].pc # "child"
              /\ session'.generation = session.generation
              /\ session'.items = session.items
<1>1. IInv /\ [LoadsNext]_loadsVars => [Harmless]_loadsVars
  <2> SUFFICES ASSUME IInv, LoadsNext, NEW r \in LoadRequests,
                      request[r].gen # 0,
                      session.generation[request[r].item] # request[r].gen,
                      \/ request[r].pc \in {"get", "invoke"}
                      \/ request[r].then \in {"raise", "revoke"},
                      request'[r] # request[r]
               PROVE  /\ request'[r].pc # "child"
                      /\ session'.generation = session.generation
                      /\ session'.items = session.items
    OBVIOUS
  <2>1. request[r].pc \in {"get", "invoke", "resend"}
    BY DEF IInv, RequestOK
  <2>2. \/ GetItem(r) \/ CommitDispatch(r) \/ Resent(r)
        \/ \E o : InvokeReturns(r, o)
    BY <2>1, OwnStep
  <2> QED
    BY <2>2, StaleGrantStep
<1> QED
  BY <1>1, InvariantHolds, PTL DEF LoadsSpec, StaleGrantIsHarmless
===============================================================================
