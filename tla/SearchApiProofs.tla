---------------------------- MODULE SearchApiProofs ----------------------------
(***************************************************************************)
(* Proofs about SearchApi, for any number of requests, slots, endpoints    *)
(* and versions and any times: what a cache serves is fresh enough, and    *)
(* the pool loses slots to failed logins only.                             *)
(***************************************************************************)
EXTENDS SearchApi, FiniteSetTheorems, SequenceTheorems, TLAPS

-----------------------------------------------------------------------------
(* The parts of TypeOK the invariants rest on *)

\* Where a request stands tells what of a value is still to be computed.
Sound(pc, e, c, d) ==
    /\ pc \in {"lookup", "store"} => e \in Cached
    /\ pc = "lookup" => c = 0
    /\ pc \in {"off", "lookup", "page", "done"} => d = 0
    /\ d <= e.cached

TypedRequests ==
    /\ rpc \in [Requests -> RequestPCs]
    /\ endpoint \in [Requests -> Endpoints]
    /\ counted \in [Requests -> Nat] /\ todo \in [Requests -> Nat]
    /\ timer \in [Requests -> Nat]
    /\ \A r \in Requests : Sound(rpc[r], endpoint[r], counted[r], todo[r])

TypedTables ==
    /\ db \in Versions /\ age \in [Versions -> Nat]
    /\ cache \in [Cached -> [version : Nat, ttl : Nat]]

TypedPool ==
    /\ idle \in Seq({"none", "conn"}) /\ refused \in Nat
    /\ slot \in [Requests -> {"", "none", "conn"}]

\* A request has a slot exactly while it needs one.
Holding == \A r \in Requests : slot[r] # "" <=> rpc[r] \in {"check", "connect", "query"}

LEMMA VersionsAreNumbers == Versions \subseteq Nat /\ 1 \in Versions
BY TotalsAssumption DEF Versions

\* Where a step goes is a place, and its clock starts again.
LEMMA GotoTyped ==
    ASSUME TypedRequests, NEW r \in Requests, NEW pc \in RequestPCs, Goto(r, pc)
    PROVE  /\ rpc' \in [Requests -> RequestPCs] /\ timer' \in [Requests -> Nat]
           /\ rpc'[r] = pc /\ timer'[r] = 0
           /\ \A q \in Requests \ {r} : rpc'[q] = rpc[q] /\ timer'[q] = timer[q]
BY DEF TypedRequests, Goto

LEMMA QueriesOf == \A e \in Endpoints : e.cached \in Nat /\ e.cached <= MaxQueries
BY EndpointsAssumption

\* A step of one request that leaves what fits where it then stands.
LEMMA RequestMoved ==
    ASSUME TypedRequests, NEW r \in Requests, NEW pc \in RequestPCs, Goto(r, pc),
           NEW e \in Endpoints, NEW c \in Nat, NEW d \in Nat, Sound(pc, e, c, d),
           endpoint' = [endpoint EXCEPT ![r] = e] \/ (endpoint' = endpoint /\ e = endpoint[r]),
           counted' = [counted EXCEPT ![r] = c] \/ (counted' = counted /\ c = counted[r]),
           todo' = [todo EXCEPT ![r] = d] \/ (todo' = todo /\ d = todo[r])
    PROVE  /\ TypedRequests'
           /\ endpoint'[r] = e /\ counted'[r] = c /\ todo'[r] = d
           /\ \A q \in Requests \ {r} : /\ endpoint'[q] = endpoint[q]
                                         /\ counted'[q] = counted[q] /\ todo'[q] = todo[q]
<1>1. endpoint' \in [Requests -> Endpoints] /\ endpoint'[r] = e
      /\ \A q \in Requests \ {r} : endpoint'[q] = endpoint[q]
  BY DEF TypedRequests
<1>2. counted' \in [Requests -> Nat] /\ counted'[r] = c
      /\ \A q \in Requests \ {r} : counted'[q] = counted[q]
  BY DEF TypedRequests
<1>3. todo' \in [Requests -> Nat] /\ todo'[r] = d
      /\ \A q \in Requests \ {r} : todo'[q] = todo[q]
  BY DEF TypedRequests
<1>4. ASSUME NEW q \in Requests PROVE Sound(rpc'[q], endpoint'[q], counted'[q], todo'[q])
  <2>1. CASE q = r
    BY <1>1, <1>2, <1>3, <2>1, GotoTyped, Zenon
  <2>2. CASE q # r
    <3>1. Sound(rpc[q], endpoint[q], counted[q], todo[q])
      BY DEF TypedRequests
    <3>2. rpc'[q] = rpc[q]
      BY <2>2, GotoTyped
    <3> QED
      BY <1>1, <1>2, <1>3, <2>2, <3>1, <3>2, Zenon
  <2> QED
    BY <2>1, <2>2
<1>5. (\A q \in Requests : Sound(rpc[q], endpoint[q], counted[q], todo[q]))'
  BY <1>4 DEF Sound, Cached
<1> QED
  BY <1>1, <1>2, <1>3, <1>5, GotoTyped DEF TypedRequests

LEMMA TypedRequestsInit == Init => TypedRequests
<1> SUFFICES ASSUME Init PROVE TypedRequests
  OBVIOUS
<1>1. "off" \in RequestPCs
  BY DEF RequestPCs
<1>2. rpc \in [Requests -> RequestPCs] /\ \A r \in Requests : rpc[r] = "off"
  BY <1>1 DEF Init
<1>3. counted \in [Requests -> Nat] /\ timer \in [Requests -> Nat]
      /\ endpoint \in [Requests -> Endpoints] /\ todo \in [Requests -> Nat]
      /\ \A r \in Requests : todo[r] = 0
  BY DEF Init
<1>4. \A r \in Requests : Sound(rpc[r], endpoint[r], counted[r], todo[r])
  BY <1>2, <1>3, QueriesOf DEF Sound
<1> QED
  BY <1>2, <1>3, <1>4 DEF TypedRequests

-----------------------------------------------------------------------------
(* What a step does to the request that makes it *)

Waiting == {"borrow", "check", "connect", "query"}

\* Request r goes to pc, for endpoint e, with c counted and d queries still to make for its
\* value; the others stay.
Becomes(r, pc, e, c, d) ==
    /\ pc \in RequestPCs /\ e \in Endpoints /\ c \in Nat /\ d \in Nat
    /\ Goto(r, pc) /\ Sound(pc, e, c, d)
    /\ endpoint' = [endpoint EXCEPT ![r] = e] \/ (endpoint' = endpoint /\ e = endpoint[r])
    /\ counted' = [counted EXCEPT ![r] = c] \/ (counted' = counted /\ c = counted[r])
    /\ todo' = [todo EXCEPT ![r] = d] \/ (todo' = todo /\ d = todo[r])

LEMMA RequestOf ==
    ASSUME TypedRequests, NEW r \in Requests
    PROVE  /\ endpoint[r] \in Endpoints /\ counted[r] \in Nat /\ todo[r] \in Nat
           /\ endpoint[r].cached \in Nat /\ timer[r] \in Nat
           /\ Sound(rpc[r], endpoint[r], counted[r], todo[r])
BY QueriesOf DEF TypedRequests

LEMMA BeginEffect ==
    ASSUME TypedRequests, NEW r \in Requests, Begin(r)
    PROVE  \E e \in Endpoints, pc \in {"lookup", "borrow"} : Becomes(r, pc, e, 0, 0)
<1>1. PICK e \in Endpoints : /\ endpoint' = [endpoint EXCEPT ![r] = e]
                             /\ Goto(r, IF e.cached > 0 THEN "lookup" ELSE "borrow")
  BY DEF Begin
<1>2. counted' = [counted EXCEPT ![r] = 0] /\ todo' = todo /\ todo[r] = 0
  BY RequestOf DEF Begin, Sound
<1>3. PICK pc \in {"lookup", "borrow"} :
          Goto(r, pc) /\ (pc = "lookup" => e \in Cached) /\ pc \in RequestPCs
  BY <1>1 DEF RequestPCs, Cached
<1>4. Sound(pc, e, 0, 0)
  BY <1>3, QueriesOf DEF Sound
<1> QED
  BY <1>1, <1>2, <1>3, <1>4 DEF Becomes

LEMMA HitEffect ==
    ASSUME TypedRequests, TypedTables, NEW r \in Requests, Hit(r)
    PROVE  \E pc \in {"done", "page"}, c \in Nat : Becomes(r, pc, endpoint[r], c, 0)
<1> DEFINE c == cache[endpoint[r]].version
<1>1. /\ rpc[r] = "lookup" /\ counted' = [counted EXCEPT ![r] = c]
      /\ endpoint' = endpoint /\ todo' = todo
  BY DEF Hit, requestVars
<1>2. PICK pc \in {"done", "page"} : Goto(r, pc)
  BY DEF Hit
<1>3. c \in Nat /\ todo[r] = 0
  BY <1>1, RequestOf DEF TypedTables, Sound
<1>4. pc \in RequestPCs /\ Sound(pc, endpoint[r], c, 0)
  BY RequestOf DEF RequestPCs, Sound
<1> HIDE DEF c
<1> QED
  BY <1>1, <1>2, <1>3, <1>4, RequestOf DEF Becomes

LEMMA MissEffect ==
    ASSUME TypedRequests, NEW r \in Requests, Miss(r)
    PROVE  Becomes(r, "borrow", endpoint[r], 0, endpoint[r].cached)
<1>1. /\ rpc[r] = "lookup" /\ Goto(r, "borrow") /\ endpoint' = endpoint /\ counted' = counted
      /\ todo' = [todo EXCEPT ![r] = endpoint[r].cached]
  BY DEF Miss, requestVars
<1>2. counted[r] = 0 /\ "borrow" \in RequestPCs /\ Sound("borrow", endpoint[r], 0, endpoint[r].cached)
  BY <1>1, RequestOf DEF Sound, RequestPCs
<1> QED
  BY <1>1, <1>2, RequestOf DEF Becomes

\* A slot moves the request on, or it needs one for its next query.
MovesTo(r, pc) ==
    \/ Borrow(r) /\ pc \in {"check", "connect"}
    \/ Check(r) /\ pc \in {"connect", "query"}
    \/ Connect(r) /\ pc = "query"
    \/ NextQuery(r) /\ pc = "borrow"

LEMMA MoveEffect ==
    ASSUME TypedRequests, NEW r \in Requests,
           Borrow(r) \/ Check(r) \/ Connect(r) \/ NextQuery(r)
    PROVE  \E pc \in Waiting :
               MovesTo(r, pc) /\ Becomes(r, pc, endpoint[r], counted[r], todo[r])
<1>1. PICK pc \in Waiting : MovesTo(r, pc) /\ Goto(r, pc)
  BY DEF Borrow, Check, Connect, NextQuery, MovesTo, Waiting
<1>2. endpoint' = endpoint /\ counted' = counted /\ todo' = todo
  BY DEF Borrow, Check, Connect, NextQuery, requestVars, resultVars
<1>3. pc \in RequestPCs /\ Sound(pc, endpoint[r], counted[r], todo[r])
  BY RequestOf DEF Waiting, RequestPCs, Sound
<1> QED
  BY <1>1, <1>2, <1>3, RequestOf DEF Becomes

LEMMA PageEffect ==
    ASSUME TypedRequests, NEW r \in Requests, Page(r)
    PROVE  Becomes(r, "borrow", endpoint[r], counted[r], 0)
<1>1. /\ rpc[r] = "page" /\ Goto(r, "borrow")
      /\ endpoint' = endpoint /\ counted' = counted /\ todo' = todo
  BY DEF Page, resultVars
<1>2. todo[r] = 0 /\ "borrow" \in RequestPCs /\ Sound("borrow", endpoint[r], counted[r], 0)
  BY <1>1, RequestOf DEF Sound, RequestPCs
<1> QED
  BY <1>1, <1>2, RequestOf DEF Becomes

LEMMA ErrorEffect ==
    ASSUME TypedRequests, NEW r \in Requests, PoolTimeout(r) \/ LoginFails(r) \/ QueryFails(r)
    PROVE  Becomes(r, "off", endpoint[r], 0, 0)
<1>1. Error(r) /\ endpoint' = endpoint
  BY DEF PoolTimeout, LoginFails, QueryFails, requestVars
<1>2. "off" \in RequestPCs /\ Sound("off", endpoint[r], 0, 0)
  BY RequestOf DEF RequestPCs, Sound
<1> QED
  BY <1>1, <1>2, RequestOf DEF Error, Becomes

\* A query of a value that is computed: the oldest version counts.
Oldest(r) == IF counted[r] = 0 THEN db ELSE counted[r]

LEMMA ComputeEffect ==
    ASSUME TypedRequests, TypedTables, NEW r \in Requests, Query(r), Computing(r)
    PROVE  Becomes(r, "store", endpoint[r], Oldest(r), todo[r] - 1)
<1>1. /\ counted' = [counted EXCEPT ![r] = Oldest(r)] /\ todo' = [todo EXCEPT ![r] = todo[r] - 1]
      /\ Goto(r, "store") /\ endpoint' = endpoint
  BY DEF Query, requestVars, Oldest
<1>2. Oldest(r) \in Nat /\ todo[r] - 1 \in Nat
  BY RequestOf, VersionsAreNumbers DEF TypedTables, Oldest, Computing
<1>3. "store" \in RequestPCs /\ Sound("store", endpoint[r], Oldest(r), todo[r] - 1)
  BY RequestOf DEF RequestPCs, Sound, Computing, Cached
<1> QED
  BY <1>1, <1>2, <1>3, RequestOf DEF Becomes

LEMMA PlainEffect ==
    ASSUME TypedRequests, NEW r \in Requests, Query(r), ~ Computing(r)
    PROVE  \E pc \in {"done", "borrow"} : Becomes(r, pc, endpoint[r], counted[r], 0)
<1>1. endpoint' = endpoint /\ counted' = counted /\ todo' = todo /\ todo[r] = 0
  BY RequestOf DEF Query, requestVars, Computing
<1>2. PICK pc \in {"done", "borrow"} : Goto(r, pc)
  BY DEF Query, Onward
<1>3. pc \in RequestPCs /\ Sound(pc, endpoint[r], counted[r], 0)
  BY RequestOf DEF RequestPCs, Sound
<1> QED
  BY <1>1, <1>2, <1>3, RequestOf DEF Becomes

LEMMA StoreEffect ==
    ASSUME TypedRequests, NEW r \in Requests, Store(r)
    PROVE  \E pc \in {"done", "page"} : Becomes(r, pc, endpoint[r], counted[r], 0)
<1>1. endpoint' = endpoint /\ counted' = counted /\ todo' = todo /\ todo[r] = 0
  BY DEF Store, requestVars, resultVars
<1>2. PICK pc \in {"done", "page"} : Goto(r, pc)
  BY DEF Store
<1>3. pc \in RequestPCs /\ Sound(pc, endpoint[r], counted[r], 0)
  BY RequestOf DEF RequestPCs, Sound
<1> QED
  BY <1>1, <1>2, <1>3, RequestOf DEF Becomes

LEMMA BecomesTyped ==
    ASSUME TypedRequests, NEW r \in Requests, NEW pc, NEW e, NEW c, NEW d,
           Becomes(r, pc, e, c, d)
    PROVE  /\ TypedRequests'
           /\ endpoint'[r] = e /\ counted'[r] = c /\ todo'[r] = d
           /\ rpc'[r] = pc /\ timer'[r] = 0
           /\ \A q \in Requests \ {r} :
                /\ endpoint'[q] = endpoint[q] /\ counted'[q] = counted[q]
                /\ todo'[q] = todo[q] /\ rpc'[q] = rpc[q] /\ timer'[q] = timer[q]
BY RequestMoved, GotoTyped DEF Becomes

LEMMA TypedRequestsStep == TypedRequests /\ TypedTables /\ [Next]_vars => TypedRequests'
<1> SUFFICES ASSUME TypedRequests, TypedTables, [Next]_vars PROVE TypedRequests'
  OBVIOUS
<1>1. ASSUME NEW r \in Requests, Begin(r) \/ RequestStep(r)
      PROVE  \E pc, e, c, d : Becomes(r, pc, e, c, d)
  BY <1>1, BeginEffect, HitEffect, MissEffect, MoveEffect, PageEffect, ErrorEffect,
     ComputeEffect, PlainEffect, StoreEffect DEF RequestStep
<1>2. CASE \E r \in Requests : Begin(r) \/ RequestStep(r)
  BY <1>1, <1>2, BecomesTyped
<1>3. ASSUME UNCHANGED <<rpc, endpoint, counted, todo>>, timer' \in [Requests -> Nat]
      PROVE  TypedRequests'
  <2>1. /\ rpc' = rpc /\ endpoint' = endpoint /\ counted' = counted /\ todo' = todo
    BY <1>3
  <2> QED
    BY <1>3, <2>1 DEF TypedRequests, Sound, Cached
<1>4. CASE Tick
  <2>1. timer' = [q \in Requests |-> IF rpc[q] \in DOMAIN Bound THEN timer[q] + 1 ELSE 0]
    BY <1>4 DEF Tick
  <2>2. timer' \in [Requests -> Nat]
    BY <2>1 DEF TypedRequests
  <2> QED
    BY <1>3, <1>4, <2>2 DEF Tick, requestVars, resultVars
<1>5. CASE Refresh \/ UNCHANGED vars
  <2>1. timer' \in [Requests -> Nat]
    BY <1>5 DEF Refresh, vars, TypedRequests
  <2> QED
    BY <1>3, <1>5, <2>1 DEF Refresh, vars, requestVars, resultVars
<1> QED
  BY <1>2, <1>4, <1>5 DEF Next

-----------------------------------------------------------------------------
(* The pool: what a step may do to it *)

Takes(r) ==
    /\ slot[r] = "" /\ idle # <<>>
    /\ slot' = [slot EXCEPT ![r] = Head(idle)] /\ idle' = Tail(idle)
    /\ refused' = refused
Returns(r) ==
    /\ slot[r] # ""
    /\ slot' = [slot EXCEPT ![r] = ""] /\ idle' = Append(idle, slot[r])
    /\ refused' = refused
Loses(r) ==
    /\ slot[r] # ""
    /\ slot' = [slot EXCEPT ![r] = ""] /\ idle' = idle
    /\ refused' = refused + 1
Reconnects(r) ==
    /\ slot[r] # ""
    /\ \E s \in {"none", "conn"} : slot' = [slot EXCEPT ![r] = s]
    /\ idle' = idle /\ refused' = refused

LEMMA TypedPoolInit == Init => TypedPool
<1> SUFFICES ASSUME Init PROVE TypedPool
  OBVIOUS
<1>1. idle \in [1..PoolSize -> {"none", "conn"}] /\ PoolSize \in Nat
  BY PoolAssumption DEF Init
<1>2. idle \in Seq({"none", "conn"})
  BY <1>1, SeqDef
<1> QED
  BY <1>2 DEF Init, TypedPool

LEMMA PoolStep ==
    TypedPool /\ Holding /\ [Next]_vars =>
        \/ \E r \in Requests : Takes(r) \/ Returns(r) \/ Loses(r) \/ Reconnects(r)
        \/ UNCHANGED poolVars
<1> SUFFICES ASSUME TypedPool, Holding, [Next]_vars, ~ UNCHANGED poolVars
             PROVE  \E r \in Requests :
                        Takes(r) \/ Returns(r) \/ Loses(r) \/ Reconnects(r)
  OBVIOUS
<1>1. PICK r \in Requests :
          Borrow(r) \/ Check(r) \/ Connect(r) \/ LoginFails(r) \/ Query(r) \/ QueryFails(r)
  BY DEF Next, RequestStep, Begin, Hit, Miss, PoolTimeout, NextQuery, Store, Page, Refresh,
         Tick, vars
<1>2. CASE Borrow(r)
  BY <1>2 DEF Borrow, Takes, Holding
<1>3. CASE Check(r)
  <2>1. slot[r] # "" /\ idle' = idle /\ refused' = refused
    BY <1>3 DEF Check, Holding
  <2>2. slot' = [slot EXCEPT ![r] = "none"]
    BY <1>3, <2>1 DEF Check, poolVars
  <2> QED
    BY <2>1, <2>2 DEF Reconnects
<1>4. CASE Connect(r)
  BY <1>4 DEF Connect, Reconnects, Holding
<1>5. CASE LoginFails(r)
  BY <1>5 DEF LoginFails, Loses, Holding
<1>6. CASE Query(r) \/ QueryFails(r)
  BY <1>6 DEF Query, QueryFails, PutBack, Returns, Holding
<1> QED
  BY <1>1, <1>2, <1>3, <1>4, <1>5, <1>6

LEMMA TypedPoolStep == TypedPool /\ Holding /\ [Next]_vars => TypedPool'
<1> SUFFICES ASSUME TypedPool, Holding, [Next]_vars PROVE TypedPool'
  OBVIOUS
<1>1. CASE UNCHANGED poolVars
  BY <1>1 DEF poolVars, TypedPool
<1>2. ASSUME NEW r \in Requests, Takes(r) PROVE TypedPool'
  <2>1. Head(idle) \in {"none", "conn"} /\ Tail(idle) \in Seq({"none", "conn"})
    BY <1>2, HeadTailProperties DEF Takes, TypedPool
  <2> QED
    BY <1>2, <2>1 DEF Takes, TypedPool
<1>3. ASSUME NEW r \in Requests, Returns(r) PROVE TypedPool'
  <2>1. Append(idle, slot[r]) \in Seq({"none", "conn"})
    <3>1. idle \in Seq({"none", "conn"}) /\ slot[r] \in {"none", "conn"}
      BY <1>3 DEF Returns, TypedPool
    <3> QED
      BY <3>1, AppendProperties
  <2> QED
    BY <1>3, <2>1 DEF Returns, TypedPool
<1>4. ASSUME NEW r \in Requests, Loses(r) PROVE TypedPool'
  <2>1. slot' = [slot EXCEPT ![r] = ""] /\ idle' = idle /\ refused' = refused + 1
    BY <1>4 DEF Loses
  <2>2. refused' \in Nat
    <3>1. refused \in Nat
      BY DEF TypedPool
    <3>2. refused' = refused + 1
      BY <2>1
    <3> QED
      BY <3>1, <3>2
  <2>3. slot' \in [Requests -> {"", "none", "conn"}]
    BY <2>1 DEF TypedPool
  <2> QED
    BY <2>1, <2>2, <2>3 DEF TypedPool
<1>5. ASSUME NEW r \in Requests, Reconnects(r) PROVE TypedPool'
  BY <1>5 DEF Reconnects, TypedPool
<1> QED
  BY <1>1, <1>2, <1>3, <1>4, <1>5, PoolStep

LEMMA HoldingInit == Init => Holding
BY DEF Init, Holding

LEMMA HoldingStep == TypedPool /\ TypedRequests /\ Holding /\ [Next]_vars => Holding'
<1> SUFFICES ASSUME TypedPool, TypedRequests, Holding, [Next]_vars PROVE Holding'
  OBVIOUS
<1>1. ASSUME NEW r \in Requests, NEW pc \in RequestPCs \ {"check", "connect", "query"},
             Goto(r, pc), \/ slot' = slot /\ rpc[r] \notin {"check", "connect", "query"}
                          \/ slot' = [slot EXCEPT ![r] = ""]
      PROVE  Holding'
  <2>1. slot'[r] = "" /\ \A q \in Requests \ {r} : slot'[q] = slot[q]
    BY <1>1 DEF Holding, TypedPool
  <2>2. rpc'[r] = pc /\ \A q \in Requests \ {r} : rpc'[q] = rpc[q]
    BY <1>1, GotoTyped
  <2> QED
    BY <1>1, <2>1, <2>2 DEF Holding
<1>2. ASSUME NEW r \in Requests, NEW pc \in {"check", "connect", "query"}, Goto(r, pc),
             \/ slot' = slot /\ rpc[r] \in {"check", "connect", "query"}
             \/ \E s \in {"none", "conn"} : slot' = [slot EXCEPT ![r] = s]
      PROVE  Holding'
  <2>1. pc \in RequestPCs
    BY DEF RequestPCs
  <2>2. slot'[r] # "" /\ \A q \in Requests \ {r} : slot'[q] = slot[q]
    BY <1>2 DEF Holding, TypedPool
  <2>3. rpc'[r] = pc /\ \A q \in Requests \ {r} : rpc'[q] = rpc[q]
    BY <1>2, <2>1, GotoTyped
  <2> QED
    BY <2>2, <2>3 DEF Holding
<1>3. ASSUME NEW r \in Requests, Begin(r) PROVE Holding'
  <2>1. PICK pc \in {"lookup", "borrow"} : Goto(r, pc)
    BY <1>3 DEF Begin
  <2>2. slot' = slot /\ rpc[r] \notin {"check", "connect", "query"}
    BY <1>3 DEF Begin, poolVars
  <2> QED
    BY <1>1, <2>1, <2>2 DEF RequestPCs
<1>4. ASSUME NEW r \in Requests,
             Hit(r) \/ Miss(r) \/ NextQuery(r) \/ Store(r) \/ Page(r)
      PROVE  Holding'
  <2>1. PICK pc \in {"done", "page", "borrow"} : Goto(r, pc)
    BY <1>4 DEF Hit, Miss, NextQuery, Store, Page
  <2>2. slot' = slot /\ rpc[r] \notin {"check", "connect", "query"}
    BY <1>4 DEF Hit, Miss, NextQuery, Store, Page, poolVars
  <2> QED
    BY <1>1, <2>1, <2>2 DEF RequestPCs
<1>5. ASSUME NEW r \in Requests, Borrow(r) PROVE Holding'
  <2>1. PICK pc \in {"check", "connect"} : Goto(r, pc)
    BY <1>5 DEF Borrow
  <2>2. Head(idle) \in {"none", "conn"}
    BY <1>5, HeadTailProperties DEF Borrow, TypedPool
  <2>3. slot' = [slot EXCEPT ![r] = Head(idle)]
    BY <1>5 DEF Borrow
  <2> QED
    BY <1>2, <2>1, <2>2, <2>3
<1>6. ASSUME NEW r \in Requests, Check(r) \/ Connect(r) PROVE Holding'
  <2>1. PICK pc \in {"connect", "query"} : Goto(r, pc)
    BY <1>6 DEF Check, Connect
  <2>2. \/ slot' = slot /\ rpc[r] \in {"check", "connect", "query"}
        \/ \E s \in {"none", "conn"} : slot' = [slot EXCEPT ![r] = s]
    BY <1>6 DEF Check, Connect
  <2> QED
    BY <1>2, <2>1, <2>2
<1>7. ASSUME NEW r \in Requests, PoolTimeout(r) PROVE Holding'
  BY <1>1, <1>7 DEF PoolTimeout, Error, poolVars, RequestPCs
<1>8. ASSUME NEW r \in Requests, LoginFails(r) \/ QueryFails(r) PROVE Holding'
  BY <1>1, <1>8 DEF LoginFails, QueryFails, PutBack, Error, RequestPCs
<1>9. ASSUME NEW r \in Requests, Query(r) PROVE Holding'
  <2>1. PICK pc \in {"store", "done", "borrow"} : Goto(r, pc)
    BY <1>9 DEF Query, Onward
  <2>2. slot' = [slot EXCEPT ![r] = ""]
    BY <1>9 DEF Query, PutBack
  <2> QED
    BY <1>1, <2>1, <2>2 DEF RequestPCs
<1>10. ASSUME Refresh \/ Tick \/ UNCHANGED vars PROVE Holding'
  BY <1>10 DEF Refresh, Tick, vars, poolVars, Holding
<1> QED
  BY <1>3, <1>4, <1>5, <1>6, <1>7, <1>8, <1>9, <1>10 DEF Next, RequestStep

-----------------------------------------------------------------------------
(* The slots *)

Held == {r \in Requests : slot[r] # ""}

LEMMA SlotsOfHeld ==
    /\ SlotsAccounted <=> Len(idle) + Cardinality(Held) + refused = PoolSize
    /\ SlotsAccounted' <=> Len(idle') + Cardinality(Held') + refused' = PoolSize
BY DEF SlotsAccounted, Held

LEMMA HeldIsFinite == IsFiniteSet(Held) /\ Cardinality(Held) \in Nat
<1>1. Held \subseteq Requests
  BY DEF Held
<1> QED
  BY <1>1, RequestsAssumption, FS_Subset, FS_CardinalityType

LEMMA SlotsInit == Init => SlotsAccounted
<1> SUFFICES ASSUME Init PROVE SlotsAccounted
  OBVIOUS
<1>1. Held = {}
  BY DEF Init, Held
<1>2. Cardinality(Held) = 0
  BY <1>1, FS_EmptySet
<1>3. idle \in Seq({"none"}) /\ Len(idle) = PoolSize /\ refused = 0
  <2>1. idle = [i \in 1..PoolSize |-> "none"] /\ PoolSize \in Nat /\ refused = 0
    BY PoolAssumption DEF Init
  <2>2. idle \in [1..PoolSize -> {"none"}]
    BY <2>1
  <2> QED
    BY <2>1, <2>2, SeqDef, LenProperties
<1> QED
  BY <1>2, <1>3, PoolAssumption, SlotsOfHeld

LEMMA SlotsStep ==
    TypedPool /\ Holding /\ SlotsAccounted /\ [Next]_vars => SlotsAccounted'
<1> SUFFICES ASSUME TypedPool, Holding, SlotsAccounted, [Next]_vars PROVE SlotsAccounted'
  OBVIOUS
<1>1. Len(idle) \in Nat /\ refused \in Nat
  BY LenProperties DEF TypedPool
<1>2. Len(idle) + Cardinality(Held) + refused = PoolSize
  BY SlotsOfHeld
<1>3. CASE UNCHANGED poolVars
  BY <1>3 DEF poolVars, SlotsAccounted
<1>4. ASSUME NEW r \in Requests, Takes(r) PROVE SlotsAccounted'
  <2>1. Head(idle) # "" /\ Len(idle') = Len(idle) - 1 /\ refused' = refused
    <3>1. idle \in Seq({"none", "conn"}) /\ idle # <<>> /\ idle' = Tail(idle)
          /\ refused' = refused
      BY <1>4 DEF Takes, TypedPool
    <3>2. Head(idle) \in {"none", "conn"} /\ Len(Tail(idle)) = Len(idle) - 1
      BY <3>1, HeadTailProperties, Zenon
    <3> QED
      BY <3>1, <3>2
  <2>2. Held' = Held \cup {r} /\ r \notin Held
    BY <1>4, <2>1 DEF Takes, TypedPool, Held
  <2>3. Cardinality(Held') = Cardinality(Held) + 1
    BY <2>2, HeldIsFinite, FS_AddElement
  <2>4. Len(idle') + Cardinality(Held') + refused' = PoolSize
    <3>1. Len(idle') = Len(idle) - 1 /\ refused' = refused
      BY <2>1
    <3> QED
      BY <1>1, <1>2, <2>3, <3>1, HeldIsFinite
  <2> QED
    BY <2>4, SlotsOfHeld
<1>5. ASSUME NEW r \in Requests, Returns(r) \/ Loses(r) PROVE SlotsAccounted'
  <2>1. Len(idle') + refused' = Len(idle) + refused + 1 /\ Len(idle') \in Nat
    <3>1. CASE Returns(r)
      <4>1. idle' = Append(idle, slot[r]) /\ slot[r] \in {"none", "conn"} /\ refused' = refused
        BY <3>1 DEF Returns, TypedPool
      <4>2. Len(idle') = Len(idle) + 1
        <5>1. idle \in Seq({"none", "conn"})
          BY DEF TypedPool
        <5>2. slot[r] \in {"none", "conn"}
          BY <4>1
        <5>3. Len(Append(idle, slot[r])) = Len(idle) + 1
          BY <5>1, <5>2, AppendProperties, SMT
        <5> QED
          BY <4>1, <5>3
      <4> QED
        BY <1>1, <4>1, <4>2
    <3>2. CASE Loses(r)
      <4>1. idle' = idle /\ refused' = refused + 1
        BY <3>2 DEF Loses
      <4> QED
        BY <1>1, <4>1
    <3> QED
      BY <1>5, <3>1, <3>2
  <2>2. Held' = Held \ {r} /\ r \in Held
    BY <1>5 DEF Returns, Loses, TypedPool, Held
  <2>3. Cardinality(Held') = Cardinality(Held) - 1
    BY <2>2, HeldIsFinite, FS_RemoveElement
  <2>4. refused' \in Nat
    <3>1. refused \in Nat
      BY <1>1
    <3>2. refused' = refused \/ refused' = refused + 1
      BY <1>5 DEF Returns, Loses
    <3> QED
      BY <3>1, <3>2
  <2>5. Len(idle') + Cardinality(Held') + refused' = PoolSize
    <3> DEFINE i  == Len(idle)
               h  == Cardinality(Held)
               f  == refused
               i2 == Len(idle')
               f2 == refused'
    <3>1. i \in Nat /\ h \in Nat /\ f \in Nat /\ i2 \in Nat /\ f2 \in Nat
      BY <1>1, <2>1, <2>4, HeldIsFinite
    <3>2. i2 + f2 = i + f + 1
      BY <2>1
    <3>3. i + h + f = PoolSize /\ Cardinality(Held') = h - 1
      BY <1>2, <2>3
    <3> HIDE DEF i, h, f, i2, f2
    <3>4. i2 + (h - 1) + f2 = PoolSize
      BY <3>1, <3>2, <3>3
    <3> QED
      BY <3>3, <3>4, Zenon DEF i2, f2
  <2> QED
    BY <2>5, SlotsOfHeld
<1>6. ASSUME NEW r \in Requests, Reconnects(r) PROVE SlotsAccounted'
  <2>1. Held' = Held
    BY <1>6 DEF Reconnects, TypedPool, Held
  <2> QED
    BY <1>6, <2>1 DEF Reconnects, SlotsAccounted, Held
<1> QED
  BY <1>3, <1>4, <1>5, <1>6, PoolStep

-----------------------------------------------------------------------------
(* The caches: what a step may do to them *)

\* The time since the result of a query of a value, when the request is on its way to the
\* next one or to the cache; a query more takes a round.
Spent == [store |-> 0, borrow |-> QueryTime, check |-> QueryTime + PoolWait,
          connect |-> 2 * QueryTime + PoolWait, query |-> 3 * QueryTime + PoolWait]

\* The time the queries made after the first one took at most, when d are still to be made.
Late(e, d) == (e.cached - d - 1) * Round

\* The results that a request holds for a value it computes.
Holds(pc, c, d) == pc = "store" \/ (d > 0 /\ c # 0)

\* They were true a short time ago.
Recent(pc, e, c, d, t) ==
    Holds(pc, c, d) =>
        /\ pc \in DOMAIN Bound /\ t <= Bound[pc]
        /\ c \in Versions /\ d < e.cached
        /\ age[c] <= Late(e, d) + Spent[pc] + t

Storing == \A r \in Requests : Recent(rpc[r], endpoint[r], counted[r], todo[r], timer[r])

\* The version of now, and those to come, are not out of date.
Current == \A v \in Versions : v >= db => age[v] = 0

\* An entry's age and what is left of its TTL.
Fresh ==
    \A e \in Cached : cache[e].ttl > 0 =>
        /\ cache[e].version \in Versions
        /\ age[cache[e].version] + cache[e].ttl <= TTL + Lag(e)

LEMMA Times ==
    /\ QueryTime \in Nat /\ PoolWait \in Nat /\ TTL \in Nat /\ Round \in Nat
    /\ Round = PoolWait + 4 * QueryTime
    /\ DOMAIN Bound = {"borrow", "check", "connect", "query", "store"}
    /\ Bound["borrow"] = PoolWait /\ Bound["check"] = QueryTime
    /\ Bound["connect"] = QueryTime /\ Bound["query"] = QueryTime /\ Bound["store"] = QueryTime
    /\ Spent["store"] = 0 /\ Spent["borrow"] = QueryTime
    /\ Spent["check"] = QueryTime + PoolWait /\ Spent["connect"] = 2 * QueryTime + PoolWait
    /\ Spent["query"] = 3 * QueryTime + PoolWait
BY PoolAssumption, TimeAssumption DEF Round, Bound, Spent

\* One query more is one round more.
LEMMA LateNext ==
    ASSUME NEW e \in Endpoints, NEW d \in Nat \ {0}, d <= e.cached
    PROVE  /\ Late(e, d) \in Int /\ Late(e, d - 1) \in Nat
           /\ Late(e, d - 1) = Late(e, d) + Round
<1> DEFINE k == e.cached - d
           n == Round
<1>1. k \in Nat /\ n \in Nat /\ e.cached - (d - 1) - 1 = k /\ e.cached - d - 1 = k - 1
  BY QueriesOf, Times
<1>2. Late(e, d) = (k - 1) * n /\ Late(e, d - 1) = k * n
  BY <1>1 DEF Late
<1> HIDE DEF k, n
<1>3. (k - 1) * n \in Int /\ k * n \in Nat /\ k * n = (k - 1) * n + n
  BY <1>1
<1> QED
  BY <1>2, <1>3 DEF n

LEMMA LateTyped ==
    ASSUME NEW e \in Endpoints, NEW d \in Nat, d < e.cached
    PROVE  Late(e, d) \in Nat
<1> DEFINE k == e.cached - d - 1
           n == Round
<1>1. k \in Nat /\ n \in Nat /\ Late(e, d) = k * n
  BY QueriesOf, Times DEF Late
<1> HIDE DEF k, n
<1>2. k * n \in Nat
  BY <1>1
<1> QED
  BY <1>1, <1>2

LEMMA LagTyped == ASSUME NEW e \in Endpoints, e.cached > 0 PROVE Lag(e) \in Nat
<1>1. Late(e, 0) \in Nat /\ e.cached - 0 - 1 = e.cached - 1
  BY QueriesOf, LateTyped
<1>2. Lag(e) = QueryTime + Late(e, 0)
  BY <1>1, Zenon DEF Lag, Late
<1> QED
  BY <1>1, <1>2, Times

LEMMA CachesInit == Init => TypedTables /\ Storing /\ Current /\ Fresh
<1> SUFFICES ASSUME Init PROVE TypedTables /\ Storing /\ Current /\ Fresh
  OBVIOUS
<1>1. TypedTables
  BY VersionsAreNumbers DEF Init, TypedTables
<1>2. Storing /\ Current
  BY DEF Init, Storing, Recent, Holds, Current
<1>3. \A e \in Cached : cache[e].ttl = 0
  BY DEF Init
<1>4. Fresh
  BY <1>3 DEF Fresh
<1> QED
  BY <1>1, <1>2, <1>4

\* A step of a request that stores nothing.
LEMMA CachesStay ==
    ASSUME TypedRequests, TypedTables, Storing, Current, Fresh, UNCHANGED cacheVars,
           NEW r \in Requests, NEW pc, NEW e, NEW c, NEW d, Becomes(r, pc, e, c, d),
           Recent(pc, e, c, d, 0)
    PROVE  (TypedTables /\ Storing /\ Current /\ Fresh)'
<1>1. db' = db /\ age' = age /\ cache' = cache
  BY DEF cacheVars
<1>2. TypedTables' /\ Current' /\ Fresh'
  BY <1>1 DEF TypedTables, Current, Fresh, Versions, Cached, Lag
<1>3. ASSUME NEW q \in Requests
      PROVE  Recent(rpc'[q], endpoint'[q], counted'[q], todo'[q], timer'[q])
  <2>1. CASE q = r
    <3>1. /\ rpc'[r] = pc /\ endpoint'[r] = e /\ counted'[r] = c /\ todo'[r] = d
          /\ timer'[r] = 0
      BY BecomesTyped
    <3> QED
      BY <2>1, <3>1, Zenon
  <2>2. CASE q # r
    <3>1. Recent(rpc[q], endpoint[q], counted[q], todo[q], timer[q])
      BY DEF Storing
    <3>2. /\ rpc'[q] = rpc[q] /\ endpoint'[q] = endpoint[q] /\ counted'[q] = counted[q]
          /\ todo'[q] = todo[q] /\ timer'[q] = timer[q]
      BY <2>2, BecomesTyped
    <3> QED
      BY <3>1, <3>2, Zenon
  <2> QED
    BY <2>1, <2>2
<1>4. Storing'
  BY <1>1, <1>3 DEF Storing, Recent, Holds, Late, Round, Spent, Bound, Versions
<1> QED
  BY <1>2, <1>4

\* What a request holds is recent enough where the step takes it.
LEMMA MoveIsRecent ==
    ASSUME TypedRequests, TypedTables, Storing, NEW r \in Requests, NEW pc, MovesTo(r, pc)
    PROVE  Recent(pc, endpoint[r], counted[r], todo[r], 0)
<1> DEFINE e == endpoint[r]
           c == counted[r]
           d == todo[r]
<1>1. Recent(rpc[r], e, c, d, timer[r]) /\ timer[r] \in Nat
  BY RequestOf DEF Storing
<1>2. rpc[r] \in {"borrow", "check", "connect", "store"} /\ pc \in Waiting
      /\ (rpc[r] = "store" => d > 0)
  BY DEF MovesTo, Borrow, Check, Connect, NextQuery, Waiting
<1> SUFFICES ASSUME Holds(pc, c, d)
             PROVE  /\ pc \in DOMAIN Bound /\ 0 <= Bound[pc]
                    /\ c \in Versions /\ d < e.cached
                    /\ age[c] <= Late(e, d) + Spent[pc] + 0
  BY DEF Recent
<1>3. d > 0 /\ c # 0
  BY <1>2 DEF Holds, Waiting
<1>4. /\ timer[r] <= Bound[rpc[r]] /\ c \in Versions /\ d < e.cached
      /\ age[c] <= Late(e, d) + Spent[rpc[r]] + timer[r]
  BY <1>1, <1>3 DEF Recent, Holds
<1>5. Late(e, d) \in Nat /\ age[c] \in Nat
  BY <1>4, RequestOf, LateTyped DEF TypedTables
<1>6. pc \in DOMAIN Bound /\ Bound[pc] \in Nat /\ Spent[pc] \in Nat
      /\ Spent[rpc[r]] \in Nat /\ Bound[rpc[r]] \in Nat
  BY <1>2, Times DEF Waiting
<1>7. Spent[rpc[r]] + Bound[rpc[r]] <= Spent[pc]
  BY Times DEF MovesTo, Borrow, Check, Connect, NextQuery
<1> HIDE DEF e, c, d
<1>8. age[c] <= Late(e, d) + Spent[pc]
  BY <1>1, <1>4, <1>5, <1>6, <1>7
<1> QED
  BY <1>4, <1>5, <1>6, <1>8

LEMMA ComputeIsRecent ==
    ASSUME TypedRequests, TypedTables, Storing, Current, NEW r \in Requests, Query(r), Computing(r)
    PROVE  Recent("store", endpoint[r], Oldest(r), todo[r] - 1, 0)
<1> DEFINE e == endpoint[r]
           d == todo[r]
<1>1. e \in Endpoints /\ e.cached \in Nat /\ d \in Nat \ {0} /\ d <= e.cached /\ rpc[r] = "query"
  BY RequestOf DEF Computing, Sound, Query
<1>2. Late(e, d) \in Int /\ Late(e, d - 1) \in Nat /\ Late(e, d - 1) = Late(e, d) + Round
  BY <1>1, LateNext
<1>3. "store" \in DOMAIN Bound /\ 0 <= Bound["store"] /\ Spent["store"] = 0 /\ d - 1 < e.cached
  BY <1>1, Times
<1>4. Oldest(r) \in Versions /\ age[Oldest(r)] <= Late(e, d - 1)
  <2>1. CASE counted[r] = 0
    <3>1. db \in Versions /\ age[db] = 0 /\ Oldest(r) = db
      BY <2>1, VersionsAreNumbers DEF TypedTables, Current, Oldest
    <3> QED
      BY <1>2, <3>1
  <2>2. CASE counted[r] # 0
    <3> DEFINE c == counted[r]
    <3>1. Recent(rpc[r], e, c, d, timer[r]) /\ timer[r] \in Nat
      BY RequestOf DEF Storing
    <3>2. timer[r] <= Bound["query"] /\ c \in Versions
          /\ age[c] <= Late(e, d) + Spent["query"] + timer[r]
      BY <1>1, <2>2, <3>1 DEF Recent, Holds
    <3>3. age[c] \in Nat
      BY <3>2 DEF TypedTables
    <3> HIDE DEF c, e, d
    <3>4. age[c] <= Late(e, d) + Round
      BY <1>2, <3>1, <3>2, <3>3, Times
    <3> QED
      BY <1>2, <2>2, <3>2, <3>4 DEF Oldest, c
  <2> QED
    BY <2>1, <2>2
<1> HIDE DEF e, d
<1>5. age[Oldest(r)] <= Late(e, d - 1) + Spent["store"] + 0
  <2>1. age[Oldest(r)] \in Nat
    BY <1>4 DEF TypedTables
  <2> QED
    BY <1>2, <1>3, <1>4, <2>1
<1> QED
  BY <1>3, <1>4, <1>5 DEF Recent, e, d

\* Time passes: what waits or is stored gets older.
LEMMA CachesTick ==
    ASSUME TypedRequests, TypedTables, Storing, Current, Fresh, Tick
    PROVE  (TypedTables /\ Storing /\ Current /\ Fresh)'
<1>1. /\ age' = [v \in Versions |-> IF v < db /\ age[v] < Old THEN age[v] + 1 ELSE age[v]]
      /\ cache' = [e \in Cached |->
                      [cache[e] EXCEPT !.ttl = IF @ = 0 THEN 0 ELSE @ - 1]]
      /\ timer' = [r \in Requests |-> IF rpc[r] \in DOMAIN Bound THEN timer[r] + 1 ELSE 0]
      /\ db' = db /\ rpc' = rpc /\ counted' = counted /\ todo' = todo /\ endpoint' = endpoint
  BY DEF Tick, resultVars, requestVars
<1>2. \A v \in Versions : age'[v] \in Nat /\ age'[v] <= age[v] + 1
                          /\ (v >= db => age'[v] = age[v])
  BY <1>1, VersionsAreNumbers DEF TypedTables
<1>3. age' \in [Versions -> Nat]
  BY <1>1, <1>2
<1>4. ASSUME NEW e \in Cached
      PROVE  /\ cache'[e] \in [version : Nat, ttl : Nat]
             /\ cache'[e].version = cache[e].version
             /\ cache'[e].ttl > 0 => cache[e].ttl > 0 /\ cache'[e].ttl = cache[e].ttl - 1
  <2>1. cache[e] \in [version : Nat, ttl : Nat]
    BY DEF TypedTables
  <2>2. cache'[e] = [cache[e] EXCEPT !.ttl = IF @ = 0 THEN 0 ELSE @ - 1]
    BY <1>1
  <2>3. CASE cache[e].ttl = 0
    <3>1. cache'[e] = [cache[e] EXCEPT !.ttl = 0]
      BY <2>2, <2>3
    <3> QED
      BY <2>1, <2>3, <3>1
  <2>4. CASE cache[e].ttl # 0
    <3>1. cache'[e] = [cache[e] EXCEPT !.ttl = cache[e].ttl - 1]
      BY <2>2, <2>4
    <3>2. cache[e].ttl - 1 \in Nat
      BY <2>1, <2>4
    <3> QED
      BY <2>1, <2>4, <3>1, <3>2
  <2> QED
    BY <2>3, <2>4
<1>5. TypedTables'
  <2>1. cache' \in [Cached -> [version : Nat, ttl : Nat]]
    BY <1>1, <1>4
  <2> QED
    BY <1>1, <1>3, <2>1 DEF TypedTables, Versions
<1>6. Current'
  BY <1>1, <1>2 DEF Current, Versions
<1>7. Fresh'
  <2> SUFFICES ASSUME NEW e \in Cached, cache'[e].ttl > 0
               PROVE  /\ cache'[e].version \in Versions
                      /\ age'[cache'[e].version] + cache'[e].ttl <= TTL + Lag(e)
    BY DEF Fresh, Lag, Round, Cached, Versions
  <2>1. /\ cache[e].ttl > 0 /\ cache'[e].ttl = cache[e].ttl - 1
        /\ cache'[e].version = cache[e].version /\ cache[e].ttl \in Nat
    BY <1>4 DEF TypedTables
  <2>2. cache[e].version \in Versions
        /\ age[cache[e].version] + cache[e].ttl <= TTL + Lag(e)
    BY <2>1 DEF Fresh
  <2>3. age[cache[e].version] \in Nat
    BY <2>2 DEF TypedTables
  <2>4. age'[cache[e].version] \in Nat /\ age'[cache[e].version] <= age[cache[e].version] + 1
    BY <1>2, <2>2
  <2>5. TTL + Lag(e) \in Nat
    BY LagTyped, Times DEF Cached
  <2> QED
    BY <2>1, <2>2, <2>3, <2>4, <2>5
<1>8. ASSUME NEW r \in Requests, Holds(rpc[r], counted[r], todo[r])
      PROVE  /\ rpc[r] \in DOMAIN Bound /\ timer'[r] <= Bound[rpc[r]]
             /\ counted[r] \in Versions /\ todo[r] < endpoint[r].cached
             /\ age'[counted[r]] <= Late(endpoint[r], todo[r]) + Spent[rpc[r]] + timer'[r]
  <2>1. /\ rpc[r] \in DOMAIN Bound /\ timer[r] <= Bound[rpc[r]]
        /\ counted[r] \in Versions /\ todo[r] < endpoint[r].cached
        /\ age[counted[r]] <= Late(endpoint[r], todo[r]) + Spent[rpc[r]] + timer[r]
    BY <1>8 DEF Storing, Recent
  <2>2. timer'[r] = timer[r] + 1 /\ timer[r] < Bound[rpc[r]] /\ timer[r] \in Nat
    BY <1>1, <2>1 DEF Tick, TypedRequests
  <2>3. age[counted[r]] \in Nat /\ age'[counted[r]] <= age[counted[r]] + 1
        /\ age'[counted[r]] \in Nat
    BY <1>2, <2>1 DEF TypedTables
  <2>4. Late(endpoint[r], todo[r]) \in Nat /\ Spent[rpc[r]] \in Nat /\ Bound[rpc[r]] \in Nat
    <3>1. Late(endpoint[r], todo[r]) \in Nat
      BY <2>1, RequestOf, LateTyped
    <3>2. Spent[rpc[r]] \in Nat /\ Bound[rpc[r]] \in Nat
      BY <2>1, Times
    <3> QED
      BY <3>1, <3>2
  <2> DEFINE l == Late(endpoint[r], todo[r])
  <2> HIDE DEF l
  <2>5. age'[counted[r]] <= l + Spent[rpc[r]] + timer'[r]
    BY <2>1, <2>2, <2>3, <2>4 DEF l
  <2>6. timer'[r] <= Bound[rpc[r]]
    BY <2>2, <2>4
  <2> QED
    BY <2>1, <2>5, <2>6 DEF l
<1>9. Storing'
  BY <1>1, <1>8 DEF Storing, Recent, Holds, Late, Spent, Round, Bound, Versions
<1> QED
  BY <1>5, <1>6, <1>7, <1>9

\* A value enters the cache with a full TTL.
LEMMA CachesStore ==
    ASSUME TypedRequests, TypedTables, Storing, Current, Fresh,
           NEW r \in Requests, Store(r)
    PROVE  (TypedTables /\ Storing /\ Current /\ Fresh)'
<1> DEFINE f == endpoint[r]
           c == counted[r]
<1>1. /\ rpc[r] = "store" /\ todo[r] = 0 /\ f \in Cached
      /\ cache' = [cache EXCEPT ![f] = [version |-> c, ttl |-> TTL]]
      /\ db' = db /\ age' = age
  BY RequestOf DEF Store, Sound
<1>2. PICK pc \in {"done", "page"} : Becomes(r, pc, f, c, 0)
  BY StoreEffect
<1>3. c \in Versions /\ age[c] <= Lag(f) /\ age[c] \in Nat /\ Lag(f) \in Nat
  <2>1. Recent("store", f, c, 0, timer[r]) /\ timer[r] \in Nat
    BY <1>1, RequestOf DEF Storing
  <2>2. timer[r] <= QueryTime /\ c \in Versions /\ age[c] <= Late(f, 0) + timer[r]
    <3>1. /\ timer[r] <= Bound["store"] /\ c \in Versions /\ 0 < f.cached
          /\ age[c] <= Late(f, 0) + Spent["store"] + timer[r]
      BY <2>1 DEF Recent, Holds
    <3>2. Late(f, 0) \in Nat
      BY <3>1, RequestOf, LateTyped
    <3> QED
      BY <2>1, <3>1, <3>2, Times
  <2>3. age[c] \in Nat /\ Late(f, 0) \in Nat
    BY <1>1, <2>2, RequestOf, LateTyped DEF TypedTables, Cached
  <2>4. Lag(f) = QueryTime + Late(f, 0)
    <3>1. f.cached - 1 = f.cached - 0 - 1
      BY RequestOf
    <3> QED
      BY <3>1, Zenon DEF Lag, Late
  <2> DEFINE l == Late(f, 0)
             g == Lag(f)
  <2> HIDE DEF l, g, c
  <2>5. age[c] <= g /\ g \in Nat
    BY <2>1, <2>2, <2>3, <2>4, Times DEF l, g
  <2> QED
    BY <2>2, <2>3, <2>5 DEF g
<1>4. [version |-> c, ttl |-> TTL] \in [version : Nat, ttl : Nat]
  BY <1>3, VersionsAreNumbers, Times
<1> HIDE DEF f, c
<1>5. TypedTables'
  <2>1. cache' \in [Cached -> [version : Nat, ttl : Nat]]
    BY <1>1, <1>4 DEF TypedTables
  <2> QED
    BY <1>1, <2>1 DEF TypedTables, Versions, Cached
<1>6. Current'
  BY <1>1 DEF Current, Versions
<1>7. Fresh'
  <2> SUFFICES ASSUME NEW e \in Cached, cache'[e].ttl > 0
               PROVE  /\ cache'[e].version \in Versions
                      /\ age[cache'[e].version] + cache'[e].ttl <= TTL + Lag(e)
    BY <1>1 DEF Fresh, Lag, Round, Cached, Versions
  <2>1. CASE e = f
    <3>1. cache'[e].version = c /\ cache'[e].ttl = TTL
      BY <1>1, <2>1 DEF TypedTables
    <3> QED
      BY <1>3, <2>1, <3>1, Times
  <2>2. CASE e # f
    <3>1. cache'[e] = cache[e]
      BY <1>1, <2>2 DEF TypedTables
    <3> QED
      BY <2>2, <3>1 DEF Fresh
  <2> QED
    BY <2>1, <2>2
<1>8. Storing'
  <2>1. ASSUME NEW q \in Requests
        PROVE  Recent(rpc'[q], endpoint'[q], counted'[q], todo'[q], timer'[q])
    <3>1. CASE q = r
      <4>1. rpc'[q] = pc /\ todo'[q] = 0
        BY <1>2, <3>1, BecomesTyped
      <4> QED
        BY <1>2, <4>1 DEF Recent, Holds
    <3>2. CASE q # r
      <4>1. Recent(rpc[q], endpoint[q], counted[q], todo[q], timer[q])
        BY DEF Storing
      <4>2. /\ rpc'[q] = rpc[q] /\ endpoint'[q] = endpoint[q] /\ counted'[q] = counted[q]
            /\ todo'[q] = todo[q] /\ timer'[q] = timer[q]
        BY <1>2, <3>2, BecomesTyped
      <4> QED
        BY <4>1, <4>2, Zenon
    <3> QED
      BY <3>1, <3>2
  <2> QED
    BY <1>1, <2>1 DEF Storing, Recent, Holds, Late, Spent, Round, Bound, Versions
<1> QED
  BY <1>5, <1>6, <1>7, <1>8

LEMMA CachesStep ==
    TypedRequests /\ TypedTables /\ Storing /\ Current /\ Fresh /\ [Next]_vars
        => (TypedTables /\ Storing /\ Current /\ Fresh)'
<1> SUFFICES ASSUME TypedRequests, TypedTables, Storing, Current, Fresh, [Next]_vars
             PROVE  (TypedTables /\ Storing /\ Current /\ Fresh)'
  OBVIOUS
<1>1. ASSUME NEW r \in Requests, Begin(r) \/ RequestStep(r), ~ Store(r)
      PROVE  (TypedTables /\ Storing /\ Current /\ Fresh)'
  <2>1. UNCHANGED cacheVars
    BY <1>1 DEF RequestStep, Begin, Hit, Miss, Borrow, PoolTimeout, Check, Connect, LoginFails,
                Query, QueryFails, NextQuery, Page
  <2>2. ASSUME NEW pc \in RequestPCs \ {"store"}, NEW e, NEW c, NEW d, Becomes(r, pc, e, c, d),
               d = 0 \/ c = 0
        PROVE  (TypedTables /\ Storing /\ Current /\ Fresh)'
    <3>1. d \in Nat /\ Recent(pc, e, c, d, 0)
      BY <2>2 DEF Recent, Holds, Becomes
    <3> QED
      BY <2>1, <2>2, <3>1, CachesStay
  <2>3. CASE Borrow(r) \/ Check(r) \/ Connect(r) \/ NextQuery(r)
    <3>1. PICK pc \in Waiting :
              MovesTo(r, pc) /\ Becomes(r, pc, endpoint[r], counted[r], todo[r])
      BY <2>3, MoveEffect
    <3>2. Recent(pc, endpoint[r], counted[r], todo[r], 0)
      BY <3>1, MoveIsRecent
    <3> QED
      BY <2>1, <3>1, <3>2, CachesStay
  <2>4. CASE Query(r) /\ Computing(r)
    BY <2>1, <2>4, ComputeEffect, ComputeIsRecent, CachesStay
  <2>5. CASE Query(r) /\ ~ Computing(r)
    <3>1. PICK pc \in {"done", "borrow"} : Becomes(r, pc, endpoint[r], counted[r], 0)
      BY <2>5, PlainEffect
    <3> QED
      BY <2>2, <3>1 DEF RequestPCs
  <2>6. CASE Begin(r)
    <3>1. PICK e \in Endpoints, pc \in {"lookup", "borrow"} : Becomes(r, pc, e, 0, 0)
      BY <2>6, BeginEffect
    <3> QED
      BY <2>2, <3>1 DEF RequestPCs
  <2>7. CASE Hit(r)
    <3>1. PICK pc \in {"done", "page"}, c \in Nat : Becomes(r, pc, endpoint[r], c, 0)
      BY <2>7, HitEffect
    <3> QED
      BY <2>2, <3>1 DEF RequestPCs
  <2>8. CASE Miss(r) \/ Page(r) \/ PoolTimeout(r) \/ LoginFails(r) \/ QueryFails(r)
    <3>1. PICK pc \in {"borrow", "off"} :
              \/ Becomes(r, pc, endpoint[r], 0, endpoint[r].cached)
              \/ \E c : Becomes(r, pc, endpoint[r], c, 0)
      BY <2>8, MissEffect, PageEffect, ErrorEffect
    <3> QED
      BY <2>2, <3>1 DEF RequestPCs
  <2> QED
    BY <1>1, <2>3, <2>4, <2>5, <2>6, <2>7, <2>8 DEF RequestStep
<1>2. ASSUME Refresh PROVE (TypedTables /\ Storing /\ Current /\ Fresh)'
  <2>1. /\ db < Len(Totals) /\ db' = db + 1 /\ age' = age /\ cache' = cache
        /\ rpc' = rpc /\ counted' = counted /\ timer' = timer
        /\ endpoint' = endpoint /\ todo' = todo
    BY <1>2 DEF Refresh, requestVars, resultVars
  <2>2. Len(Totals) \in Nat /\ Versions = 1..Len(Totals)
    BY TotalsAssumption, LenProperties DEF Versions
  <2>3. db' \in Versions /\ db' > db
    BY <2>1, <2>2 DEF TypedTables
  <2>4. TypedTables' /\ Storing' /\ Fresh'
    <3>1. TypedTables'
      BY <2>1, <2>3 DEF TypedTables, Versions, Cached
    <3>2. Storing'
      BY <2>1 DEF Storing, Recent, Holds, Late, Spent, Round, Bound, Versions
    <3>3. Fresh'
      BY <2>1 DEF Fresh, Lag, Round, Cached, Versions
    <3> QED
      BY <3>1, <3>2, <3>3
  <2>5. Current'
    BY <2>1, <2>2, <2>3 DEF Current, TypedTables
  <2> QED
    BY <2>4, <2>5
<1>3. ASSUME UNCHANGED vars PROVE (TypedTables /\ Storing /\ Current /\ Fresh)'
  <2>1. /\ db' = db /\ age' = age /\ cache' = cache /\ rpc' = rpc /\ endpoint' = endpoint
        /\ counted' = counted /\ todo' = todo /\ timer' = timer
    BY <1>3 DEF vars, cacheVars, requestVars, resultVars
  <2>2. TypedTables' /\ Current'
    BY <2>1 DEF TypedTables, Current, Versions, Cached
  <2>3. Storing'
    BY <2>1 DEF Storing, Recent, Holds, Late, Spent, Round, Bound, Versions
  <2>4. Fresh'
    BY <2>1 DEF Fresh, Lag, Round, Cached, Versions
  <2> QED
    BY <2>2, <2>3, <2>4
<1>4. CASE \E r \in Requests : Begin(r) \/ RequestStep(r)
  BY <1>1, <1>4, CachesStore
<1> QED
  BY <1>2, <1>3, <1>4, CachesTick DEF Next

-----------------------------------------------------------------------------
(* The theorems *)

Inv == /\ TypedRequests /\ TypedTables /\ TypedPool /\ Holding
       /\ Storing /\ Current /\ Fresh /\ SlotsAccounted

LEMMA InvAlways == Spec => []Inv
<1>1. Init => Inv
  BY TypedRequestsInit, TypedPoolInit, HoldingInit, CachesInit, SlotsInit DEF Inv
<1>2. Inv /\ [Next]_vars => Inv'
  BY TypedRequestsStep, TypedPoolStep, HoldingStep, CachesStep, SlotsStep DEF Inv
<1> QED
  BY <1>1, <1>2, PTL DEF Spec

(* What a cache serves was true of the tables less than the TTL and the time *)
(* of its queries ago, for any number of threads that compute the same value *)
(* outside the lock and of queries behind one value (TTLCache.get_or_set).   *)
THEOREM FreshAlways == Spec => []FreshEnough
<1>1. Inv => FreshEnough
  <2> SUFFICES ASSUME Inv, NEW e \in Cached, cache[e].ttl > 0
               PROVE  age[cache[e].version] < TTL + Lag(e)
    BY DEF FreshEnough
  <2>1. cache[e].version \in Versions /\ cache[e].ttl \in Nat
        /\ age[cache[e].version] + cache[e].ttl <= TTL + Lag(e)
    BY DEF Inv, Fresh, TypedTables
  <2>2. age[cache[e].version] \in Nat
    BY <2>1 DEF Inv, TypedTables
  <2>3. TTL + Lag(e) \in Nat
    BY LagTyped, Times DEF Cached
  <2> QED
    BY <2>1, <2>2, <2>3
<1> QED
  BY <1>1, InvAlways, PTL

(* Every slot is in the pool, with one request, or was lost to a failed      *)
(* login, for any number of requests and slots (PooledConnection).           *)
THEOREM SlotsAlways == Spec => []SlotsAccounted
<1>1. Inv => SlotsAccounted
  BY DEF Inv
<1> QED
  BY <1>1, InvAlways, PTL

=============================================================================
