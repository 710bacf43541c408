------------------------------- MODULE SearchApi -------------------------------
(***************************************************************************)
(* The search API's requests, its TTL caches and its connection pool:      *)
(* webapp/backend/main.py, cache.py and snowflake_client.py.  FastAPI runs *)
(* each request in a thread.  A request looks a value up in a cache (and   *)
(* computes it when it is not there or has expired, most often with one    *)
(* query, with four for analytics_summary), or makes plain queries, or     *)
(* both; each query borrows a slot of the pool.                            *)
(*                                                                         *)
(* The gold tables are external: a version, which a dbt run replaces.      *)
(* Time is relative: what is left of an entry's TTL, how long a version    *)
(* has been out of date, how long a request has been at its step.          *)
(***************************************************************************)
EXTENDS Integers, Sequences, FiniteSets

CONSTANTS
    Requests,   \* the threads
    Endpoints,  \* the endpoints in use: how many queries compute the [cached] value (0:
                \* there is none), and how many [plain] ones are made at each request
    MaxQueries, \* the most queries behind a cached value
    Totals,     \* per version of the tables: how many rows match the filters
    Pages,      \* page numbers asked for
    PageSizes,  \* PAGE_SIZE_OPTIONS
    PoolSize,   \* POOL_SIZE
    PoolWait,   \* the timeout of _pool.get
    QueryTime,  \* the bound login_timeout and network_timeout set to a call of Snowflake
    TTL         \* ttl_seconds of the cache

ASSUME RequestsAssumption  == IsFiniteSet(Requests)
ASSUME EndpointsAssumption ==
    MaxQueries \in Nat /\ Endpoints \subseteq [cached : 0..MaxQueries, plain : Nat]
ASSUME TotalsAssumption    == Totals \in Seq(Nat) /\ Totals # <<>>
ASSUME PagesAssumption     == Pages \subseteq Nat \ {0} /\ PageSizes \subseteq Nat \ {0}
ASSUME PoolAssumption      == PoolSize \in Nat \ {0} /\ PoolWait \in Nat
ASSUME TimeAssumption      == QueryTime \in Nat /\ TTL \in Nat

VARIABLES
    db,         \* the version of the gold tables
    age,        \* per version: for how long it has been out of date, up to Old
    cache,      \* per cached endpoint: the version its value was computed from, the TTL left
    idle,       \* _pool, the queue of slots: "none" (no connection yet) or "conn"
    rpc,        \* per request: its step, see RequestPCs
    endpoint,   \* per request: the endpoint asked for
    asked,      \* per request: the page and the page size
    counted,    \* per request: the oldest version its cached value is from; 0: none yet
    todo,       \* per request: queries still to make for the value it computes
    shown,      \* per request: the version the rows are from; 0: none yet
    left,       \* per request: plain queries still to make
    slot,       \* per request: the slot it has borrowed, or "" if none
    timer,      \* per request: how long it has been at a step that is bounded in time
    refused     \* history: how many logins have failed

poolVars    == <<idle, slot, refused>>
cacheVars   == <<db, age, cache>>
requestVars == <<endpoint, asked>>
resultVars  == <<counted, todo, shown, left>>
vars == <<cacheVars, poolVars, rpc, requestVars, resultVars, timer>>

Versions == DOMAIN Totals
Cached   == {e \in Endpoints : e.cached > 0}

\* Where a request stands.
\*   off     no request, or one that ended with an error
\*   lookup  will look into the cache
\*   borrow  waits for a slot
\*   check   has a slot, will ping its connection
\*   connect has a slot without a connection that answers, will log in
\*   query   has a connection, will execute its query
\*   store   has a result for the value it computes, will go on with that or cache it
\*   page    has the cached value, will compute the page
\*   done    answered
RequestPCs == {"off", "lookup", "borrow", "check", "connect", "query", "store", "page", "done"}

\* Variant: the pool is waited for in time, and a query for as long as it takes.
Bug_NoNetworkTimeout ==
    [borrow |-> PoolWait, connect |-> QueryTime, store |-> QueryTime]

\* The steps that end in time, and how long a query and the wait for it take at most.
Bound == [borrow |-> PoolWait, check |-> QueryTime, connect |-> QueryTime,
          query |-> QueryTime, store |-> QueryTime]
Round == PoolWait + 4 * QueryTime

\* How long after the first of its queries a value is cached at most.
Lag(e) == QueryTime + (e.cached - 1) * Round

\* Beyond what FreshEnough tells apart.
Old == TTL + QueryTime + MaxQueries * Round

-----------------------------------------------------------------------------
(* Helpers *)

Goto(r, pc) == rpc' = [rpc EXCEPT ![r] = pc] /\ timer' = [timer EXCEPT ![r] = 0]

\* The request's query is one whose result goes into the cache.
Computing(r) == todo[r] > 0

\* Where a request goes with a cached value, or after a plain query, when n are left.
Onward(n) == IF n = 0 THEN "done" ELSE "borrow"

\* Variant: a page more than the full ones, even when these hold every row.
Bug_PageMore(total, size) == total \div size + 1

\* search, 357-359: the pages of a result, at least one, and the page that is shown.
TotalPages(total, size) ==
    LET full == (total + size - 1) \div size IN IF full = 0 THEN 1 ELSE full
PageShown(total, page, size) ==
    LET last == TotalPages(total, size) IN IF page < last THEN page ELSE last
HasNext(total, page, size) == PageShown(total, page, size) < TotalPages(total, size)

-----------------------------------------------------------------------------
Init ==
    /\ db = 1 /\ age = [v \in Versions |-> 0]
    /\ cache = [e \in Cached |-> [version |-> 1, ttl |-> 0]]
    /\ idle = [i \in 1..PoolSize |-> "none"] /\ refused = 0
    /\ rpc = [r \in Requests |-> "off"]
    /\ endpoint \in [Requests -> Endpoints]
    /\ asked = [r \in Requests |-> <<1, 1>>]
    /\ counted = [r \in Requests |-> 0] /\ shown = [r \in Requests |-> 0]
    /\ todo = [r \in Requests |-> 0] /\ left = [r \in Requests |-> 0]
    /\ slot = [r \in Requests |-> ""] /\ timer = [r \in Requests |-> 0]

\* A request arrives that passes the validation of its parameters.
Begin(r) ==
    /\ rpc[r] \in {"off", "done"}
    /\ \E e \in Endpoints :
        /\ e.cached > 0 \/ e.plain > 0
        /\ endpoint' = [endpoint EXCEPT ![r] = e]
        /\ left' = [left EXCEPT ![r] = e.plain]
        /\ Goto(r, IF e.cached > 0 THEN "lookup" ELSE "borrow")
    /\ counted' = [counted EXCEPT ![r] = 0] /\ shown' = [shown EXCEPT ![r] = 0]
    /\ UNCHANGED todo
    /\ asked' = [asked EXCEPT ![r] = <<1, 1>>]
    /\ UNCHANGED <<cacheVars, poolVars>>

\* The request ends with an error (500, or 502 from search and export).
Error(r) ==
    /\ Goto(r, "off")
    /\ counted' = [counted EXCEPT ![r] = 0] /\ shown' = [shown EXCEPT ![r] = 0]
    /\ todo' = [todo EXCEPT ![r] = 0] /\ left' = [left EXCEPT ![r] = 0]

\* get_or_set finds a value that has not expired.
Hit(r) ==
    /\ rpc[r] = "lookup" /\ cache[endpoint[r]].ttl > 0
    /\ counted' = [counted EXCEPT ![r] = cache[endpoint[r]].version]
    /\ Goto(r, IF left[r] = 0 THEN "done" ELSE "page")
    /\ UNCHANGED <<cacheVars, poolVars, requestVars, todo, shown, left>>

\* It does not, and leaves the lock to compute the value.
Miss(r) ==
    /\ rpc[r] = "lookup" /\ cache[endpoint[r]].ttl = 0
    /\ todo' = [todo EXCEPT ![r] = endpoint[r].cached]
    /\ Goto(r, "borrow")
    /\ UNCHANGED <<cacheVars, poolVars, requestVars, counted, shown, left>>

\* _pool.get
Borrow(r) ==
    /\ rpc[r] = "borrow" /\ idle # <<>>
    /\ slot' = [slot EXCEPT ![r] = Head(idle)] /\ idle' = Tail(idle)
    /\ Goto(r, IF Head(idle) = "none" THEN "connect" ELSE "check")
    /\ UNCHANGED <<cacheVars, refused, requestVars, resultVars>>

\* Variant: a timeout of _pool.get is followed by another _pool.get.
Bug_GetAgain(r) ==
    /\ rpc[r] = "borrow" /\ idle = <<>> /\ timer[r] >= PoolWait
    /\ Goto(r, "borrow") /\ UNCHANGED <<cacheVars, poolVars, requestVars, resultVars>>

\* No slot came back in time.
PoolTimeout(r) ==
    /\ rpc[r] = "borrow" /\ idle = <<>> /\ timer[r] >= PoolWait
    /\ Error(r) /\ UNCHANGED <<cacheVars, poolVars, requestVars>>

\* The connection answers the ping, or it is closed.
Check(r) ==
    /\ rpc[r] = "check"
    /\ \/ Goto(r, "query") /\ UNCHANGED slot
       \/ Goto(r, "connect") /\ slot' = [slot EXCEPT ![r] = "none"]
    /\ UNCHANGED <<cacheVars, idle, refused, requestVars, resultVars>>

Connect(r) ==
    /\ rpc[r] = "connect"
    /\ slot' = [slot EXCEPT ![r] = "conn"] /\ Goto(r, "query")
    /\ UNCHANGED <<cacheVars, idle, refused, requestVars, resultVars>>

\* Variant: the slot is put back by the failing login and again by __exit__.
Bug_PutTwice(r) ==
    /\ rpc[r] = "connect"
    /\ slot' = [slot EXCEPT ![r] = ""] /\ refused' = refused + 1
    /\ idle' = idle \o <<"none", "none">>
    /\ Error(r) /\ UNCHANGED <<cacheVars, requestVars>>

\* The login fails in __enter__: no __exit__ will put the slot back.
LoginFails(r) ==
    /\ rpc[r] = "connect"
    /\ slot' = [slot EXCEPT ![r] = ""] /\ refused' = refused + 1
    /\ Error(r) /\ UNCHANGED <<cacheVars, idle, requestVars>>

\* __exit__
PutBack(r) == slot' = [slot EXCEPT ![r] = ""] /\ idle' = Append(idle, slot[r])

\* The query sees the tables of now.
Query(r) ==
    /\ rpc[r] = "query" /\ PutBack(r)
    /\ IF Computing(r)
       THEN /\ counted' = [counted EXCEPT ![r] = IF @ = 0 THEN db ELSE @]
            /\ todo' = [todo EXCEPT ![r] = @ - 1]
            /\ Goto(r, "store") /\ UNCHANGED <<shown, left>>
       ELSE /\ shown' = [shown EXCEPT ![r] = db] /\ left' = [left EXCEPT ![r] = @ - 1]
            /\ Goto(r, Onward(left[r] - 1)) /\ UNCHANGED <<counted, todo>>
    /\ UNCHANGED <<cacheVars, refused, requestVars>>

\* Variant: the slot is put back only after a query that succeeded.
Bug_KeepSlot(r) ==
    /\ rpc[r] = "query" /\ slot' = [slot EXCEPT ![r] = ""]
    /\ Error(r) /\ UNCHANGED <<cacheVars, idle, refused, requestVars>>

QueryFails(r) ==
    /\ rpc[r] = "query" /\ PutBack(r)
    /\ Error(r) /\ UNCHANGED <<cacheVars, refused, requestVars>>

\* The value needs a further query.
NextQuery(r) ==
    /\ rpc[r] = "store" /\ todo[r] > 0
    /\ Goto(r, "borrow")
    /\ UNCHANGED <<cacheVars, poolVars, requestVars, resultVars>>

\* The computed value replaces whatever another thread has stored since.
Store(r) ==
    /\ rpc[r] = "store" /\ todo[r] = 0
    /\ cache' = [cache EXCEPT ![endpoint[r]] = [version |-> counted[r], ttl |-> TTL]]
    /\ Goto(r, IF left[r] = 0 THEN "done" ELSE "page")
    /\ UNCHANGED <<db, age, poolVars, requestVars, resultVars>>

\* The page, as asked for, is cut to the pages there are.
Page(r) ==
    /\ rpc[r] = "page"
    /\ \E page \in Pages, size \in PageSizes :
        asked' = [asked EXCEPT ![r] = <<PageShown(Totals[counted[r]], page, size), size>>]
    /\ Goto(r, "borrow")
    /\ UNCHANGED <<cacheVars, poolVars, endpoint, resultVars>>

\* A dbt run replaces the tables.
Refresh ==
    /\ db < Len(Totals) /\ db' = db + 1
    /\ UNCHANGED <<age, cache, poolVars, rpc, requestVars, resultVars, timer>>

Tick ==
    /\ \A r \in Requests : rpc[r] \in DOMAIN Bound => timer[r] < Bound[rpc[r]]
    /\ timer' = [r \in Requests |-> IF rpc[r] \in DOMAIN Bound THEN timer[r] + 1 ELSE 0]
    /\ age' = [v \in Versions |-> IF v < db /\ age[v] < Old THEN age[v] + 1 ELSE age[v]]
    /\ cache' = [e \in Cached |->
                    [cache[e] EXCEPT !.ttl = IF @ = 0 THEN 0 ELSE @ - 1]]
    /\ UNCHANGED <<db, poolVars, rpc, requestVars, resultVars>>

RequestStep(r) ==
    \/ Hit(r) \/ Miss(r) \/ Borrow(r) \/ PoolTimeout(r) \/ Check(r) \/ Connect(r)
    \/ LoginFails(r) \/ Query(r) \/ QueryFails(r) \/ NextQuery(r) \/ Store(r) \/ Page(r)

Next ==
    \/ \E r \in Requests : Begin(r) \/ RequestStep(r)
    \/ Refresh \/ Tick

Spec == Init /\ [][Next]_vars

\* Threads run and time passes; that a request arrives or dbt runs is not assumed.
Fairness == WF_vars(Tick) /\ \A r \in Requests : WF_vars(RequestStep(r))

FairSpec == Spec /\ Fairness

-----------------------------------------------------------------------------
(* Properties *)

TypeOK ==
    /\ db \in Versions /\ age \in [Versions -> 0..Old]
    /\ cache \in [Cached -> [version : Versions, ttl : 0..TTL]]
    /\ idle \in Seq({"none", "conn"}) /\ Len(idle) <= PoolSize
    /\ refused \in Nat
    /\ rpc \in [Requests -> RequestPCs]
    /\ endpoint \in [Requests -> Endpoints]
    /\ \A r \in Requests : asked[r][1] \in Nat /\ asked[r][2] \in Nat
    /\ counted \in [Requests -> 0..db] /\ shown \in [Requests -> 0..db]
    /\ todo \in [Requests -> 0..MaxQueries] /\ left \in [Requests -> Nat]
    /\ slot \in [Requests -> {"", "none", "conn"}] /\ timer \in [Requests -> Nat]

(* What a cache serves was true of the tables, every part of it, less than   *)
(* the TTL and the time of its queries ago, although values are computed     *)
(* outside the lock, a slow thread may overwrite a newer value with an older *)
(* one and a new TTL, and a value of several queries waits for a slot before *)
(* each of them (TTLCache.get_or_set, analytics_summary).                    *)
FreshEnough ==
    \A e \in Cached : cache[e].ttl > 0 => age[cache[e].version] < TTL + Lag(e)

(* Every slot is in the pool, with one request, or was lost to a failed      *)
(* login: errors of queries, dead connections and timeouts lose none, and    *)
(* put never finds the queue full (PooledConnection).                        *)
SlotsAccounted == Len(idle) + Cardinality({r \in Requests : slot[r] # ""}) + refused = PoolSize

(* A page cut with a cached total and filled by a later query fits together  *)
(* unless dbt replaced the tables in between: it is full if there is a next  *)
(* one, ends with the last row if there is none, and is empty only if        *)
(* nothing matches (search, 357-403).                                        *)
PagesAgree ==
    \A r \in Requests :
        rpc[r] = "done" /\ endpoint[r].cached > 0 /\ shown[r] # 0 /\ shown[r] = counted[r] =>
            LET total == Totals[shown[r]]
                page  == asked[r][1]
                size  == asked[r][2]
                to    == page * size
            IN  IF HasNext(total, page, size) THEN to < total
                ELSE to >= total /\ (total > 0 => to - size < total)

(* Every request is answered, with an error at worst, even when all slots of *)
(* the pool are lost and when requests keep competing for the last one.      *)
EveryRequestAnswered ==
    \A r \in Requests : (rpc[r] \notin {"off", "done"}) ~> (rpc[r] \in {"off", "done"})

(* "Uses a fixed-size pool of connections" (snowflake_client.py:3), each     *)
(* returned "to the pool on exit" (50): no slot ever goes missing.           *)
PoolStaysWhole == Len(idle) + Cardinality({r \in Requests : slot[r] # ""}) = PoolSize

=============================================================================
