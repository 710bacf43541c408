----------------------------- MODULE PagingProofs -----------------------------
(***************************************************************************)
(* Proofs about SearchApi, on top of SearchApiProofs: every variable keeps *)
(* its type, and the pages that the search endpoint cuts with a cached     *)
(* total fit the rows they are filled with, for any totals, pages and page *)
(* sizes.                                                                  *)
(***************************************************************************)
EXTENDS SearchApiProofs

-----------------------------------------------------------------------------
(* Pages: the arithmetic of search *)

LEMMA Divided ==
    ASSUME NEW n \in Nat, NEW size \in Nat \ {0}
    PROVE  /\ n \div size \in Nat
           /\ size * (n \div size) <= n
           /\ n < size * (n \div size) + size
OBVIOUS

LEMMA LastPage ==
    ASSUME NEW total \in Nat, NEW size \in Nat \ {0}
    PROVE  /\ TotalPages(total, size) \in Nat \ {0}
           /\ size * TotalPages(total, size) >= total
           /\ total > 0 => size * TotalPages(total, size) < total + size
           /\ total = 0 => TotalPages(total, size) = 1
<1> DEFINE full == (total + size - 1) \div size
<1>1. total + size - 1 \in Nat
  OBVIOUS
<1>2. full \in Nat /\ size * full <= total + size - 1 /\ total + size - 1 < size * full + size
  BY <1>1, Divided
<1>3. TotalPages(total, size) = IF full = 0 THEN 1 ELSE full
  BY DEF TotalPages
<1> HIDE DEF full
<1>4. CASE full = 0
  <2>1. total = 0
    BY <1>2, <1>4
  <2> QED
    BY <1>3, <1>4, <2>1
<1>5. CASE full # 0
  <2>1. total = 0 => full = 1
    <3> SUFFICES ASSUME total = 0, full >= 2 PROVE FALSE
      BY <1>2, <1>5
    <3>1. size * full >= size * 2
      BY <1>2
    <3> QED
      BY <1>2, <3>1
  <2>2. size * full \in Nat
    BY <1>2
  <2> QED
    BY <1>2, <1>3, <1>5, <2>1, <2>2
<1> QED
  BY <1>4, <1>5

LEMMA PageShownTyped ==
    ASSUME NEW total \in Nat, NEW page \in Nat \ {0}, NEW size \in Nat \ {0}
    PROVE  /\ PageShown(total, page, size) \in Nat \ {0}
           /\ PageShown(total, page, size) <= TotalPages(total, size)
<1>1. TotalPages(total, size) \in Nat \ {0}
  BY LastPage
<1> QED
  BY <1>1 DEF PageShown

\* A page that was cut fits the rows, and cutting it again changes nothing.
LEMMA CutFits ==
    ASSUME NEW total \in Nat, NEW page \in Nat \ {0}, NEW size \in Nat \ {0},
           page <= TotalPages(total, size)
    PROVE  IF HasNext(total, page, size) THEN page * size < total
           ELSE page * size >= total /\ (total > 0 => page * size - size < total)
<1> DEFINE last == TotalPages(total, size)
<1>1. /\ last \in Nat \ {0} /\ size * last >= total
      /\ total > 0 => size * last < total + size
      /\ total = 0 => last = 1
  BY LastPage
<1>2. HasNext(total, page, size) <=> page < last
  BY <1>1 DEF HasNext, PageShown
<1> HIDE DEF last
<1>3. page * size \in Nat /\ size * last \in Nat /\ page * size = size * page
  BY <1>1
<1>4. CASE page < last
  <2>1. total > 0
    BY <1>1, <1>4
  <2>2. size * (page + 1) <= size * last
    BY <1>1, <1>4
  <2>3. size * (page + 1) = page * size + size
    OBVIOUS
  <2>4. page * size < total
    BY <1>1, <1>3, <2>1, <2>2, <2>3
  <2> QED
    BY <1>2, <1>4, <2>4
<1>5. CASE ~ (page < last)
  <2>1. page = last
    BY <1>1, <1>5 DEF last
  <2>2. page * size >= total /\ (total > 0 => page * size - size < total)
    BY <1>1, <1>3, <2>1
  <2> QED
    BY <1>2, <1>5, <2>2
<1> QED
  BY <1>4, <1>5

-----------------------------------------------------------------------------
(* What a request knows at each of its steps *)

Querying == {"borrow", "check", "connect", "query"}

\* The values of one request, and the version of the tables.
RowTyped(e, a, c, s, n, version) ==
    /\ e \in Endpoints /\ a \in (Nat \ {0}) \X (Nat \ {0})
    /\ c \in 0..version /\ s \in 0..version /\ n \in Nat

\* Where a request stands tells what it has and what is left for it to do.
RowSteps(pc, e, c, s, n, d) ==
    /\ pc = "lookup" => e.cached > 0 /\ c = 0
    /\ pc \in {"store", "page"} => e.cached > 0 /\ c # 0
    /\ pc = "page" => n > 0
    /\ pc \in Querying => d > 0 \/ n > 0
    /\ pc \in {"lookup", "store", "page"} => s = 0
    /\ d > 0 => e.cached > 0 /\ s = 0

\* Before its rows are queried the page is cut to the pages of the cached total.
RowCut(pc, e, a, c, s, d) ==
    e.cached > 0 /\ c # 0 /\ d = 0 /\ (pc \in Querying \/ s # 0) =>
        a[1] <= TotalPages(Totals[c], a[2])

Rows ==
    \A r \in Requests :
        /\ RowTyped(endpoint[r], asked[r], counted[r], shown[r], left[r], db)
        /\ RowSteps(rpc[r], endpoint[r], counted[r], shown[r], left[r], todo[r])
        /\ RowCut(rpc[r], endpoint[r], asked[r], counted[r], shown[r], todo[r])

TypedResults ==
    /\ asked \in [Requests -> (Nat \ {0}) \X (Nat \ {0})]
    /\ shown \in [Requests -> Nat] /\ left \in [Requests -> Nat]

\* The caches know no version that is still to come, and no entry outlives its TTL.
KnownVersions ==
    /\ \A e \in Cached : cache[e].version \in 1..db /\ cache[e].ttl <= TTL
    /\ \A v \in Versions : age[v] <= Old

Paging == Inv /\ TypedResults /\ KnownVersions /\ Rows

LEMMA OldTyped == Old \in Nat
<1> DEFINE k == MaxQueries
           n == Round
<1>1. k \in Nat /\ n \in Nat /\ Old = TTL + QueryTime + k * n
  BY EndpointsAssumption, Times DEF Old
<1> HIDE DEF k, n
<1>2. k * n \in Nat
  BY <1>1
<1> QED
  BY <1>1, <1>2, Times

LEMMA TotalOf ==
    ASSUME TypedTables
    PROVE  db \in Nat \ {0} /\ \A v \in 1..db : v \in Versions /\ Totals[v] \in Nat
<1>1. Versions = 1..Len(Totals) /\ Len(Totals) \in Nat /\ \A v \in Versions : Totals[v] \in Nat
  BY TotalsAssumption, LenProperties, ElementOfSeq DEF Versions
<1> QED
  BY <1>1 DEF TypedTables

-----------------------------------------------------------------------------
(* What a step does to the values of its request *)

BecomesRow(r, pc, e, a, c, s, n, d) ==
    /\ rpc'[r] = pc /\ endpoint'[r] = e /\ asked'[r] = a
    /\ counted'[r] = c /\ shown'[r] = s /\ left'[r] = n /\ todo'[r] = d
    /\ \A q \in Requests \ {r} :
        /\ rpc'[q] = rpc[q] /\ endpoint'[q] = endpoint[q] /\ asked'[q] = asked[q]
        /\ counted'[q] = counted[q] /\ shown'[q] = shown[q] /\ left'[q] = left[q]
        /\ todo'[q] = todo[q]

\* Steps that change no more than some of the values of one request.
LEMMA Entry ==
    ASSUME NEW S, NEW f \in [Requests -> S], NEW g, NEW r \in Requests, NEW x \in S,
           g = [f EXCEPT ![r] = x]
    PROVE  /\ g \in [Requests -> S] /\ g[r] = x
           /\ \A q \in Requests \ {r} : g[q] = f[q]
OBVIOUS

LEMMA BecomesOne ==
    ASSUME TypedRequests, TypedResults, NEW r \in Requests, NEW pc \in RequestPCs, Goto(r, pc),
           NEW e \in Endpoints, NEW a \in (Nat \ {0}) \X (Nat \ {0}),
           NEW c \in Nat, NEW s \in Nat, NEW n \in Nat, NEW d \in Nat,
           endpoint' = [endpoint EXCEPT ![r] = e] \/ (endpoint' = endpoint /\ e = endpoint[r]),
           asked' = [asked EXCEPT ![r] = a] \/ (asked' = asked /\ a = asked[r]),
           counted' = [counted EXCEPT ![r] = c] \/ (counted' = counted /\ c = counted[r]),
           shown' = [shown EXCEPT ![r] = s] \/ (shown' = shown /\ s = shown[r]),
           left' = [left EXCEPT ![r] = n] \/ (left' = left /\ n = left[r]),
           todo' = [todo EXCEPT ![r] = d] \/ (todo' = todo /\ d = todo[r])
    PROVE  TypedResults' /\ BecomesRow(r, pc, e, a, c, s, n, d)
<1>1. rpc'[r] = pc /\ \A q \in Requests \ {r} : rpc'[q] = rpc[q]
  BY GotoTyped
<1>2. endpoint'[r] = e /\ \A q \in Requests \ {r} : endpoint'[q] = endpoint[q]
  <2>1. endpoint \in [Requests -> Endpoints]
    BY DEF TypedRequests
  <2> QED
    BY <2>1
<1>3. /\ asked' \in [Requests -> (Nat \ {0}) \X (Nat \ {0})]
      /\ asked'[r] = a /\ \A q \in Requests \ {r} : asked'[q] = asked[q]
  <2>1. asked \in [Requests -> (Nat \ {0}) \X (Nat \ {0})]
    BY DEF TypedResults
  <2>2. CASE asked' = asked
    BY <2>1, <2>2, Zenon
  <2>3. CASE asked' = [asked EXCEPT ![r] = a]
    BY <2>1, <2>3, Entry, Zenon
  <2> QED
    BY <2>2, <2>3
<1>4. counted'[r] = c /\ \A q \in Requests \ {r} : counted'[q] = counted[q]
  <2>1. counted \in [Requests -> Nat]
    BY DEF TypedRequests
  <2> QED
    BY <2>1
<1>5. /\ shown' \in [Requests -> Nat]
      /\ shown'[r] = s /\ \A q \in Requests \ {r} : shown'[q] = shown[q]
  <2>1. shown \in [Requests -> Nat]
    BY DEF TypedResults
  <2> QED
    BY <2>1
<1>6. /\ left' \in [Requests -> Nat]
      /\ left'[r] = n /\ \A q \in Requests \ {r} : left'[q] = left[q]
  <2>1. left \in [Requests -> Nat]
    BY DEF TypedResults
  <2> QED
    BY <2>1
<1>7. todo'[r] = d /\ \A q \in Requests \ {r} : todo'[q] = todo[q]
  <2>1. todo \in [Requests -> Nat]
    BY DEF TypedRequests
  <2> QED
    BY <2>1
<1> QED
  BY <1>1, <1>2, <1>3, <1>4, <1>5, <1>6, <1>7 DEF BecomesRow, TypedResults

LEMMA RowsAfter ==
    ASSUME Rows, TypedTables, NEW r \in Requests, NEW pc, NEW e, NEW a, NEW c, NEW s, NEW n, NEW d,
           db' = db,
           BecomesRow(r, pc, e, a, c, s, n, d),
           RowTyped(e, a, c, s, n, db), RowSteps(pc, e, c, s, n, d), RowCut(pc, e, a, c, s, d)
    PROVE  Rows'
<1> SUFFICES ASSUME NEW q \in Requests
             PROVE  /\ RowTyped(endpoint'[q], asked'[q], counted'[q], shown'[q], left'[q], db')
                    /\ RowSteps(rpc'[q], endpoint'[q], counted'[q], shown'[q], left'[q], todo'[q])
                    /\ RowCut(rpc'[q], endpoint'[q], asked'[q], counted'[q], shown'[q], todo'[q])
  BY DEF Rows, RowTyped, RowSteps, RowCut
<1>1. CASE q = r
  BY <1>1, Zenon DEF BecomesRow
<1>2. CASE q # r
  BY <1>2, Zenon DEF BecomesRow, Rows
<1> QED
  BY <1>1, <1>2


\* A step of one request: typed values that fit where it then stands keep the rows sound.
LEMMA RequestStepRows ==
    ASSUME Paging, NEW r \in Requests, NEW pc \in RequestPCs, Goto(r, pc), db' = db,
           NEW e \in Endpoints, NEW a \in (Nat \ {0}) \X (Nat \ {0}),
           NEW c \in 0..db, NEW s \in 0..db, NEW n \in Nat, NEW d \in Nat,
           endpoint' = [endpoint EXCEPT ![r] = e] \/ (endpoint' = endpoint /\ e = endpoint[r]),
           asked' = [asked EXCEPT ![r] = a] \/ (asked' = asked /\ a = asked[r]),
           counted' = [counted EXCEPT ![r] = c] \/ (counted' = counted /\ c = counted[r]),
           shown' = [shown EXCEPT ![r] = s] \/ (shown' = shown /\ s = shown[r]),
           left' = [left EXCEPT ![r] = n] \/ (left' = left /\ n = left[r]),
           todo' = [todo EXCEPT ![r] = d] \/ (todo' = todo /\ d = todo[r]),
           RowSteps(pc, e, c, s, n, d), RowCut(pc, e, a, c, s, d)
    PROVE  TypedResults' /\ Rows'
<1>1. TypedRequests /\ TypedTables /\ TypedResults /\ Rows
  BY DEF Paging, Inv
<1>2. c \in Nat /\ s \in Nat
  BY <1>1, TotalOf
<1>3. RowTyped(e, a, c, s, n, db)
  BY DEF RowTyped
<1>4. TypedResults' /\ BecomesRow(r, pc, e, a, c, s, n, d)
  BY <1>1, <1>2, BecomesOne
<1>5. Rows'
  BY <1>1, <1>3, <1>4, RowsAfter
<1> QED
  BY <1>4, <1>5

LEMMA RowOf ==
    ASSUME Paging, NEW r \in Requests
    PROVE  /\ endpoint[r] \in Endpoints /\ asked[r] \in (Nat \ {0}) \X (Nat \ {0})
           /\ counted[r] \in 0..db /\ shown[r] \in 0..db /\ left[r] \in Nat
           /\ endpoint[r].cached \in Nat /\ todo[r] \in Nat
           /\ Sound(rpc[r], endpoint[r], counted[r], todo[r])
           /\ RowSteps(rpc[r], endpoint[r], counted[r], shown[r], left[r], todo[r])
           /\ RowCut(rpc[r], endpoint[r], asked[r], counted[r], shown[r], todo[r])
<1>1. /\ RowTyped(endpoint[r], asked[r], counted[r], shown[r], left[r], db)
      /\ RowSteps(rpc[r], endpoint[r], counted[r], shown[r], left[r], todo[r])
      /\ RowCut(rpc[r], endpoint[r], asked[r], counted[r], shown[r], todo[r])
  BY DEF Paging, Rows
<1>2. /\ endpoint[r].cached \in Nat /\ todo[r] \in Nat
      /\ Sound(rpc[r], endpoint[r], counted[r], todo[r])
  BY RequestOf DEF Paging, Inv
<1> QED
  BY <1>1, <1>2 DEF RowTyped

LEMMA BeginRows == ASSUME Paging, NEW r \in Requests, Begin(r) PROVE TypedResults' /\ Rows'
<1>1. PICK e \in Endpoints :
          /\ e.cached > 0 \/ e.plain > 0
          /\ endpoint' = [endpoint EXCEPT ![r] = e]
          /\ left' = [left EXCEPT ![r] = e.plain]
          /\ Goto(r, IF e.cached > 0 THEN "lookup" ELSE "borrow")
  BY DEF Begin
<1>2. /\ counted' = [counted EXCEPT ![r] = 0] /\ shown' = [shown EXCEPT ![r] = 0]
      /\ asked' = [asked EXCEPT ![r] = <<1, 1>>] /\ db' = db
  BY DEF Begin, cacheVars
<1>3. todo' = todo /\ 0 = todo[r]
  BY RowOf DEF Begin, Sound
<1> DEFINE pc == IF e.cached > 0 THEN "lookup" ELSE "borrow"
           a  == <<1, 1>>
           n  == e.plain
<1>4. n \in Nat /\ 0 \in 0..db /\ 0 \in Nat /\ a \in (Nat \ {0}) \X (Nat \ {0})
  BY EndpointsAssumption, TotalOf DEF Paging, Inv
<1>5. pc \in RequestPCs /\ RowSteps(pc, e, 0, 0, n, 0) /\ RowCut(pc, e, a, 0, 0, 0)
  BY <1>1 DEF RequestPCs, RowSteps, RowCut, Querying
<1>6. Goto(r, pc) /\ left' = [left EXCEPT ![r] = n] /\ asked' = [asked EXCEPT ![r] = a]
  BY <1>1, <1>2
<1> HIDE DEF pc, a, n
<1> QED
  BY <1>1, <1>2, <1>3, <1>4, <1>5, <1>6, RequestStepRows, Zenon

LEMMA ErrorRows ==
    ASSUME Paging, NEW r \in Requests, Error(r), endpoint' = endpoint, asked' = asked, db' = db
    PROVE  TypedResults' /\ Rows'
<1>1. /\ Goto(r, "off") /\ counted' = [counted EXCEPT ![r] = 0]
      /\ shown' = [shown EXCEPT ![r] = 0] /\ left' = [left EXCEPT ![r] = 0]
      /\ todo' = [todo EXCEPT ![r] = 0]
  BY DEF Error
<1>2. 0 \in 0..db /\ "off" \in RequestPCs
  BY TotalOf DEF Paging, Inv, RequestPCs
<1>3. RowSteps("off", endpoint[r], 0, 0, 0, 0) /\ RowCut("off", endpoint[r], asked[r], 0, 0, 0)
  BY DEF RowSteps, RowCut, Querying
<1> QED
  BY <1>1, <1>2, <1>3, RowOf, RequestStepRows

LEMMA HitRows == ASSUME Paging, NEW r \in Requests, Hit(r) PROVE TypedResults' /\ Rows'
<1> DEFINE c  == cache[endpoint[r]].version
           pc == IF left[r] = 0 THEN "done" ELSE "page"
<1>1. /\ rpc[r] = "lookup" /\ counted' = [counted EXCEPT ![r] = c] /\ Goto(r, pc)
      /\ endpoint' = endpoint /\ asked' = asked /\ shown' = shown /\ left' = left /\ db' = db
      /\ todo' = todo
  BY DEF Hit, requestVars, cacheVars
<1>2. c \in 0..db /\ c # 0
  <2>1. endpoint[r] \in Cached
    BY <1>1, RowOf DEF Sound
  <2> QED
    BY <2>1, TotalOf DEF Paging, Inv, KnownVersions
<1>3. endpoint[r].cached > 0 /\ shown[r] = 0 /\ left[r] \in Nat /\ todo[r] = 0
  BY <1>1, RowOf DEF RowSteps, Sound
<1> HIDE DEF c
<1>4. pc \in RequestPCs /\ RowSteps(pc, endpoint[r], c, shown[r], left[r], todo[r])
      /\ RowCut(pc, endpoint[r], asked[r], c, shown[r], todo[r])
  BY <1>2, <1>3 DEF RequestPCs, RowSteps, RowCut, Querying
<1> HIDE DEF pc
<1> QED
  BY <1>1, <1>2, <1>4, RowOf, RequestStepRows

LEMMA StoreRows == ASSUME Paging, NEW r \in Requests, Store(r) PROVE TypedResults' /\ Rows'
<1> DEFINE pc == IF left[r] = 0 THEN "done" ELSE "page"
<1>1. /\ rpc[r] = "store" /\ Goto(r, pc) /\ counted' = counted
      /\ endpoint' = endpoint /\ asked' = asked /\ shown' = shown /\ left' = left /\ db' = db
      /\ todo' = todo /\ todo[r] = 0
  BY DEF Store, requestVars, resultVars
<1>2. endpoint[r].cached > 0 /\ counted[r] # 0 /\ shown[r] = 0 /\ left[r] \in Nat
  BY <1>1, RowOf DEF RowSteps
<1>3. pc \in RequestPCs /\ RowSteps(pc, endpoint[r], counted[r], shown[r], left[r], todo[r])
      /\ RowCut(pc, endpoint[r], asked[r], counted[r], shown[r], todo[r])
  BY <1>1, <1>2 DEF RequestPCs, RowSteps, RowCut, Querying
<1> HIDE DEF pc
<1> QED
  BY <1>1, <1>3, RowOf, RequestStepRows

\* The value is not there: all its queries are to be made.
LEMMA MissRows == ASSUME Paging, NEW r \in Requests, Miss(r) PROVE TypedResults' /\ Rows'
<1>1. /\ rpc[r] = "lookup" /\ Goto(r, "borrow")
      /\ todo' = [todo EXCEPT ![r] = endpoint[r].cached]
      /\ counted' = counted /\ endpoint' = endpoint /\ asked' = asked /\ shown' = shown
      /\ left' = left /\ db' = db
  BY DEF Miss, requestVars, cacheVars
<1>2. endpoint[r].cached > 0 /\ counted[r] = 0 /\ shown[r] = 0
  BY <1>1, RowOf DEF RowSteps, Sound
<1> DEFINE d == endpoint[r].cached
<1>3. /\ "borrow" \in RequestPCs /\ d \in Nat
      /\ RowSteps("borrow", endpoint[r], counted[r], shown[r], left[r], d)
      /\ RowCut("borrow", endpoint[r], asked[r], counted[r], shown[r], d)
  BY <1>2, RowOf DEF RequestPCs, RowSteps, RowCut, Querying
<1>4. todo' = [todo EXCEPT ![r] = d]
  BY <1>1
<1> HIDE DEF d
<1> QED
  BY <1>1, <1>3, <1>4, RowOf, RequestStepRows, Zenon

\* A slot moves the request on, or it needs one for its next query: only its place changes.
LEMMA MoveRows ==
    ASSUME Paging, NEW r \in Requests,
           Borrow(r) \/ Check(r) \/ Connect(r) \/ NextQuery(r)
    PROVE  TypedResults' /\ Rows'
<1>1. PICK pc \in Querying : Goto(r, pc)
  BY DEF Borrow, Check, Connect, NextQuery, Querying
<1>2. /\ counted' = counted /\ endpoint' = endpoint /\ asked' = asked /\ shown' = shown
      /\ left' = left /\ todo' = todo /\ db' = db
  BY DEF Borrow, Check, Connect, NextQuery, requestVars, resultVars, cacheVars
<1>3. todo[r] > 0 \/ rpc[r] \in Querying
  BY DEF Borrow, Check, Connect, NextQuery, Querying
<1>4. pc \in RequestPCs
  BY DEF Querying, RequestPCs
<1>5. RowSteps(pc, endpoint[r], counted[r], shown[r], left[r], todo[r])
      /\ RowCut(pc, endpoint[r], asked[r], counted[r], shown[r], todo[r])
  BY <1>3, RowOf DEF RowSteps, RowCut, Querying
<1> QED
  BY <1>1, <1>2, <1>4, <1>5, RowOf, RequestStepRows

LEMMA QueryRows == ASSUME Paging, NEW r \in Requests, Query(r) PROVE TypedResults' /\ Rows'
<1>1. rpc[r] = "query" /\ endpoint' = endpoint /\ asked' = asked /\ db' = db
  BY DEF Query, requestVars, cacheVars
<1>2. db \in 0..db /\ db # 0
  BY TotalOf DEF Paging, Inv
<1>3. CASE Computing(r)
  <2> DEFINE d == todo[r] - 1
  <2>1. /\ counted' = [counted EXCEPT ![r] = Oldest(r)] /\ todo' = [todo EXCEPT ![r] = d]
        /\ Goto(r, "store") /\ shown' = shown /\ left' = left
    BY <1>3 DEF Query, Oldest
  <2>2. endpoint[r].cached > 0 /\ shown[r] = 0 /\ d \in Nat
    BY <1>3, RowOf DEF Computing, RowSteps
  <2>3. Oldest(r) \in 0..db /\ Oldest(r) # 0
    BY <1>2, RowOf DEF Oldest
  <2> HIDE DEF d
  <2>4. /\ "store" \in RequestPCs
        /\ RowSteps("store", endpoint[r], Oldest(r), shown[r], left[r], d)
        /\ RowCut("store", endpoint[r], asked[r], Oldest(r), shown[r], d)
    BY <2>2, <2>3 DEF RequestPCs, RowSteps, RowCut, Querying
  <2> QED
    BY <1>1, <2>1, <2>2, <2>3, <2>4, RowOf, RequestStepRows
<1>4. CASE ~ Computing(r)
  <2> DEFINE n == left[r] - 1
             pc == Onward(n)
  <2>1. shown' = [shown EXCEPT ![r] = db] /\ left' = [left EXCEPT ![r] = n] /\ Goto(r, pc)
        /\ counted' = counted /\ todo' = todo
    BY <1>4 DEF Query
  <2>2. todo[r] = 0 /\ n \in Nat
    BY <1>1, <1>4, RowOf DEF Computing, RowSteps, Querying
  <2> HIDE DEF n
  <2>3. pc \in RequestPCs /\ RowSteps(pc, endpoint[r], counted[r], db, n, todo[r])
    BY <1>2, <2>2 DEF Onward, RequestPCs, RowSteps, Querying
  <2>4. RowCut(pc, endpoint[r], asked[r], counted[r], db, todo[r])
    BY <1>1, RowOf DEF RowCut, Querying
  <2> HIDE DEF pc
  <2> QED
    BY <1>1, <1>2, <2>1, <2>2, <2>3, <2>4, RowOf, RequestStepRows
<1> QED
  BY <1>3, <1>4

LEMMA PageRows == ASSUME Paging, NEW r \in Requests, Page(r) PROVE TypedResults' /\ Rows'
<1>1. PICK page \in Pages, size \in PageSizes :
          asked' = [asked EXCEPT ![r] = <<PageShown(Totals[counted[r]], page, size), size>>]
  BY DEF Page
<1>2. /\ rpc[r] = "page" /\ Goto(r, "borrow") /\ endpoint' = endpoint /\ counted' = counted
      /\ shown' = shown /\ left' = left /\ todo' = todo /\ db' = db
  BY DEF Page, resultVars, cacheVars
<1>3. endpoint[r].cached > 0 /\ counted[r] # 0 /\ left[r] > 0 /\ shown[r] = 0 /\ todo[r] = 0
  BY <1>2, RowOf DEF RowSteps, Sound
<1>4. counted[r] \in 1..db
  BY <1>3, RowOf, TotalOf DEF Paging, Inv
<1> DEFINE p == PageShown(Totals[counted[r]], page, size)
<1>5. p \in Nat \ {0} /\ p <= TotalPages(Totals[counted[r]], size) /\ size \in Nat \ {0}
  <2>1. Totals[counted[r]] \in Nat
    BY <1>4, TotalOf DEF Paging, Inv
  <2>2. page \in Nat \ {0} /\ size \in Nat \ {0}
    BY PagesAssumption
  <2> QED
    BY <2>1, <2>2, PageShownTyped
<1> HIDE DEF p
<1>6. <<p, size>> \in (Nat \ {0}) \X (Nat \ {0}) /\ asked' = [asked EXCEPT ![r] = <<p, size>>]
  BY <1>1, <1>5 DEF p
<1>7. "borrow" \in RequestPCs /\ RowSteps("borrow", endpoint[r], counted[r], shown[r], left[r], todo[r])
  BY <1>3 DEF RequestPCs, RowSteps, Querying
<1>8. RowCut("borrow", endpoint[r], <<p, size>>, counted[r], shown[r], todo[r])
  BY <1>5 DEF RowCut
<1> QED
  BY <1>2, <1>6, <1>7, <1>8, RowOf, RequestStepRows


LEMMA RowsStep == Paging /\ [Next]_vars => TypedResults' /\ Rows'
<1> SUFFICES ASSUME Paging, [Next]_vars PROVE TypedResults' /\ Rows'
  OBVIOUS
<1>1. ASSUME NEW r \in Requests, PoolTimeout(r) \/ LoginFails(r) \/ QueryFails(r)
      PROVE  TypedResults' /\ Rows'
  <2>1. Error(r) /\ endpoint' = endpoint /\ asked' = asked /\ db' = db
    BY <1>1 DEF PoolTimeout, LoginFails, QueryFails, requestVars, cacheVars
  <2> QED
    BY <2>1, ErrorRows
<1>2. ASSUME db' \in Nat, db' >= db, UNCHANGED <<rpc, requestVars, resultVars>>
      PROVE  TypedResults' /\ Rows'
  <2>1. /\ rpc' = rpc /\ endpoint' = endpoint /\ asked' = asked /\ counted' = counted
        /\ shown' = shown /\ left' = left /\ todo' = todo
    BY <1>2 DEF requestVars, resultVars
  <2>2. TypedResults'
    BY <2>1 DEF Paging, TypedResults
  <2>3. \A r \in Requests : counted[r] \in 0..db' /\ shown[r] \in 0..db'
    BY <1>2, RowOf, TotalOf DEF Paging, Inv
  <2>4. \A r \in Requests : RowTyped(endpoint[r], asked[r], counted[r], shown[r], left[r], db')
    BY <2>3, RowOf DEF RowTyped
  <2>5. Rows'
    BY <2>1, <2>4 DEF Paging, Rows, RowTyped, RowSteps, RowCut
  <2> QED
    BY <2>2, <2>5
<1>3. ASSUME Refresh PROVE TypedResults' /\ Rows'
  BY <1>2, <1>3, TotalOf DEF Refresh, Paging, Inv
<1>4. ASSUME Tick PROVE TypedResults' /\ Rows'
  BY <1>2, <1>4, TotalOf DEF Tick, Paging, Inv
<1>5. ASSUME UNCHANGED vars PROVE TypedResults' /\ Rows'
  BY <1>2, <1>5, TotalOf DEF vars, cacheVars, Paging, Inv
<1> QED
  BY <1>1, <1>3, <1>4, <1>5, BeginRows, HitRows, StoreRows, MissRows, MoveRows, QueryRows, PageRows
  DEF Next, RequestStep

LEMMA KnownVersionsStep == Paging /\ [Next]_vars => KnownVersions'
<1> SUFFICES ASSUME Paging, [Next]_vars PROVE KnownVersions'
  OBVIOUS
<1>1. db \in Nat \ {0} /\ TypedTables /\ KnownVersions /\ TypedRequests
  BY TotalOf DEF Paging, Inv
<1>2. ASSUME NEW r \in Requests, Store(r) PROVE KnownVersions'
  <2>1. /\ cache' = [cache EXCEPT ![endpoint[r]] = [version |-> counted[r], ttl |-> TTL]]
        /\ db' = db /\ age' = age /\ rpc[r] = "store"
    BY <1>2 DEF Store
  <2>2. counted[r] \in 1..db /\ TTL \in Nat
    BY <1>1, <2>1, RowOf, TimeAssumption DEF RowSteps
  <2>3. ASSUME NEW e \in Cached PROVE cache'[e].version \in 1..db /\ cache'[e].ttl <= TTL
    <3>1. CASE e = endpoint[r]
      <4>1. cache'[e] = [version |-> counted[r], ttl |-> TTL]
        BY <1>1, <2>1, <3>1 DEF TypedTables
      <4> QED
        BY <2>2, <4>1
    <3>2. CASE e # endpoint[r]
      <4>1. cache'[e] = cache[e]
        BY <1>1, <2>1, <3>2 DEF TypedTables
      <4> QED
        BY <1>1, <4>1 DEF KnownVersions
    <3> QED
      BY <3>1, <3>2
  <2> QED
    BY <1>1, <2>1, <2>3 DEF KnownVersions, Versions
<1>3. ASSUME Tick PROVE KnownVersions'
  <2>1. /\ age' = [v \in Versions |-> IF v < db /\ age[v] < Old THEN age[v] + 1 ELSE age[v]]
        /\ cache' = [e \in Cached |->
                        [cache[e] EXCEPT !.ttl = IF @ = 0 THEN 0 ELSE @ - 1]]
        /\ db' = db
    BY <1>3 DEF Tick
  <2>2. ASSUME NEW v \in Versions PROVE age'[v] <= Old
    <3>1. age[v] \in Nat /\ age[v] <= Old /\ Old \in Nat
      BY <1>1, OldTyped DEF TypedTables, KnownVersions
    <3> QED
      BY <2>1, <3>1
  <2>3. ASSUME NEW e \in Cached PROVE cache'[e].version \in 1..db /\ cache'[e].ttl <= TTL
    <3>1. /\ cache[e] \in [version : Nat, ttl : Nat] /\ cache[e].version \in 1..db
          /\ cache[e].ttl <= TTL /\ TTL \in Nat
      BY <1>1, TimeAssumption DEF TypedTables, KnownVersions
    <3> DEFINE n == IF cache[e].ttl = 0 THEN 0 ELSE cache[e].ttl - 1
    <3>2. cache'[e] = [cache[e] EXCEPT !.ttl = n]
      BY <2>1
    <3>3. n <= TTL
      BY <3>1
    <3> HIDE DEF n
    <3> QED
      BY <3>1, <3>2, <3>3
  <2> QED
    BY <2>1, <2>2, <2>3 DEF KnownVersions, Versions
<1>4. ASSUME Refresh PROVE KnownVersions'
  <2>1. db' = db + 1 /\ age' = age /\ cache' = cache
    BY <1>4 DEF Refresh
  <2> QED
    BY <1>1, <2>1 DEF KnownVersions, Versions
<1>5. ASSUME UNCHANGED cacheVars PROVE KnownVersions'
  BY <1>1, <1>5 DEF cacheVars, KnownVersions, Versions
<1>6. CASE \E r \in Requests : Begin(r) \/ RequestStep(r)
  <2>1. PICK r \in Requests : Begin(r) \/ RequestStep(r)
    BY <1>6
  <2>2. CASE ~ Store(r)
    <3>1. UNCHANGED cacheVars
      BY <2>1, <2>2 DEF RequestStep, Begin, Hit, Miss, Borrow, PoolTimeout, Check, Connect,
                        LoginFails, Query, QueryFails, NextQuery, Page
    <3> QED
      BY <1>5, <3>1
  <2> QED
    BY <1>2, <2>2
<1>7. CASE UNCHANGED vars
  BY <1>5, <1>7 DEF vars
<1> QED
  BY <1>3, <1>4, <1>6, <1>7 DEF Next

LEMMA PagingInit == Init => TypedResults /\ KnownVersions /\ Rows
<1> SUFFICES ASSUME Init PROVE TypedResults /\ KnownVersions /\ Rows
  OBVIOUS
<1>1. /\ db = 1 /\ age = [v \in Versions |-> 0]
      /\ cache = [e \in Cached |-> [version |-> 1, ttl |-> 0]]
      /\ rpc = [r \in Requests |-> "off"] /\ endpoint \in [Requests -> Endpoints]
      /\ asked = [r \in Requests |-> <<1, 1>>] /\ counted = [r \in Requests |-> 0]
      /\ shown = [r \in Requests |-> 0] /\ left = [r \in Requests |-> 0]
      /\ todo = [r \in Requests |-> 0]
  BY Zenon DEF Init
<1>2. TypedResults
  BY <1>1 DEF TypedResults
<1>3. KnownVersions
  <2>1. Old \in Nat /\ TTL \in Nat
    BY OldTyped, TimeAssumption
  <2> QED
    BY <1>1, <2>1 DEF KnownVersions
<1>4. ASSUME NEW r \in Requests
      PROVE  /\ RowTyped(endpoint[r], asked[r], counted[r], shown[r], left[r], db)
             /\ RowSteps(rpc[r], endpoint[r], counted[r], shown[r], left[r], todo[r])
             /\ RowCut(rpc[r], endpoint[r], asked[r], counted[r], shown[r], todo[r])
  BY <1>1 DEF RowTyped, RowSteps, RowCut, Querying
<1> QED
  BY <1>2, <1>3, <1>4 DEF Rows

LEMMA PagingAlways == Spec => []Paging
<1>1. Init /\ Inv => Paging
  BY PagingInit DEF Paging
<1>2. Paging /\ Inv' /\ [Next]_vars => Paging'
  BY RowsStep, KnownVersionsStep DEF Paging
<1> QED
  BY <1>1, <1>2, InvAlways, PTL DEF Spec

-----------------------------------------------------------------------------
(* The theorems *)

(* A page cut with a cached total and filled by a later query fits together  *)
(* unless dbt replaced the tables in between, for any totals, pages and page *)
(* sizes (search, 357-403).                                                  *)
THEOREM PagesAlwaysAgree == Spec => []PagesAgree
<1>1. Paging => PagesAgree
  <2> SUFFICES ASSUME Paging, NEW r \in Requests, rpc[r] = "done", endpoint[r].cached > 0,
                      shown[r] # 0, shown[r] = counted[r]
               PROVE  LET total == Totals[shown[r]]
                          page  == asked[r][1]
                          size  == asked[r][2]
                          to    == page * size
                      IN  IF HasNext(total, page, size) THEN to < total
                          ELSE to >= total /\ (total > 0 => to - size < total)
    BY DEF PagesAgree
  <2>1. Totals[shown[r]] \in Nat
    <3>1. shown[r] \in 1..db
      BY RowOf, TotalOf DEF Paging, Inv
    <3> QED
      BY <3>1, TotalOf DEF Paging, Inv
  <2>2. asked[r][1] \in Nat \ {0} /\ asked[r][2] \in Nat \ {0}
    BY RowOf
  <2>3. asked[r][1] <= TotalPages(Totals[shown[r]], asked[r][2])
    BY RowOf DEF RowCut, Sound
  <2> QED
    BY <2>1, <2>2, <2>3, CutFits
<1> QED
  BY <1>1, PagingAlways, PTL

(* Every variable keeps its type: no version is known before it is there, no *)
(* request has a negative number of queries left, and the pool never holds   *)
(* more slots than it was made with.                                         *)
THEOREM SearchTypeCorrect == Spec => []TypeOK
<1>1. Paging => TypeOK
  <2> SUFFICES ASSUME Paging PROVE TypeOK
    OBVIOUS
  <2>1. TypedRequests /\ TypedTables /\ TypedPool /\ SlotsAccounted /\ TypedResults /\ KnownVersions
    BY DEF Paging, Inv
  <2>2. Len(idle) <= PoolSize
    <3>1. Len(idle) + Cardinality(Held) + refused = PoolSize
      BY <2>1, SlotsOfHeld
    <3>2. Len(idle) \in Nat
      <4>1. idle \in Seq({"none", "conn"})
        BY <2>1 DEF TypedPool
      <4> QED
        BY <4>1, LenProperties
    <3>3. refused \in Nat
      BY <2>1 DEF TypedPool
    <3> QED
      BY <3>1, <3>2, <3>3, HeldIsFinite, PoolAssumption
  <2>3. age \in [Versions -> 0..Old]
    <3>1. age \in [Versions -> Nat] /\ \A v \in Versions : age[v] <= Old
      BY <2>1 DEF TypedTables, KnownVersions
    <3>2. Old \in Nat
      BY OldTyped
    <3> QED
      BY <3>1, <3>2
  <2>4. cache \in [Cached -> [version : Versions, ttl : 0..TTL]]
    <3>1. cache \in [Cached -> [version : Nat, ttl : Nat]]
          /\ \A e \in Cached : cache[e].version \in 1..db /\ cache[e].ttl <= TTL
      BY <2>1 DEF TypedTables, KnownVersions
    <3>2. \A e \in Cached : cache[e].version \in Versions /\ cache[e].ttl \in 0..TTL
      BY <2>1, <3>1, TotalOf, TimeAssumption
    <3> QED
      BY <3>1, <3>2
  <2>5. \A r \in Requests : asked[r][1] \in Nat /\ asked[r][2] \in Nat
    BY RowOf
  <2>6. counted \in [Requests -> 0..db]
    <3>1. counted \in [Requests -> Nat] /\ \A r \in Requests : counted[r] \in 0..db
      BY <2>1, RowOf DEF TypedRequests
    <3> QED
      BY <3>1
  <2>7. shown \in [Requests -> 0..db]
    <3>1. shown \in [Requests -> Nat] /\ \A r \in Requests : shown[r] \in 0..db
      BY <2>1, RowOf DEF TypedResults
    <3> QED
      BY <3>1
  <2>8. /\ db \in Versions /\ rpc \in [Requests -> RequestPCs]
        /\ endpoint \in [Requests -> Endpoints] /\ timer \in [Requests -> Nat]
        /\ left \in [Requests -> Nat]
    BY <2>1 DEF TypedRequests, TypedTables, TypedResults
  <2>10. todo \in [Requests -> 0..MaxQueries]
    <3>1. ASSUME NEW r \in Requests PROVE todo[r] \in 0..MaxQueries
      <4>1. endpoint[r].cached <= MaxQueries /\ todo[r] <= endpoint[r].cached
        BY RowOf, QueriesOf DEF Sound
      <4> QED
        BY <4>1, RowOf, EndpointsAssumption
    <3> QED
      BY <2>1, <3>1 DEF TypedRequests
  <2>9. /\ idle \in Seq({"none", "conn"}) /\ refused \in Nat
        /\ slot \in [Requests -> {"", "none", "conn"}]
    BY <2>1, Zenon DEF TypedPool
  <2> QED
    BY <2>2, <2>3, <2>4, <2>5, <2>6, <2>7, <2>8, <2>9, <2>10, Zenon DEF TypeOK
<1> QED
  BY <1>1, PagingAlways, PTL

=============================================================================
