--------------------------- MODULE SearchPageProofs ----------------------------
(***************************************************************************)
(* Proofs about SearchPage, for any set of states, any number of requests  *)
(* on their way and of pages: table, buttons and districts belong together *)
(* unless requests overlapped.                                             *)
(***************************************************************************)
EXTENDS SearchPage, SequenceTheorems, TLAPS

-----------------------------------------------------------------------------
(* Requests on their way *)

\* What is left of a sequence without one of its elements.
LEMMA Removed ==
    ASSUME NEW S, NEW s \in Seq(S), NEW i \in DOMAIN s
    PROVE  /\ RemoveAt(s, i) \in Seq(S) /\ Len(RemoveAt(s, i)) = Len(s) - 1
           /\ s[i] \in S
<1>1. Len(s) \in Nat /\ i \in 1..Len(s) /\ s \in [1..Len(s) -> S]
  BY LenProperties
<1>2. SubSeq(s, 1, i - 1) \in Seq(S) /\ Len(SubSeq(s, 1, i - 1)) = i - 1
  <2>1. \A k \in 1..(i - 1) : s[k] \in S
    BY <1>1
  <2>2. 1 \in Int /\ i - 1 \in Int
    BY <1>1
  <2>3. /\ SubSeq(s, 1, i - 1) \in Seq(S)
        /\ Len(SubSeq(s, 1, i - 1)) = IF 1 <= i - 1 THEN (i - 1) - 1 + 1 ELSE 0
    BY <2>1, <2>2, SubSeqProperties
  <2> QED
    BY <2>3, <1>1
<1>3. SubSeq(s, i + 1, Len(s)) \in Seq(S) /\ Len(SubSeq(s, i + 1, Len(s))) = Len(s) - i
  <2>1. \A k \in (i + 1)..Len(s) : s[k] \in S
    BY <1>1
  <2>2. i + 1 \in Int /\ Len(s) \in Int
    BY <1>1
  <2>3. /\ SubSeq(s, i + 1, Len(s)) \in Seq(S)
        /\ Len(SubSeq(s, i + 1, Len(s))) = IF i + 1 <= Len(s) THEN Len(s) - (i + 1) + 1 ELSE 0
    BY <2>1, <2>2, SubSeqProperties
  <2> QED
    BY <2>3, <1>1
<1>4. /\ SubSeq(s, 1, i - 1) \o SubSeq(s, i + 1, Len(s)) \in Seq(S)
      /\ Len(SubSeq(s, 1, i - 1) \o SubSeq(s, i + 1, Len(s))) = (i - 1) + (Len(s) - i)
  BY <1>2, <1>3, ConcatProperties
<1>5. s[i] \in S
  BY <1>1
<1>6. RemoveAt(s, i) = SubSeq(s, 1, i - 1) \o SubSeq(s, i + 1, Len(s))
  BY DEF RemoveAt
<1>7. (i - 1) + (Len(s) - i) = Len(s) - 1
  BY <1>1
<1> QED
  BY <1>4, <1>5, <1>6, <1>7

\* What the pages of requests are, and those of the rows.
Requests(newest) == [newest : newest, page : Int]

PagesTyped ==
    /\ page \in Int /\ searches \in Seq(Requests(BOOLEAN))
    /\ rows \in [newest : BOOLEAN, page : Int, pages : Int]
    /\ table \in BOOLEAN /\ hasPrev \in BOOLEAN /\ hasNext \in BOOLEAN
    /\ overlapped \in BOOLEAN /\ drifted \in BOOLEAN /\ mixed \in BOOLEAN

LEMMA SentTyped ==
    ASSUME PagesTyped, page' \in Int
    PROVE  /\ Sent \in Seq(Requests(BOOLEAN))
           /\ searches = <<>> => Sent \in Seq(Requests({TRUE}))
<1> DEFINE old == [i \in DOMAIN searches |-> [searches[i] EXCEPT !.newest = FALSE]]
<1> DEFINE new == [newest |-> TRUE, page |-> page']
<1>1. Len(searches) \in Nat /\ DOMAIN searches = 1..Len(searches)
      /\ \A i \in DOMAIN searches : searches[i] \in Requests(BOOLEAN)
  BY LenProperties DEF PagesTyped
<1>2. \A i \in DOMAIN searches : [searches[i] EXCEPT !.newest = FALSE] \in Requests(BOOLEAN)
  BY <1>1 DEF Requests
<1>3. old \in Seq(Requests(BOOLEAN))
  BY <1>1, <1>2
<1>4. new \in Requests(BOOLEAN) /\ new \in Requests({TRUE})
  BY DEF Requests
<1>5. Sent = Append(old, new)
  BY DEF Sent
<1>6. searches = <<>> => old = <<>>
  BY <1>1
<1> HIDE DEF old, new
<1>7. Append(old, new) \in Seq(Requests(BOOLEAN))
  BY <1>3, <1>4
<1>8. Append(<<>>, new) \in Seq(Requests({TRUE}))
  BY <1>4
<1> QED
  BY <1>5, <1>6, <1>7, <1>8

LEMMA CutTyped == \A a, b \in Int : Cut(a, b) \in Int
  BY DEF Cut

\* What renderResults sets for page p of an answer.
Rendered(i, p, pages, empty) ==
    /\ page' = p /\ hasPrev' = (p > 1) /\ hasNext' = (p < pages)
    /\ rows' = [newest |-> searches[i].newest, page |-> p, pages |-> pages]
    /\ status' = None /\ bar' = TRUE /\ table' = ~empty

LEMMA RenderedTyped ==
    ASSUME NEW i, NEW p \in Int, NEW pages \in Int, NEW empty \in BOOLEAN,
           searches[i].newest \in BOOLEAN, Rendered(i, p, pages, empty)
    PROVE  /\ page' \in Int /\ rows' \in [newest : BOOLEAN, page : Int, pages : Int]
           /\ table' \in BOOLEAN /\ hasPrev' \in BOOLEAN /\ hasNext' \in BOOLEAN
<1>1. page' \in Int /\ rows' \in [newest : BOOLEAN, page : Int, pages : Int]
  BY DEF Rendered
<1>2. (p > 1) \in BOOLEAN /\ (p < pages) \in BOOLEAN /\ (~empty) \in BOOLEAN
  OBVIOUS
<1>3. table' \in BOOLEAN /\ hasPrev' \in BOOLEAN /\ hasNext' \in BOOLEAN
  BY <1>2, Zenon DEF Rendered
<1> QED
  BY <1>1, <1>3

LEMMA PagesTypedInit == Init => PagesTyped
<1> SUFFICES ASSUME Init PROVE PagesTyped
  OBVIOUS
<1>1. <<>> \in Seq(Requests(BOOLEAN))
  BY EmptySeq
<1>2. page = 1 /\ searches = <<>> /\ rows = [newest |-> FALSE, page |-> 1, pages |-> 1]
  BY Zenon DEF Init
<1>3. page \in Int /\ rows \in [newest : BOOLEAN, page : Int, pages : Int]
  BY <1>2
<1>4. /\ table \in BOOLEAN /\ hasPrev \in BOOLEAN /\ hasNext \in BOOLEAN
      /\ overlapped \in BOOLEAN /\ drifted \in BOOLEAN /\ mixed \in BOOLEAN
  BY DEF Init
<1> QED
  BY <1>1, <1>2, <1>3, <1>4 DEF PagesTyped

LEMMA PagesTypedStep == PagesTyped /\ [Next]_vars => PagesTyped'
<1> SUFFICES ASSUME PagesTyped, [Next]_vars PROVE PagesTyped'
  OBVIOUS
<1>0. UNCHANGED <<page, searches, rows, table, hasPrev, hasNext, overlapped, drifted, mixed>>
      => PagesTyped'
  BY DEF PagesTyped
<1>1. ASSUME RunSearch, page' \in Int PROVE PagesTyped'
  <2>0. UNCHANGED <<hasPrev, hasNext, mixed>>
    BY <1>1 DEF RunSearch, districtVars
  <2>1. CASE Hint
    BY <1>1, <2>0, <2>1 DEF Hint, PagesTyped
  <2>2. CASE TooShort
    BY <1>1, <2>0, <2>2 DEF TooShort, PagesTyped
  <2>3. CASE Send
    <3>1. Sent \in Seq(Requests(BOOLEAN))
      BY <1>1, SentTyped
    <3>2. [rows EXCEPT !.newest = FALSE] \in [newest : BOOLEAN, page : Int, pages : Int]
      BY DEF PagesTyped
    <3> QED
      BY <1>1, <2>0, <2>3, <3>1, <3>2 DEF Send, PagesTyped
  <2> QED
    BY <1>1, <2>1, <2>2, <2>3 DEF RunSearch
<1>2. CASE TypeName
  BY <1>0, <1>2 DEF TypeName, pageVars, viewVars, districtVars
<1>3. CASE SelectDistrict
  BY <1>0, <1>3 DEF SelectDistrict, pageVars, viewVars, districtVars
<1>4. ASSUME NEW s \in {None} \cup States, SelectState(s) PROVE PagesTyped'
  BY <1>4 DEF SelectState, pageVars, viewVars, PagesTyped
<1>5. CASE Submit
  BY <1>1, <1>5 DEF Submit
<1>6. CASE PrevPage
  BY <1>1, <1>6 DEF PrevPage, PagesTyped
<1>7. CASE NextPage
  BY <1>1, <1>7 DEF NextPage, PagesTyped
<1>8. CASE PickPage
  <2>1. Buttons \subseteq Int
    BY DEF Buttons, PagesTyped
  <2> QED
    BY <1>1, <1>8, <2>1 DEF PickPage
<1>9. CASE ChangeSize
  BY <1>1, <1>9 DEF ChangeSize
<1>10. ASSUME NEW i \in DOMAIN searches, Answer(i) PROVE PagesTyped'
  <2>1. /\ RemoveAt(searches, i) \in Seq(Requests(BOOLEAN))
        /\ searches[i] \in Requests(BOOLEAN)
    BY Removed DEF PagesTyped
  <2>2. PICK pages \in 1..MaxPages, empty \in BOOLEAN :
          Rendered(i, Cut(searches[i].page, pages), pages, empty)
    BY <1>10 DEF Answer, Rendered
  <2>3. searches[i].page \in Int /\ searches[i].newest \in BOOLEAN /\ pages \in Int
    BY <2>1 DEF Requests
  <2>4. Cut(searches[i].page, pages) \in Int
    BY <2>3, CutTyped
  <2>5. /\ page' \in Int /\ rows' \in [newest : BOOLEAN, page : Int, pages : Int]
        /\ table' \in BOOLEAN /\ hasPrev' \in BOOLEAN /\ hasNext' \in BOOLEAN
    BY <2>2, <2>3, <2>4, RenderedTyped
  <2>6. searches' = RemoveAt(searches, i) /\ drifted' = FALSE /\ UNCHANGED <<overlapped, mixed>>
    BY <1>10 DEF Answer, Taken, districtVars
  <2> QED
    BY <2>1, <2>5, <2>6 DEF PagesTyped
<1>11. ASSUME NEW i \in DOMAIN searches, SearchFails(i) PROVE PagesTyped'
  <2>1. RemoveAt(searches, i) \in Seq(Requests(BOOLEAN))
    BY Removed DEF PagesTyped
  <2> QED
    BY <1>11, <2>1 DEF SearchFails, Taken, pageVars, districtVars, PagesTyped
<1>12. ASSUME NEW i \in DOMAIN loading, DistrictsArrive(i) \/ DistrictsFail(i) PROVE PagesTyped'
  BY <1>0, <1>12 DEF DistrictsArrive, DistrictsFail, pageVars, viewVars
<1>13. CASE UNCHANGED vars
  BY <1>0, <1>13 DEF vars, pageVars, viewVars, districtVars
<1> QED
  BY <1>2, <1>3, <1>4, <1>5, <1>6, <1>7, <1>8, <1>9, <1>10, <1>11, <1>12, <1>13
     DEF Next, SearchEnds, DistrictsEnd

LEMMA AlwaysPagesTyped == Spec => []PagesTyped
  BY PagesTypedInit, PagesTypedStep, PTL DEF Spec

-----------------------------------------------------------------------------
(* The rows of the newest search *)

\* Without an overlap every request on its way is the newest search's.
Latest ==
    ~overlapped => (table => rows.newest) /\ searches \in Seq(Requests({TRUE}))

LEMMA LatestInit == Init => Latest
<1> SUFFICES ASSUME Init PROVE Latest
  OBVIOUS
<1>1. table = FALSE /\ searches = <<>>
  BY Zenon DEF Init
<1>2. <<>> \in Seq(Requests({TRUE}))
  BY EmptySeq
<1> QED
  BY <1>1, <1>2 DEF Latest

LEMMA LatestStep == PagesTyped /\ Latest /\ [Next]_vars => Latest'
<1> SUFFICES ASSUME PagesTyped, Latest, [Next]_vars PROVE Latest'
  OBVIOUS
<1>0. UNCHANGED <<searches, rows, table, overlapped>> => Latest'
  BY DEF Latest
<1>1. ASSUME RunSearch, page' \in Int PROVE Latest'
  <2>1. CASE Hint
    BY <2>1 DEF Hint, Latest
  <2>2. CASE TooShort
    BY <1>0, <2>2 DEF TooShort
  <2>3. CASE Send
    <3>1. searches = <<>> => Sent \in Seq(Requests({TRUE}))
      BY <1>1, SentTyped
    <3>2. table' = FALSE /\ searches' = Sent /\ overlapped' = (searches # <<>>)
      BY <2>3 DEF Send
    <3>3. ~overlapped' => searches = <<>>
      BY <3>2
    <3> QED
      BY <3>1, <3>2, <3>3 DEF Latest
  <2> QED
    BY <1>1, <2>1, <2>2, <2>3 DEF RunSearch
<1>2. CASE TypeName
  BY <1>0, <1>2 DEF TypeName, viewVars
<1>3. CASE SelectDistrict
  BY <1>0, <1>3 DEF SelectDistrict, viewVars
<1>4. ASSUME NEW s \in {None} \cup States, SelectState(s) PROVE Latest'
  BY <1>0, <1>4 DEF SelectState, viewVars
<1>5. CASE Submit
  BY <1>1, <1>5 DEF Submit
<1>6. CASE PrevPage
  BY <1>1, <1>6 DEF PrevPage, PagesTyped
<1>7. CASE NextPage
  BY <1>1, <1>7 DEF NextPage, PagesTyped
<1>8. CASE PickPage
  <2>1. Buttons \subseteq Int
    BY DEF Buttons, PagesTyped
  <2> QED
    BY <1>1, <1>8, <2>1 DEF PickPage
<1>9. CASE ChangeSize
  BY <1>1, <1>9 DEF ChangeSize
<1>10. ASSUME NEW i \in DOMAIN searches, Answer(i) PROVE Latest'
  <2> SUFFICES ASSUME ~overlapped' PROVE (table => rows.newest)' /\ searches' \in Seq(Requests({TRUE}))
    BY DEF Latest
  <2>1. searches \in Seq(Requests({TRUE}))
    BY <1>10 DEF Answer, Latest
  <2>2. RemoveAt(searches, i) \in Seq(Requests({TRUE})) /\ searches[i] \in Requests({TRUE})
    BY <2>1, Removed
  <2>3. PICK pages \in 1..MaxPages :
          rows' = [newest |-> searches[i].newest, page |-> Cut(searches[i].page, pages), pages |-> pages]
    BY <1>10 DEF Answer
  <2>4. rows'.newest = TRUE
    BY <2>2, <2>3 DEF Requests
  <2>5. searches' = RemoveAt(searches, i)
    BY <1>10 DEF Answer, Taken
  <2> QED
    BY <2>2, <2>4, <2>5
<1>11. ASSUME NEW i \in DOMAIN searches, SearchFails(i) PROVE Latest'
  <2> SUFFICES ASSUME ~overlapped' PROVE (table => rows.newest)' /\ searches' \in Seq(Requests({TRUE}))
    BY DEF Latest
  <2>1. searches \in Seq(Requests({TRUE})) /\ (table => rows.newest)
    BY <1>11 DEF SearchFails, Latest
  <2>2. RemoveAt(searches, i) \in Seq(Requests({TRUE}))
    BY <2>1, Removed
  <2> QED
    BY <1>11, <2>1, <2>2 DEF SearchFails, Taken
<1>12. ASSUME NEW i \in DOMAIN loading, DistrictsArrive(i) \/ DistrictsFail(i) PROVE Latest'
  BY <1>0, <1>12 DEF DistrictsArrive, DistrictsFail, viewVars
<1>13. CASE UNCHANGED vars
  BY <1>0, <1>13 DEF vars, viewVars
<1> QED
  BY <1>2, <1>3, <1>4, <1>5, <1>6, <1>7, <1>8, <1>9, <1>10, <1>11, <1>12, <1>13
     DEF Next, SearchEnds, DistrictsEnd

(* The table is that of the newest search, or hidden, as long as the newest *)
(* search was sent with no older one on its way (runSearch, renderResults).  *)
THEOREM TableIsLatest == Spec => []LatestUnlessOverlapped
<1>1. Latest => LatestUnlessOverlapped
  BY DEF Latest, LatestUnlessOverlapped
<1> QED
  BY <1>1, AlwaysPagesTyped, LatestInit, LatestStep, PTL DEF Spec

-----------------------------------------------------------------------------
(* The buttons *)

\* What the table shows, the buttons and state.page belong together.
Fits ==
    /\ table => (hasPrev <=> rows.page > 1) /\ (hasNext <=> rows.page < rows.pages)
    /\ ~drifted => page >= 1 /\ (table => page = rows.page)
    /\ rows.pages >= 1

LEMMA FitsInit == Init => Fits
<1> SUFFICES ASSUME Init PROVE Fits
  OBVIOUS
<1>1. table = FALSE /\ page = 1 /\ rows = [newest |-> FALSE, page |-> 1, pages |-> 1]
  BY Zenon DEF Init
<1> QED
  BY <1>1 DEF Fits

\* An answer is rendered: the buttons are those of its page.
LEMMA RenderedFits ==
    ASSUME NEW i, NEW p \in Int, NEW pages \in Int, NEW empty \in BOOLEAN,
           p >= 1, pages >= 1, Rendered(i, p, pages, empty)
    PROVE  Fits'
<1>1. page' = p /\ rows'.page = p /\ rows'.pages = pages
  BY DEF Rendered
<1>2. (hasPrev' <=> p > 1) /\ (hasNext' <=> p < pages)
  BY Zenon DEF Rendered
<1> QED
  BY <1>1, <1>2 DEF Fits

\* The table is hidden, or it stays and a turned page is a drift.
LEMMA RunSearchFits ==
    ASSUME PagesTyped, Fits, RunSearch, page' \in Int, ~drifted => page' >= 1
    PROVE  Fits'
<1>0. UNCHANGED <<hasPrev, hasNext>>
  BY DEF RunSearch
<1>1. CASE Hint
  BY <1>0, <1>1 DEF Hint, Fits
<1>2. CASE TooShort
  BY <1>0, <1>2 DEF TooShort, Fits
<1>3. CASE Send
  <2>1. rows'.pages = rows.pages /\ table' = FALSE /\ drifted' = drifted
    BY <1>3 DEF Send, PagesTyped
  <2> QED
    BY <1>0, <2>1 DEF Fits
<1> QED
  BY <1>1, <1>2, <1>3 DEF RunSearch

LEMMA FitsStep == PagesTyped /\ Fits /\ [Next]_vars => Fits'
<1> SUFFICES ASSUME PagesTyped, Fits, [Next]_vars PROVE Fits'
  OBVIOUS
<1>0. UNCHANGED <<page, rows, table, hasPrev, hasNext, drifted>> => Fits'
  BY DEF Fits
<1>2. CASE TypeName
  BY <1>0, <1>2 DEF TypeName, pageVars, viewVars
<1>3. CASE SelectDistrict
  BY <1>0, <1>3 DEF SelectDistrict, pageVars, viewVars
<1>4. ASSUME NEW s \in {None} \cup States, SelectState(s) PROVE Fits'
  BY <1>0, <1>4 DEF SelectState, pageVars, viewVars
<1>5. CASE Submit
  BY <1>5, RunSearchFits DEF Submit
<1>6. CASE PrevPage
  <2>1. page' \in Int
    BY <1>6 DEF PrevPage, PagesTyped
  <2>2. ~drifted => page > 1
    BY <1>6 DEF PrevPage, Fits
  <2>3. ~drifted => page' >= 1
    BY <1>6, <2>2 DEF PrevPage, PagesTyped
  <2> QED
    BY <1>6, <2>1, <2>3, RunSearchFits DEF PrevPage
<1>7. CASE NextPage
  <2>1. page' \in Int /\ (~drifted => page' >= 1)
    BY <1>7 DEF NextPage, PagesTyped, Fits
  <2> QED
    BY <1>7, <2>1, RunSearchFits DEF NextPage
<1>8. CASE PickPage
  <2>1. \A b \in Buttons : b \in Int /\ b >= 1
    BY DEF Buttons, PagesTyped, Fits
  <2>2. page' \in Int /\ page' >= 1
    BY <1>8, <2>1 DEF PickPage
  <2> QED
    BY <1>8, <2>2, RunSearchFits DEF PickPage
<1>9. CASE ChangeSize
  BY <1>9, RunSearchFits DEF ChangeSize
<1>10. ASSUME NEW i \in DOMAIN searches, Answer(i) PROVE Fits'
  <2>1. searches[i] \in Requests(BOOLEAN)
    BY Removed DEF PagesTyped
  <2>2. PICK pages \in 1..MaxPages, empty \in BOOLEAN :
          Rendered(i, Cut(searches[i].page, pages), pages, empty)
    BY <1>10 DEF Answer, Rendered
  <2>3. searches[i].page \in Int /\ searches[i].page >= 1 /\ pages \in Int /\ pages >= 1
    <3>1. searches[i].page >= 1
      BY <1>10, Zenon DEF Answer
    <3>2. MaxPages \in Int
      BY PagesAssumption
    <3> QED
      BY <2>1, <2>2, <3>1, <3>2 DEF Requests
  <2>4. Cut(searches[i].page, pages) \in Int /\ Cut(searches[i].page, pages) >= 1
    BY <2>3 DEF Cut
  <2> QED
    BY <2>2, <2>3, <2>4, RenderedFits
<1>11. ASSUME NEW i \in DOMAIN searches, SearchFails(i) PROVE Fits'
  BY <1>0, <1>11 DEF SearchFails, pageVars
<1>12. ASSUME NEW i \in DOMAIN loading, DistrictsArrive(i) \/ DistrictsFail(i) PROVE Fits'
  BY <1>0, <1>12 DEF DistrictsArrive, DistrictsFail, pageVars, viewVars
<1>13. CASE UNCHANGED vars
  BY <1>0, <1>13 DEF vars, pageVars, viewVars
<1> QED
  BY <1>2, <1>3, <1>4, <1>5, <1>6, <1>7, <1>8, <1>9, <1>10, <1>11, <1>12, <1>13
     DEF Next, SearchEnds, DistrictsEnd

(* The buttons and state.page are those of the table shown, in whatever      *)
(* order the answers come, until a page is turned without a search           *)
(* (renderResults, renderPagination, runSearch).                             *)
THEOREM ButtonsOfTable == Spec => []ButtonsFitTable
<1>1. Fits => ButtonsFitTable
  BY DEF Fits, ButtonsFitTable
<1> QED
  BY <1>1, AlwaysPagesTyped, FitsInit, FitsStep, PTL DEF Spec

-----------------------------------------------------------------------------
(* The districts *)

Listed == mixed \in BOOLEAN /\ loading \in Seq(States)

LEMMA ListedInit == Init => Listed
<1> SUFFICES ASSUME Init PROVE Listed
  OBVIOUS
<1>1. mixed = FALSE /\ loading = <<>>
  BY Zenon DEF Init
<1> QED
  BY <1>1, EmptySeq DEF Listed

\* With one list on its way at most, the select is empty until it arrives.
OneList ==
    ~mixed => /\ Len(loading) <= 1 /\ \A i \in DOMAIN loading : loading[i] = chosen
              /\ options = <<>> \/ (options = <<chosen>> /\ loading = <<>>)
              /\ district \in {None, chosen}

LEMMA OneListInit == Init => OneList
<1> SUFFICES ASSUME Init PROVE OneList
  OBVIOUS
<1>1. loading = <<>> /\ options = <<>> /\ district = None
  BY Zenon DEF Init
<1>2. Len(loading) = 0 /\ DOMAIN loading = {}
  BY <1>1, EmptySeq
<1> QED
  BY <1>1, <1>2 DEF OneList

\* Any state may be chosen while no list is on its way.
LEMMA SelectOneList ==
    ASSUME Listed, NEW s \in {None} \cup States, SelectState(s)
    PROVE  Listed' /\ OneList'
<1>1. /\ chosen' = s /\ district' = None /\ options' = <<>>
      /\ loading' \in {loading} \cup {Append(loading, s)} /\ (s = None => loading' = loading)
  BY DEF SelectState
<1>2. mixed' = (loading # <<>>)
  BY DEF SelectState
<1>3. mixed' \in BOOLEAN /\ (~mixed' => loading = <<>>)
  BY <1>2
<1>4. loading' \in Seq(States)
  <2>1. CASE s = None
    BY <1>1, <2>1 DEF Listed
  <2>2. CASE s # None
    BY <1>1, <2>2, AppendProperties DEF Listed
  <2> QED
    BY <2>1, <2>2
<1>5. ~mixed' => Len(loading') <= 1 /\ \A i \in DOMAIN loading' : loading'[i] = s
  <2>1. SUFFICES ASSUME ~mixed' PROVE Len(loading') <= 1 /\ \A i \in DOMAIN loading' : loading'[i] = s
    OBVIOUS
  <2>2. loading = <<>>
    BY <1>3, <2>1
  <2>3. Append(<<>>, s) = <<s>> /\ Len(<<s>>) = 1 /\ DOMAIN <<s>> = {1} /\ <<s>>[1] = s
    OBVIOUS
  <2>4. Len(<<>>) = 0 /\ DOMAIN <<>> = {}
    OBVIOUS
  <2>5. loading' = <<>> \/ loading' = <<s>>
    BY <1>1, <2>2, <2>3
  <2>6. CASE loading' = <<>>
    BY <2>4, <2>6
  <2>7. CASE loading' = <<s>>
    BY <2>3, <2>7
  <2> QED
    BY <2>5, <2>6, <2>7
<1> QED
  BY <1>1, <1>3, <1>4, <1>5 DEF Listed, OneList

\* A list arrives at an empty select, or the select is mixed.
LEMMA ArriveOneList ==
    ASSUME Listed, OneList, NEW i \in DOMAIN loading, DistrictsArrive(i) \/ DistrictsFail(i)
    PROVE  Listed' /\ OneList'
<1>1. loading' = RemoveAt(loading, i) /\ mixed' = mixed /\ chosen' = chosen /\ district' = district
  BY DEF DistrictsArrive, DistrictsFail, filters
<1>2. options' \in {options, Append(options, loading[i])}
  BY DEF DistrictsArrive, DistrictsFail
<1>3. RemoveAt(loading, i) \in Seq(States) /\ Len(RemoveAt(loading, i)) = Len(loading) - 1
  BY Removed DEF Listed
<1>4. Listed'
  BY <1>1, <1>3 DEF Listed
<1>5. ASSUME ~mixed PROVE OneList'
  <2>1. Len(loading) \in Nat /\ DOMAIN loading = 1..Len(loading)
    BY LenProperties DEF Listed
  <2>2. Len(loading) <= 1 /\ loading[i] = chosen /\ district \in {None, chosen}
    BY <1>5 DEF OneList
  <2>3. loading # <<>>
    BY <2>1
  <2>4. options = <<>>
    BY <1>5, <2>3 DEF OneList
  <2>5. Len(loading') = 0 /\ loading' \in Seq(States)
    BY <1>1, <1>3, <2>1, <2>2
  <2>6. loading' = <<>> /\ DOMAIN loading' = {}
    BY <2>5, EmptySeq, LenProperties
  <2>7. options' \in {<<>>, <<chosen>>}
    BY <1>2, <2>2, <2>4
  <2> QED
    BY <1>1, <2>2, <2>5, <2>6, <2>7 DEF OneList
<1>6. CASE mixed
  BY <1>1, <1>4, <1>6 DEF OneList
<1> QED
  BY <1>4, <1>5, <1>6

LEMMA OneListStep == Listed /\ OneList /\ [Next]_vars => Listed' /\ OneList'
<1> SUFFICES ASSUME Listed, OneList, [Next]_vars PROVE Listed' /\ OneList'
  OBVIOUS
<1>0. UNCHANGED <<chosen, district, districtVars>> => Listed' /\ OneList'
  BY DEF Listed, OneList, districtVars
<1>1. RunSearch => UNCHANGED <<chosen, district, districtVars>>
  BY DEF RunSearch, filters
<1>2. CASE TypeName
  BY <1>0, <1>2 DEF TypeName
<1>3. CASE SelectDistrict
  <2>1. chosen' = chosen /\ UNCHANGED districtVars
    BY <1>3 DEF SelectDistrict
  <2>2. PICK d \in {None} \cup Range(options) : district' = d
    BY <1>3 DEF SelectDistrict
  <2>3. ~mixed => district' \in {None, chosen}
    BY <2>2 DEF OneList, Range
  <2> QED
    BY <2>1, <2>3 DEF districtVars, Listed, OneList
<1>4. ASSUME NEW s \in {None} \cup States, SelectState(s) PROVE Listed' /\ OneList'
  BY <1>4, SelectOneList
<1>5. CASE Submit \/ PrevPage \/ NextPage \/ PickPage \/ ChangeSize
  BY <1>0, <1>1, <1>5 DEF Submit, PrevPage, NextPage, PickPage, ChangeSize
<1>6. CASE SearchEnds
  BY <1>0, <1>6 DEF SearchEnds, Answer, SearchFails, filters
<1>7. CASE DistrictsEnd
  BY <1>7, ArriveOneList DEF DistrictsEnd
<1>8. CASE UNCHANGED vars
  BY <1>0, <1>8 DEF vars, filters
<1> QED
  BY <1>2, <1>3, <1>4, <1>5, <1>6, <1>7, <1>8 DEF Next

(* The districts offered and the one selected are of the state selected, as  *)
(* long as its list was requested with no other one on its way               *)
(* (loadDistricts).                                                          *)
THEOREM DistrictsFitState == Spec => []DistrictsOfState
<1>1. Listed /\ OneList => DistrictsOfState
  BY DEF Listed, OneList, DistrictsOfState, Range
<1> QED
  BY <1>1, ListedInit, OneListInit, OneListStep, PTL DEF Spec

-----------------------------------------------------------------------------
(* All variables *)

AskedRequests == [newest : BOOLEAN, page : Asked]
Statuses == {None, "hint", "short", "searching", "failed"}

\* What is asked for and what is shown stay within the bounds.
Turned ==
    /\ page \in Asked /\ searches \in Seq(AskedRequests) /\ Len(searches) <= MaxInFlight
    /\ rows \in [newest : BOOLEAN, page : 1..MaxPages, pages : 1..MaxPages]
    /\ hasSearched \in BOOLEAN /\ bar \in BOOLEAN /\ status \in Statuses

Filled ==
    /\ name \in {None, "short", "long"} /\ chosen \in {None} \cup States
    /\ district \in {None} \cup States
    /\ options \in Seq(States) /\ loading \in Seq(States) /\ Len(loading) <= MaxInFlight

LEMMA AskedAre ==
    /\ \A p \in 1..MaxPages : p \in Asked
    /\ 1 \in 1..MaxPages /\ MaxPages \in Nat /\ MaxDrift \in Nat /\ MaxInFlight \in Nat
BY PagesAssumption, FlightAssumption DEF Asked

LEMMA TurnedInit == Init => Turned
<1> SUFFICES ASSUME Init PROVE Turned
  OBVIOUS
<1>1. /\ page = 1 /\ searches = <<>> /\ rows = [newest |-> FALSE, page |-> 1, pages |-> 1]
      /\ hasSearched = FALSE /\ bar = FALSE /\ status = None
  BY Zenon DEF Init
<1>2. <<>> \in Seq(AskedRequests) /\ Len(<<>>) = 0
  BY EmptySeq
<1>3. page \in Asked /\ Len(searches) <= MaxInFlight
      /\ rows \in [newest : BOOLEAN, page : 1..MaxPages, pages : 1..MaxPages]
  BY <1>1, <1>2, AskedAre
<1> QED
  BY <1>1, <1>2, <1>3 DEF Turned, Statuses

LEMMA FilledInit == Init => Filled
<1> SUFFICES ASSUME Init PROVE Filled
  OBVIOUS
<1>1. name = None /\ chosen = None /\ district = None /\ options = <<>> /\ loading = <<>>
  BY Zenon DEF Init
<1>2. <<>> \in Seq(States) /\ Len(<<>>) = 0
  BY EmptySeq
<1> QED
  BY <1>1, <1>2, AskedAre DEF Filled

LEMMA SentAsked ==
    ASSUME searches \in Seq(AskedRequests), page' \in Asked
    PROVE  Sent \in Seq(AskedRequests) /\ Len(Sent) = Len(searches) + 1
<1> DEFINE old == [i \in DOMAIN searches |-> [searches[i] EXCEPT !.newest = FALSE]]
<1> DEFINE new == [newest |-> TRUE, page |-> page']
<1>1. Len(searches) \in Nat /\ DOMAIN searches = 1..Len(searches)
      /\ \A i \in DOMAIN searches : searches[i] \in AskedRequests
  BY LenProperties
<1>2. \A i \in DOMAIN searches : [searches[i] EXCEPT !.newest = FALSE] \in AskedRequests
  BY <1>1 DEF AskedRequests
<1>3. old \in Seq(AskedRequests) /\ Len(old) = Len(searches)
  BY <1>1, <1>2
<1>4. new \in AskedRequests
  BY DEF AskedRequests
<1>5. Sent = Append(old, new)
  BY DEF Sent
<1> HIDE DEF old, new
<1> QED
  BY <1>3, <1>4, <1>5, AppendProperties

LEMMA RunSearchTurned == ASSUME Turned, RunSearch, page' \in Asked PROVE Turned'
<1>1. CASE Hint
  BY <1>1 DEF Hint, Turned, Statuses
<1>2. CASE TooShort
  BY <1>2 DEF TooShort, Turned, Statuses
<1>3. CASE Send
  <2>1. /\ searches' = Sent /\ Len(searches) < MaxInFlight /\ status' = "searching"
        /\ bar' = FALSE /\ hasSearched' = TRUE /\ rows' = [rows EXCEPT !.newest = FALSE]
    BY <1>3, Zenon DEF Send
  <2>2. Sent \in Seq(AskedRequests) /\ Len(Sent) = Len(searches) + 1
    BY SentAsked DEF Turned
  <2>3. Len(searches') <= MaxInFlight
    <3>1. Len(searches) \in Nat
      BY LenProperties DEF Turned
    <3> QED
      BY <2>1, <2>2, <3>1, AskedAre
  <2>4. rows' \in [newest : BOOLEAN, page : 1..MaxPages, pages : 1..MaxPages]
    BY <2>1 DEF Turned
  <2> QED
    BY <2>1, <2>2, <2>3, <2>4 DEF Turned, Statuses
<1> QED
  BY <1>1, <1>2, <1>3 DEF RunSearch

\* A search that ends is one less.
LEMMA TakenTurned ==
    ASSUME Turned, NEW i \in DOMAIN searches, Taken(i)
    PROVE  /\ searches' \in Seq(AskedRequests) /\ Len(searches') <= MaxInFlight
           /\ searches[i] \in AskedRequests
<1>1. RemoveAt(searches, i) \in Seq(AskedRequests) /\ searches[i] \in AskedRequests
      /\ Len(RemoveAt(searches, i)) = Len(searches) - 1
  BY Removed DEF Turned
<1>2. Len(searches) \in Nat
  BY LenProperties DEF Turned
<1> QED
  BY <1>1, <1>2, AskedAre DEF Taken, Turned

LEMMA TurnedStep == Turned /\ [Next]_vars => Turned'
<1> SUFFICES ASSUME Turned, [Next]_vars PROVE Turned'
  OBVIOUS
<1>0. UNCHANGED <<pageVars, searches, viewVars>> => Turned'
  BY DEF Turned, pageVars, viewVars
<1>1. CASE TypeName \/ SelectDistrict \/ \E s \in {None} \cup States : SelectState(s)
  BY <1>0, <1>1 DEF TypeName, SelectDistrict, SelectState
<1>2. CASE Submit \/ ChangeSize
  BY <1>2, RunSearchTurned, AskedAre DEF Submit, ChangeSize
<1>3. CASE PrevPage
  <2>1. page' \in Asked
    BY <1>3, AskedAre DEF PrevPage, Turned, Asked
  <2> QED
    BY <1>3, <2>1, RunSearchTurned DEF PrevPage
<1>4. CASE NextPage
  <2>1. page' \in Asked
    BY <1>4, AskedAre DEF NextPage, Turned, Asked
  <2> QED
    BY <1>4, <2>1, RunSearchTurned DEF NextPage
<1>5. CASE PickPage
  <2>1. Buttons \subseteq 1..MaxPages
    BY AskedAre DEF Buttons, Turned
  <2> QED
    BY <1>5, <2>1, RunSearchTurned, AskedAre DEF PickPage
<1>6. ASSUME NEW i \in DOMAIN searches, Answer(i) PROVE Turned'
  <2>1. /\ searches' \in Seq(AskedRequests) /\ Len(searches') <= MaxInFlight
        /\ searches[i] \in AskedRequests
    BY <1>6, TakenTurned DEF Answer
  <2>2. PICK pages \in 1..MaxPages, empty \in BOOLEAN :
          Rendered(i, Cut(searches[i].page, pages), pages, empty)
    BY <1>6 DEF Answer, Rendered
  <2>3. searches[i].page \in Int /\ searches[i].page >= 1 /\ searches[i].newest \in BOOLEAN
    <3>1. searches[i].page >= 1
      BY <1>6, Zenon DEF Answer
    <3> QED
      BY <2>1, <3>1 DEF AskedRequests, Asked
  <2>4. Cut(searches[i].page, pages) \in 1..MaxPages
    BY <2>3, AskedAre DEF Cut
  <2>5. /\ page' \in Asked /\ bar' \in BOOLEAN /\ status' \in Statuses
        /\ rows' \in [newest : BOOLEAN, page : 1..MaxPages, pages : 1..MaxPages]
    BY <2>2, <2>3, <2>4, AskedAre DEF Rendered, Statuses
  <2>6. hasSearched' = hasSearched
    BY <1>6 DEF Answer
  <2> QED
    BY <2>1, <2>5, <2>6 DEF Turned
<1>7. ASSUME NEW i \in DOMAIN searches, SearchFails(i) PROVE Turned'
  <2>1. searches' \in Seq(AskedRequests) /\ Len(searches') <= MaxInFlight
    BY <1>7, TakenTurned DEF SearchFails
  <2> QED
    BY <1>7, <2>1 DEF SearchFails, pageVars, Turned, Statuses
<1>8. CASE DistrictsEnd
  BY <1>0, <1>8 DEF DistrictsEnd, DistrictsArrive, DistrictsFail
<1>9. CASE UNCHANGED vars
  BY <1>0, <1>9 DEF vars
<1> QED
  BY <1>1, <1>2, <1>3, <1>4, <1>5, <1>6, <1>7, <1>8, <1>9 DEF Next, SearchEnds

LEMMA FilledStep == Filled /\ [Next]_vars => Filled'
<1> SUFFICES ASSUME Filled, [Next]_vars PROVE Filled'
  OBVIOUS
<1>0. UNCHANGED <<filters, districtVars>> => Filled'
  BY DEF Filled, filters, districtVars
<1>1. Len(loading) \in Nat
  BY LenProperties DEF Filled
<1>2. CASE TypeName
  BY <1>2 DEF TypeName, districtVars, Filled
<1>3. CASE SelectDistrict
  <2>1. PICK d \in {None} \cup Range(options) : district' = d
    BY <1>3 DEF SelectDistrict
  <2>2. Range(options) \subseteq States
    BY LenProperties DEF Filled, Range
  <2> QED
    BY <1>3, <2>1, <2>2 DEF SelectDistrict, districtVars, Filled
<1>4. ASSUME NEW s \in {None} \cup States, SelectState(s) PROVE Filled'
  <2>1. name' = name /\ chosen' = s /\ district' = None /\ options' = <<>>
    BY <1>4 DEF SelectState
  <2>2. loading' \in Seq(States) /\ Len(loading') <= MaxInFlight
    <3>1. CASE s = None
      BY <1>4, <3>1 DEF SelectState, Filled
    <3>2. CASE s # None
      <4>1. s \in States /\ Len(loading) < MaxInFlight /\ loading' = Append(loading, s)
        BY <1>4, <3>2 DEF SelectState
      <4>2. loading' \in Seq(States) /\ Len(loading') = Len(loading) + 1
        BY <4>1, AppendProperties DEF Filled
      <4> QED
        BY <1>1, <4>1, <4>2, AskedAre
    <3> QED
      BY <3>1, <3>2
  <2>3. <<>> \in Seq(States)
    BY EmptySeq
  <2> QED
    BY <2>1, <2>2, <2>3 DEF Filled
<1>5. CASE Submit \/ PrevPage \/ NextPage \/ PickPage \/ ChangeSize
  BY <1>0, <1>5 DEF Submit, PrevPage, NextPage, PickPage, ChangeSize, RunSearch
<1>6. CASE SearchEnds
  BY <1>0, <1>6 DEF SearchEnds, Answer, SearchFails
<1>7. ASSUME NEW i \in DOMAIN loading, DistrictsArrive(i) \/ DistrictsFail(i) PROVE Filled'
  <2>1. /\ RemoveAt(loading, i) \in Seq(States) /\ loading[i] \in States
        /\ Len(RemoveAt(loading, i)) = Len(loading) - 1
    BY Removed DEF Filled
  <2>2. Append(options, loading[i]) \in Seq(States)
    BY <2>1, AppendProperties DEF Filled
  <2>3. /\ loading' = RemoveAt(loading, i) /\ UNCHANGED filters
        /\ options' = options \/ options' = Append(options, loading[i])
    BY <1>7 DEF DistrictsArrive, DistrictsFail
  <2>4. Len(loading') <= MaxInFlight
    BY <1>1, <2>1, <2>3, AskedAre DEF Filled
  <2> QED
    BY <2>1, <2>2, <2>3, <2>4 DEF filters, Filled
<1>8. CASE UNCHANGED vars
  BY <1>0, <1>8 DEF vars
<1> QED
  BY <1>2, <1>3, <1>4, <1>5, <1>6, <1>7, <1>8 DEF Next, DistrictsEnd

(* Every variable keeps its type: the page asked for leaves the pages there  *)
(* are only by MaxDrift, the page shown never does, and the filters name     *)
(* states only (runSearch, renderResults, loadDistricts).                    *)
THEOREM PageTypeCorrect == Spec => []TypeOK
<1>1. PagesTyped /\ Turned /\ Filled => TypeOK
  <2> SUFFICES ASSUME PagesTyped, Turned, Filled PROVE TypeOK
    OBVIOUS
  <2>1. Range(options) \cup Range(loading) \subseteq States
    BY LenProperties DEF Filled, Range
  <2>2. Range(searches) \subseteq AskedRequests
    BY LenProperties DEF Turned, Range
  <2>3. {hasPrev, hasNext, hasSearched} \subseteq BOOLEAN
        /\ {bar, table, mixed, overlapped, drifted} \subseteq BOOLEAN
    BY Zenon DEF PagesTyped, Turned
  <2> QED
    BY <2>1, <2>2, <2>3 DEF Turned, Filled, TypeOK, AskedRequests, Statuses
<1> QED
  BY <1>1, AlwaysPagesTyped, TurnedInit, FilledInit, TurnedStep, FilledStep, PTL DEF Spec

=============================================================================
