------------------------------ MODULE SearchPage -------------------------------
(***************************************************************************)
(* The search form of the web front end, webapp/frontend/app.js: one       *)
(* browser tab whose user edits the filters, searches and turns pages      *)
(* while answers of the search API are on their way.  A handler runs to    *)
(* its first await without interruption, and an answer is handled in one   *)
(* go; nothing cancels a request, and answers come in any order.           *)
(*                                                                         *)
(* What a request was for is told apart by one question: was it sent by    *)
(* the newest search?  nic_code is a filter like a state without           *)
(* districts, and the page size a reason to search again; the page, the    *)
(* name and the state with its districts are modelled.                     *)
(***************************************************************************)
EXTENDS Integers, Sequences, SequencesExt

CONSTANTS
    States,         \* the states one can choose
    MaxPages,       \* bound: the pages an answer may have
    MaxInFlight,    \* bound: requests of a kind on their way
    MaxDrift        \* bound: how far the page may run out of the pages there are

ASSUME PagesAssumption  == MaxPages \in Nat \ {0} /\ MaxDrift \in Nat
ASSUME FlightAssumption == MaxInFlight \in Nat \ {0}

\* An empty field, no selection, no message.
None == ""

VARIABLES
    name,       \* the trimmed name: None, "short" (one character) or "long"
    chosen,     \* the state selected; None for all
    district,   \* the state the selected district belongs to; None for all
    options,    \* the lists of districts that were appended to the select, each by its state
    loading,    \* the district requests on their way, oldest first
    mixed,      \* history: a list was requested while an older request was on its way
    page,       \* state.page
    hasPrev, hasNext, hasSearched,
    searches,   \* the search requests on their way, oldest first
    status,     \* the message: None, "hint", "short", "searching" or "failed"
    bar,        \* the bar with the count and the page size is visible
    table,      \* the table and the pagination are visible
    rows,       \* the last answer rendered: is it of the newest search, its page, its pages
    overlapped, \* history: the newest search was sent while an older one was on its way
    drifted     \* history: the page was turned without a search since the last answer

filters      == <<name, chosen, district>>
districtVars == <<options, loading, mixed>>
pageVars     == <<page, hasPrev, hasNext, hasSearched>>
viewVars     == <<status, bar, table, rows>>
vars == <<filters, districtVars, pageVars, searches, viewVars, overlapped, drifted>>

-----------------------------------------------------------------------------
Init ==
    /\ name = None /\ chosen = None /\ district = None
    /\ options = <<>> /\ loading = <<>> /\ mixed = FALSE
    /\ page = 1 /\ hasPrev = FALSE /\ hasNext = FALSE /\ hasSearched = FALSE
    /\ searches = <<>>
    /\ status = None /\ bar = FALSE /\ table = FALSE
    /\ rows = [newest |-> FALSE, page |-> 1, pages |-> 1]
    /\ overlapped = FALSE /\ drifted = FALSE

-----------------------------------------------------------------------------
(* The filters *)

TypeName ==
    /\ name' \in {None, "short", "long"} \ {name}
    /\ UNCHANGED <<chosen, district, districtVars, pageVars, searches, viewVars, overlapped, drifted>>

\* Variant: the options of the state before stay.
Bug_KeepOptions(s) ==
    /\ chosen # s /\ chosen' = s /\ district' = None
    /\ IF s = None THEN UNCHANGED <<options, loading, mixed>>
       ELSE /\ Len(loading) < MaxInFlight
            /\ loading' = Append(loading, s) /\ mixed' = (loading # <<>>) /\ UNCHANGED options
    /\ UNCHANGED <<name, pageVars, searches, viewVars, overlapped, drifted>>

\* loadDistricts up to its await: the options go, with the selected one; a request is sent.
SelectState(s) ==
    /\ chosen # s /\ chosen' = s
    /\ district' = None /\ options' = <<>>
    /\ mixed' = (loading # <<>>)
    /\ \/ s = None /\ UNCHANGED loading
       \/ s # None /\ Len(loading) < MaxInFlight /\ loading' = Append(loading, s)
    /\ UNCHANGED <<name, pageVars, searches, viewVars, overlapped, drifted>>

\* The rest of it: the districts are appended to whatever the select holds by now.
DistrictsArrive(i) ==
    /\ options' = Append(options, loading[i]) /\ loading' = RemoveAt(loading, i)
    /\ UNCHANGED <<filters, mixed, pageVars, searches, viewVars, overlapped, drifted>>

\* The request fails: nobody catches the exception.
DistrictsFail(i) ==
    /\ loading' = RemoveAt(loading, i)
    /\ UNCHANGED <<filters, options, mixed, pageVars, searches, viewVars, overlapped, drifted>>

\* The select is disabled while no state is chosen.
SelectDistrict ==
    /\ chosen # None /\ \E d \in {None} \cup Range(options) : d # district /\ district' = d
    /\ UNCHANGED <<name, chosen, districtVars, pageVars, searches, viewVars, overlapped, drifted>>

-----------------------------------------------------------------------------
(* runSearch, after its caller has set the page *)

NoFilter == name = None /\ chosen = None /\ district = None

Hint ==
    /\ NoFilter
    /\ status' = "hint" /\ bar' = FALSE /\ table' = FALSE
    /\ drifted' = (drifted \/ page' # page)
    /\ UNCHANGED <<rows, hasSearched, searches, overlapped>>

\* The name alone is too short, and what is shown stays.
TooShort ==
    /\ name = "short"
    /\ status' = "short" /\ drifted' = (drifted \/ page' # page)
    /\ UNCHANGED <<bar, table, rows, hasSearched, searches, overlapped>>

Sent == Append([i \in DOMAIN searches |-> [searches[i] EXCEPT !.newest = FALSE]],
               [newest |-> TRUE, page |-> page'])

\* Variant: the table and the bar are cleared only by the answer.
Bug_ShowUntilAnswer ==
    /\ ~NoFilter /\ name # "short" /\ Len(searches) < MaxInFlight
    /\ status' = "searching" /\ hasSearched' = TRUE
    /\ searches' = Sent /\ rows' = [rows EXCEPT !.newest = FALSE]
    /\ overlapped' = (searches # <<>>)
    /\ UNCHANGED <<drifted, bar, table>>

Send ==
    /\ ~NoFilter /\ name # "short" /\ Len(searches) < MaxInFlight
    /\ status' = "searching" /\ bar' = FALSE /\ table' = FALSE /\ hasSearched' = TRUE
    /\ searches' = Sent /\ rows' = [rows EXCEPT !.newest = FALSE]
    /\ overlapped' = (searches # <<>>)
    /\ UNCHANGED drifted

RunSearch ==
    /\ Hint \/ TooShort \/ Send
    /\ UNCHANGED <<filters, districtVars, hasPrev, hasNext>>

-----------------------------------------------------------------------------
(* Its callers: what is hidden cannot be clicked *)

Submit == page' = 1 /\ RunSearch

PrevPage ==
    /\ table /\ hasPrev /\ page > 1 - MaxDrift
    /\ page' = page - 1 /\ RunSearch

NextPage ==
    /\ table /\ hasNext /\ page < MaxPages + MaxDrift
    /\ page' = page + 1 /\ RunSearch

\* buildPageList: the buttons are the first page, the last one and those around the current.
Buttons == {1, rows.pages} \cup ((rows.page - 1)..(rows.page + 1) \cap 1..rows.pages)

PickPage ==
    /\ table /\ \E p \in Buttons : p # page /\ page' = p
    /\ RunSearch

\* The size is only offered with a result, so hasSearched is set.
ChangeSize == bar /\ hasSearched /\ page' = 1 /\ RunSearch

-----------------------------------------------------------------------------
(* The answers *)

\* Variant: the page asked for is the page shown.
Bug_NotCut(asked, pages) == asked

\* search of the API, 358-359: the page shown of those there are.
Cut(asked, pages) == IF asked < pages THEN asked ELSE pages

Taken(i) == searches' = RemoveAt(searches, i)

\* Variant: the page is left as it was asked for.
Bug_KeepPage(i) ==
    /\ searches[i].page >= 1 /\ Taken(i)
    /\ \E pages \in 1..MaxPages, empty \in BOOLEAN :
        LET p == Cut(searches[i].page, pages) IN
        /\ hasPrev' = (p > 1) /\ hasNext' = (p < pages)
        /\ rows' = [newest |-> searches[i].newest, page |-> p, pages |-> pages]
        /\ status' = None /\ bar' = TRUE /\ table' = ~empty
    /\ drifted' = FALSE
    /\ UNCHANGED <<filters, districtVars, page, hasSearched, overlapped>>

\* renderResults of an answer of the API.
Answer(i) ==
    /\ searches[i].page >= 1 /\ Taken(i)
    /\ \E pages \in 1..MaxPages, empty \in BOOLEAN :
        LET p == Cut(searches[i].page, pages) IN
        /\ page' = p /\ hasPrev' = (p > 1) /\ hasNext' = (p < pages)
        /\ rows' = [newest |-> searches[i].newest, page |-> p, pages |-> pages]
        /\ status' = None /\ bar' = TRUE /\ table' = ~empty
    /\ drifted' = FALSE
    /\ UNCHANGED <<filters, districtVars, hasSearched, overlapped>>

\* Variant: a failure is only logged.
Bug_LogOnly(i) ==
    /\ Taken(i)
    /\ UNCHANGED <<filters, districtVars, pageVars, viewVars, overlapped, drifted>>

\* An error status (a page below 1 is refused) or no answer at all.
SearchFails(i) ==
    /\ Taken(i) /\ status' = "failed"
    /\ UNCHANGED <<filters, districtVars, pageVars, bar, table, rows, overlapped, drifted>>

-----------------------------------------------------------------------------
SearchEnds    == \E i \in DOMAIN searches : Answer(i) \/ SearchFails(i)
DistrictsEnd  == \E i \in DOMAIN loading : DistrictsArrive(i) \/ DistrictsFail(i)

Next ==
    \/ TypeName \/ SelectDistrict \/ \E s \in {None} \cup States : SelectState(s)
    \/ Submit \/ PrevPage \/ NextPage \/ PickPage \/ ChangeSize
    \/ SearchEnds \/ DistrictsEnd

Spec == Init /\ [][Next]_vars

\* A fetch settles; what the user does is not assumed.
FairSpec == Spec /\ WF_vars(SearchEnds)

-----------------------------------------------------------------------------
(* Properties *)

Asked == (1 - MaxDrift)..(MaxPages + MaxDrift)

TypeOK ==
    /\ name \in {None, "short", "long"} /\ chosen \in {None} \cup States
    /\ district \in {None} \cup States
    /\ Range(options) \cup Range(loading) \subseteq States
    /\ page \in Asked /\ {hasPrev, hasNext, hasSearched} \subseteq BOOLEAN
    /\ Range(searches) \subseteq [newest : BOOLEAN, page : Asked]
    /\ Len(searches) <= MaxInFlight /\ Len(loading) <= MaxInFlight
    /\ status \in {None, "hint", "short", "searching", "failed"}
    /\ rows \in [newest : BOOLEAN, page : 1..MaxPages, pages : 1..MaxPages]
    /\ {bar, table, mixed, overlapped, drifted} \subseteq BOOLEAN

(* The table shows the newest search or nothing, whatever failed and however *)
(* often the user searched before, unless that search was sent while an      *)
(* older one was on its way; then nothing keeps an older answer from         *)
(* replacing a newer one (runSearch, 140-158).                               *)
LatestUnlessOverlapped == table /\ ~overlapped => rows.newest

(* The districts offered, and the one selected, belong to the state selected *)
(* and are offered once, unless its list was requested while another one was *)
(* on its way: the options are cleared before the await and appended to      *)
(* after it (loadDistricts, 86-100).                                         *)
DistrictsOfState ==
    ~mixed => /\ options \in {<<>>, <<chosen>>} /\ district \in {None, chosen}
              /\ Range(loading) \subseteq {chosen}

(* The buttons turn pages from the page that is shown, and to pages that     *)
(* exist, even when answers overlap: state.page is the page of the table and *)
(* the buttons are enabled for its neighbours, unless a page was turned with *)
(* a name too short to search (runSearch, 135-138; renderResults).           *)
ButtonsFitTable ==
    /\ table => (hasPrev <=> rows.page > 1) /\ (hasNext <=> rows.page < rows.pages)
    /\ ~drifted => page >= 1 /\ (table => page = rows.page)

(* "Searching..." does not stay: every search ends with rows or a message,   *)
(* however often the user searches meanwhile.                                *)
SearchSettles == (status = "searching") ~> (status # "searching")

(* The front end asks for pages that exist: "page: int = Query(1, ge=1)"     *)
(* (main.py:312).                                                            *)
PagesStartAtOne == \A i \in DOMAIN searches : searches[i].page >= 1

=============================================================================
