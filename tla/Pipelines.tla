------------------------------- MODULE Pipelines -------------------------------
(***************************************************************************)
(* The two Airflow DAGs over one RAW table and one dbt project.            *)
(*                                                                         *)
(* dags/udyam_incremental_pipeline.py: one run at a time, one retry per    *)
(* task, the run id kept in an Airflow Variable until a run has gone       *)
(* through.  dags/udyam_full_refresh_pipeline.py: any number of runs, no   *)
(* retries, the run id handed on in /tmp/udyam_run_id.txt.  A DAG run is a *)
(* row of tasks; a task is one step, or two where another run can see the  *)
(* state in between: the file written and not read back, a load under way, *)
(* bronze built and silver not.                                            *)
(*                                                                         *)
(* A whole extraction is loaded as two files, a part of one as the first   *)
(* of them.  A file is loaded by one statement whose rows carry the time it *)
(* began, so a load of a file is a position in the order of beginnings,    *)
(* and _INGESTED_AT compares like positions.  bronze and silver are sets   *)
(* of positions.                                                           *)
(***************************************************************************)
EXTENDS Integers, Sequences, FiniteSets, FiniteSetsExt

CONSTANTS
    Incremental,    \* slots for runs of the incremental DAG: the latest and older ones
    FullRefresh,    \* slots for runs of the full-refresh DAG
    MaxIds,         \* bound: how many run ids are generated
    MaxFaults       \* bound: how many faults happen (failing tasks, interventions, overlaps)

ASSUME SlotsAssumption  == IsFiniteSet(Incremental) /\ Incremental \cap FullRefresh = {}
ASSUME BoundsAssumption == MaxIds \in Nat /\ MaxFaults \in Nat

VARIABLES
    active,     \* the Variable udyam_incremental_active_run_id; 0: not set
    tmpfile,    \* the id in /tmp/udyam_run_id.txt; 0: no such file
    ids,        \* how many run ids have been generated: the ids are 1..ids
    creator,    \* per id: the DAG run that generated it
    status,     \* per DAG run: "idle", "active", "success" or "failed"
    stage,      \* per DAG run: its current task
    midway,     \* per DAG run: the task is between its two steps
    retried,    \* per DAG run: the task has used its retry
    id,         \* per DAG run: the XCom of get_or_create_run_id, or the id its task has read
    extracted,  \* per id: "none", "partial" or "whole"
    staged,     \* per id: what of it the compaction manifest names
    stuck,      \* <<id, task>>: no attempt gets the id through the task any more
    loads,      \* the loads of files in the order in which they began
    bronze,     \* the loads whose rows bronze_msme has
    silver,     \* the loads whose rows silver_msme has
    overlapped, \* history: two DAG runs, or a DAG run and a detached load, met
    faults

idVars   == <<active, tmpfile, ids, creator>>
dagVars  == <<status, stage, midway, retried, id>>
dataVars == <<extracted, staged, stuck, loads, bronze, silver>>
vars == <<idVars, dagVars, dataVars, overlapped, faults>>

Runs   == Incremental \cup FullRefresh
Ids    == 1..MaxIds
Levels == {"none", "partial", "whole"}
Files  == 1..2

Tasks(r) == IF r \in Incremental
            THEN <<"run_id", "extract", "compact", "load", "dbt", "docs", "clear">>
            ELSE <<"extract", "compact", "load", "dbt", "docs">>

Fault   == faults < MaxFaults /\ faults' = faults + 1
NoFault == UNCHANGED faults

Running == {r \in Runs : status[r] = "active"}

-----------------------------------------------------------------------------
(* Helpers *)

Committed == {n \in DOMAIN loads : loads[n].state = "committed"}
Detached  == {n \in DOMAIN loads : loads[n].state = "detached"}

\* The files the loader finds in the stage at a level.
FilesOf(level) == {f \in Files : level = "whole" \/ (level = "partial" /\ f = 1)}

\* The loader finds rows for every batch of the file, or more rows than it has.
LoadedFile(i, f) == \E n \in Committed : loads[n].id = i /\ loads[n].file = f
Doubled(i, f) ==
    Cardinality({n \in Committed : loads[n].id = i /\ loads[n].file = f}) > 1

Loaded(i, level) == \A f \in FilesOf(level) : LoadedFile(i, f)

\* Variant: only the rows of the newest load are taken.
Bug_OnlyNewest(table, source) ==
    IF table = {} \/ source = {} THEN source ELSE table \cup {Max(source)}

\* What dbt makes of a table over its source: a table that is not there is built from all
\* of the source, one that is takes what is newer than its newest row.
Incremented(table, source) ==
    IF table = {} THEN source ELSE table \cup {n \in source : n > Max(table)}
Rebuilt(r, table, source) ==
    IF r \in FullRefresh THEN source ELSE Incremented(table, source)

\* The id a task after the first works on.
IdOf(r) == IF r \in Incremental THEN id[r] ELSE tmpfile

\* A run id is generated for r.
Generate(r) ==
    /\ ids < MaxIds /\ ids' = ids + 1
    /\ creator' = [creator EXCEPT ![ids + 1] = r]

\* The current task of r succeeds: the next one, or the end of the DAG run.
Done(r) ==
    LET n == CHOOSE k \in DOMAIN Tasks(r) : Tasks(r)[k] = stage[r]
    IN  /\ IF n = Len(Tasks(r))
           THEN status' = [status EXCEPT ![r] = "success"] /\ UNCHANGED stage
           ELSE stage' = [stage EXCEPT ![r] = Tasks(r)[n + 1]] /\ UNCHANGED status
        /\ midway' = [midway EXCEPT ![r] = FALSE]
        /\ retried' = [retried EXCEPT ![r] = FALSE]

\* Variant: the load is followed by dbt whether or not it succeeded (an all_done trigger rule).
Bug_FailedIsDone(r) ==
    /\ stage' = [stage EXCEPT ![r] = IF @ = "load" THEN "dbt" ELSE @]
    /\ status' = [status EXCEPT ![r] = IF stage[r] = "load" THEN @ ELSE "failed"]
    /\ midway' = [midway EXCEPT ![r] = FALSE] /\ retried' = [retried EXCEPT ![r] = FALSE]
    /\ UNCHANGED id
\* Variant: a DAG run that fails is recorded as waiting for a retry for ever.
Bug_UpForRetry(r) ==
    /\ status' = [status EXCEPT ![r] = "up_for_retry"]
    /\ midway' = [midway EXCEPT ![r] = FALSE]
    /\ UNCHANGED <<stage, retried, id>>

\* The current task of r fails: it is retried from its beginning, or the DAG run fails.
Failed(r) ==
    /\ IF r \in Incremental /\ ~retried[r]
       THEN retried' = [retried EXCEPT ![r] = TRUE] /\ UNCHANGED status
       ELSE /\ status' = [status EXCEPT ![r] = "failed"]
            /\ retried' = [retried EXCEPT ![r] = FALSE]
    /\ midway' = [midway EXCEPT ![r] = FALSE]
    /\ UNCHANGED <<stage, id>>

\* It fails and its retry fails in the same way.
FailedAgain(r) ==
    /\ r \in Incremental /\ ~retried[r]
    /\ status' = [status EXCEPT ![r] = "failed"] /\ midway' = [midway EXCEPT ![r] = FALSE]
    /\ UNCHANGED <<stage, retried, id>>

At(r, task, half) == r \in Running /\ stage[r] = task /\ midway[r] = half
Halfway(r) == midway' = [midway EXCEPT ![r] = TRUE] /\ UNCHANGED <<status, stage, retried>>

\* A new run takes the slot of a run that nobody can return to, if there is one.
FreeSlot(r) ==
    LET slots == IF r \in Incremental THEN Incremental ELSE FullRefresh
        over  == {q \in slots : status[q] \in {"idle", "success"}}
    IN  over # {} => r = CHOOSE q \in over : TRUE

\* A running DAG run that is going to generate an id; the bound leaves room for another one.
NeedsId(r) == ~midway[r] /\ IF r \in Incremental THEN stage[r] = "run_id" /\ active = 0
                                                ELSE stage[r] = "extract"
RoomForId  == ids + Cardinality({r \in Running : NeedsId(r)}) < MaxIds

-----------------------------------------------------------------------------
Init ==
    /\ active = 0 /\ tmpfile = 0 /\ ids = 0
    /\ creator = [i \in Ids |-> 0]
    /\ status = [r \in Runs |-> "idle"] /\ stage = [r \in Runs |-> Tasks(r)[1]]
    /\ midway = [r \in Runs |-> FALSE] /\ retried = [r \in Runs |-> FALSE]
    /\ id = [r \in Runs |-> 0]
    /\ extracted = [i \in Ids |-> "none"] /\ staged = [i \in Ids |-> "none"]
    /\ stuck = {} /\ loads = <<>> /\ bronze = {} /\ silver = {}
    /\ overlapped = FALSE /\ faults = 0

(* A DAG run starts: the schedule or a user triggers it.  max_active_runs    *)
(* holds for the incremental DAG only; meeting another run is bounded as a   *)
(* fault.                                                                    *)
Trigger(r) ==
    /\ r \notin Running /\ FreeSlot(r)
    /\ IF r \in Incremental
       THEN Running \cap Incremental = {} /\ (active # 0 \/ RoomForId)
       ELSE RoomForId
    /\ status' = [status EXCEPT ![r] = "active"]
    /\ stage' = [stage EXCEPT ![r] = Tasks(r)[1]]
    /\ id' = [id EXCEPT ![r] = 0]
    /\ overlapped' = (overlapped \/ Running # {} \/ Detached # {})
    /\ IF Running = {} THEN NoFault ELSE Fault
    /\ UNCHANGED <<idVars, dataVars, midway, retried>>

(* A user clears the failed task of an older DAG run, which goes on with its *)
(* XCom or with whatever the id file holds by now.                           *)
Rerun(r) ==
    /\ status[r] = "failed"
    /\ IF Running = {} THEN NoFault ELSE Fault
    /\ r \in Incremental => Running \cap Incremental = {}
    /\ NeedsId(r) => RoomForId
    /\ status' = [status EXCEPT ![r] = "active"]
    /\ overlapped' = (overlapped \/ Running # {} \/ Detached # {}
                      \/ (r \in FullRefresh /\ tmpfile # 0 /\ creator[tmpfile] # r))
    /\ UNCHANGED <<idVars, dataVars, stage, midway, retried, id>>

\* get_or_create_run_id
GetRunId(r) ==
    /\ At(r, "run_id", FALSE)
    /\ IF active # 0 THEN UNCHANGED <<active, ids, creator>>
                     ELSE Generate(r) /\ active' = ids + 1
    /\ id' = [id EXCEPT ![r] = active'] /\ Done(r)
    /\ UNCHANGED <<tmpfile, dataVars, overlapped, faults>>

\* Variant: an id file that is there is kept.
Bug_KeepTmpfile(r) ==
    /\ r \in FullRefresh /\ At(r, "extract", FALSE)
    /\ Generate(r) /\ tmpfile' = (IF tmpfile = 0 THEN ids + 1 ELSE tmpfile) /\ Halfway(r)
    /\ UNCHANGED <<active, id, dataVars, overlapped, faults>>

\* The full refresh generates an id, writes it to the file and reads it back.
WriteRunId(r) ==
    /\ r \in FullRefresh /\ At(r, "extract", FALSE)
    /\ Generate(r) /\ tmpfile' = ids + 1 /\ Halfway(r)
    /\ UNCHANGED <<active, id, dataVars, overlapped, faults>>

\* The extraction gets to its end, or to an artifact that no manifest line names.
Extract(r) ==
    /\ At(r, "extract", r \in FullRefresh)
    /\ \/ <<IdOf(r), "extract">> \in stuck /\ Failed(r) /\ UNCHANGED extracted
       \/ /\ <<IdOf(r), "extract">> \notin stuck
          /\ extracted' = [extracted EXCEPT ![IdOf(r)] = "whole"] /\ Done(r) /\ UNCHANGED id
    /\ UNCHANGED <<idVars, staged, stuck, loads, bronze, silver, overlapped, faults>>

\* Without a manifest, or with what it refuses, compaction fails.
Compact(r) ==
    /\ At(r, "compact", FALSE)
    /\ IF extracted[IdOf(r)] = "none" \/ <<IdOf(r), "compact">> \in stuck
       THEN Failed(r) /\ UNCHANGED staged
       ELSE staged' = [staged EXCEPT ![IdOf(r)] = extracted[IdOf(r)]] /\ Done(r) /\ UNCHANGED id
    /\ UNCHANGED <<idVars, extracted, stuck, loads, bronze, silver, overlapped, faults>>

\* The loader loads the files the stage has of the id, one after the other, but for those
\* whose rows are already there; rows that are there twice end it.
BeginLoad(r) ==
    /\ At(r, "load", FALSE)
    /\ LET i       == IdOf(r)
           level   == IF staged[i] # "none" THEN staged[i] ELSE extracted[i]
           refused == level = "none" \/ \E f \in FilesOf(level) : Doubled(i, f)
       IN  \/ refused /\ Failed(r) /\ UNCHANGED loads
           \/ ~refused /\ Loaded(i, level) /\ Done(r) /\ UNCHANGED <<id, loads>>
           \/ /\ ~refused
              /\ \E first, last \in Files :
                    /\ first <= last
                    /\ first..last = {f \in FilesOf(level) : ~LoadedFile(i, f)}
                    /\ loads' = loads \o [k \in 1..(last - first + 1) |->
                         [id |-> i, file |-> first + k - 1, run |-> r, state |-> "running"]]
              /\ Halfway(r) /\ UNCHANGED id
    /\ UNCHANGED <<idVars, extracted, staged, stuck, bronze, silver, overlapped, faults>>

\* How the files of a load may end: visible, undone, or on the way without their client.
\* Nothing is begun after a file that did not become visible.
Outcomes == {o \in [Files -> {"committed", "undone", "detached"}] :
                \A f, g \in Files : f < g /\ o[f] # "committed" => o[g] = "undone"}

Ends(r, outcome) == loads' = [n \in DOMAIN loads |->
    IF loads[n].run = r /\ loads[n].state = "running"
    THEN [loads[n] EXCEPT !.state = outcome[loads[n].file]] ELSE loads[n]]

\* The files under way by r whose rows a detached load has brought in the meantime.
Doubling(r) == {f \in Files : \E n \in DOMAIN loads :
    /\ loads[n].run = r /\ loads[n].state = "running" /\ loads[n].file = f
    /\ LoadedFile(loads[n].id, f)}

\* The rows are counted after each file: the load ends with the first that has too many.
CommitLoad(r) ==
    /\ At(r, "load", TRUE)
    /\ \/ /\ Doubling(r) = {}
          /\ Ends(r, [f \in Files |-> "committed"]) /\ Done(r) /\ UNCHANGED id
       \/ \E bad \in Doubling(r) :
             /\ \A f \in Doubling(r) : bad <= f
             /\ Ends(r, [f \in Files |-> IF f <= bad THEN "committed" ELSE "undone"])
             /\ Failed(r)
    /\ UNCHANGED <<idVars, extracted, staged, stuck, bronze, silver, overlapped, faults>>

LateCommit ==
    /\ \E n \in Detached : loads' = [loads EXCEPT ![n].state = "committed"]
    /\ UNCHANGED <<idVars, dagVars, extracted, staged, stuck, bronze, silver, overlapped, faults>>

BuildBronze(r) ==
    /\ At(r, "dbt", FALSE)
    /\ bronze' = Rebuilt(r, bronze, Committed) /\ Halfway(r)
    /\ UNCHANGED <<idVars, id, extracted, staged, stuck, loads, silver, overlapped, faults>>

BuildSilver(r) ==
    /\ At(r, "dbt", TRUE)
    /\ silver' = Rebuilt(r, silver, bronze) /\ Done(r)
    /\ UNCHANGED <<idVars, id, extracted, staged, stuck, loads, bronze, overlapped, faults>>

GenerateDocs(r) ==
    /\ At(r, "docs", FALSE) /\ Done(r)
    /\ UNCHANGED <<idVars, id, dataVars, overlapped, faults>>

\* Variant: the id is checked and not deleted.
Bug_NeverCleared(r) ==
    /\ At(r, "clear", FALSE) /\ active \in {0, id[r]} /\ Done(r)
    /\ UNCHANGED <<active, id, tmpfile, ids, creator, dataVars, overlapped, faults>>

\* clear_run_id_after_success: nothing to clear, the id of this run, or another one.
ClearRunId(r) ==
    /\ At(r, "clear", FALSE)
    /\ \/ active = 0 /\ Done(r) /\ UNCHANGED <<active, id>>
       \/ active # 0 /\ active = id[r] /\ active' = 0 /\ Done(r) /\ UNCHANGED id
       \/ active # 0 /\ active # id[r] /\ Failed(r) /\ UNCHANGED active
    /\ UNCHANGED <<tmpfile, ids, creator, dataVars, overlapped, faults>>

(* A task fails or its worker is lost: before its effect, after it, or with  *)
(* a part of it.  An extraction may leave an artifact without its manifest   *)
(* line, which ends every later attempt, or a line that is not JSON; that    *)
(* and a batch above the file size are what compaction refuses for good.     *)
(* dbt may fail with bronze or silver built.  The retry may meet the same    *)
(* failure: if that changes no data, it is one fault with it.                *)
TaskFails(r) ==
    /\ r \in Running /\ Fault
    /\ Failed(r) \/ (FailedAgain(r) /\ UNCHANGED dataVars)
    /\ \/ stage[r] # "load" /\ UNCHANGED <<active, ids, creator, dataVars>>
       \/ /\ stage[r] = "run_id" /\ active = 0
          /\ Generate(r) /\ active' = ids + 1 /\ UNCHANGED dataVars
       \/ /\ stage[r] = "extract" /\ midway[r] = (r \in FullRefresh)
          /\ extracted[IdOf(r)] # "whole"
          /\ \/ \E level \in {"partial", "whole"} :
                   extracted' = [extracted EXCEPT ![IdOf(r)] = level] /\ UNCHANGED stuck
             \/ /\ extracted' = [extracted EXCEPT ![IdOf(r)] = "partial"]
                /\ \E task \in {"extract", "compact"} : stuck' = stuck \cup {<<IdOf(r), task>>}
          /\ UNCHANGED <<active, ids, creator, staged, loads, bronze, silver>>
       \/ /\ stage[r] = "compact" /\ staged[IdOf(r)] # extracted[IdOf(r)]
          /\ \/ /\ staged' = [staged EXCEPT ![IdOf(r)] = extracted[IdOf(r)]]
                /\ UNCHANGED stuck
             \/ stuck' = stuck \cup {<<IdOf(r), "compact">>} /\ UNCHANGED staged
          /\ UNCHANGED <<active, ids, creator, extracted, loads, bronze, silver>>
       \/ /\ stage[r] = "load" /\ \E outcome \in Outcomes : Ends(r, outcome)
          /\ UNCHANGED <<active, ids, creator, extracted, staged, stuck, bronze, silver>>
       \/ /\ stage[r] = "dbt" /\ midway[r] /\ silver' = Rebuilt(r, silver, bronze)
          /\ UNCHANGED <<active, ids, creator, extracted, staged, stuck, loads, bronze>>
       \/ /\ stage[r] = "clear" /\ active = id[r]
          /\ active' = 0 /\ UNCHANGED <<ids, creator, dataVars>>
    /\ UNCHANGED <<tmpfile, overlapped>>

TaskStep(r) ==
    \/ GetRunId(r) \/ WriteRunId(r) \/ Extract(r) \/ Compact(r)
    \/ BeginLoad(r) \/ CommitLoad(r) \/ BuildBronze(r) \/ BuildSilver(r)
    \/ GenerateDocs(r) \/ ClearRunId(r)

Next ==
    \/ \E r \in Runs : Trigger(r) \/ Rerun(r) \/ TaskStep(r) \/ TaskFails(r)
    \/ LateCommit

Spec == Init /\ [][Next]_vars

(* Airflow goes on with some running DAG run, and starts the incremental DAG *)
(* again as long as its id is active: twice a month, or by hand as the       *)
(* Readme asks.  A run waits for the DAG's one slot (max_active_runs), which *)
(* users who clear old tasks do not keep from it for ever.                   *)
Fairness ==
    /\ WF_vars(\E r \in Runs : TaskStep(r))
    /\ SF_vars(\E r \in Incremental : active # 0 /\ Trigger(r))

FairSpec == Spec /\ Fairness

-----------------------------------------------------------------------------
(* Properties *)

TypeOK ==
    /\ active \in 0..ids /\ tmpfile \in 0..ids /\ ids \in 0..MaxIds
    /\ creator \in [Ids -> Runs \cup {0}]
    /\ status \in [Runs -> {"idle", "active", "success", "failed"}]
    /\ \A r \in Runs : \E k \in DOMAIN Tasks(r) : stage[r] = Tasks(r)[k]
    /\ midway \in [Runs -> BOOLEAN] /\ retried \in [Runs -> BOOLEAN]
    /\ id \in [Runs -> 0..ids]
    /\ extracted \in [Ids -> Levels] /\ staged \in [Ids -> Levels]
    /\ stuck \subseteq Ids \X {"extract", "compact"}
    /\ \A n \in DOMAIN loads : loads[n] \in
         [id : Ids, file : Files, run : Runs,
          state : {"running", "committed", "undone", "detached"}]
    /\ bronze \subseteq Committed /\ silver \subseteq bronze
    /\ overlapped \in BOOLEAN /\ faults \in 0..MaxFaults

InSilver(i) == \A f \in Files : \E n \in silver : loads[n].id = i /\ loads[n].file = f

(* An id of the incremental DAG that is no longer active has gone through    *)
(* every stage: extracted, compacted and loaded as a whole, and in silver    *)
(* unless runs overlapped.  Task retries, failed runs, users who clear old   *)
(* tasks and overlapping full refreshes never drop an unfinished id          *)
(* (get_or_create_run_id, clear_run_id_after_success, Readme.md:707-714).    *)
NeverAbandoned ==
    \A i \in 1..ids : creator[i] \in Incremental /\ active # i =>
        /\ extracted[i] = "whole" /\ staged[i] = "whole" /\ Loaded(i, "whole")
        /\ overlapped \/ InSilver(i)

(* A full refresh that succeeds and met no other run has refreshed the       *)
(* tables with its own extraction, although the id goes through a file that  *)
(* all its runs share.                                                       *)
FullRefreshIsOwn ==
    \A r \in FullRefresh : status[r] = "success" /\ ~overlapped =>
        InSilver(Max({i \in 1..ids : creator[i] = r}))

(* No committed load is behind the high-water mark of a table that does not  *)
(* have it: it is in the table, or newer, or another load of the same file   *)
(* of the same id is there.  A load that commits after a later one was       *)
(* transformed would be skipped for ever, which takes two runs, or a run and *)
(* a detached load of another id.                                            *)
NothingStranded ==
    ~overlapped =>
        \A pair \in {<<Committed, bronze>>, <<bronze, silver>>} :
            \A n \in pair[1] \ pair[2] :
                \A m \in pair[2] :
                    n > m \/ \E k \in pair[2] : /\ loads[k].id = loads[n].id
                                               /\ loads[k].file = loads[n].file

\* What no retry and no further run gets through: an artifact without a line, what
\* compaction refuses, rows that are there twice.
NeedsRepair(i) ==
    \/ \E task \in {"extract", "compact"} : <<i, task>> \in stuck
    \/ \E f \in Files : Doubled(i, f)

(* The id of an incremental run does not stay active for ever, unless it has *)
(* come to what needs a repair by hand: retries and further runs get every   *)
(* other one through every stage, and again and again there is no active id  *)
(* or one that has come to this.                                             *)
EveryIdCompletes == []<>(active = 0 \/ NeedsRepair(active))

=============================================================================
