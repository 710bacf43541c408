---------------------------- MODULE PipelinesProofs ----------------------------
(***************************************************************************)
(* Proofs about Pipelines, for any number of runs of the two DAGs, run     *)
(* ids and faults.                                                         *)
(***************************************************************************)
EXTENDS Pipelines, WellFoundedInduction, SequenceTheorems, TLAPS

-----------------------------------------------------------------------------
(* The largest number of a set *)

LEMMA MaxOf ==
    ASSUME NEW N \in Nat, NEW S \in SUBSET (1..N), S # {}
    PROVE  Max(S) \in S /\ \A y \in S : Max(S) >= y
<1> DEFINE T == {N - x : x \in S}
<1>1. T \subseteq Nat /\ T # {}
  <2>1. \A x \in S : N - x \in Nat
    OBVIOUS
  <2>2. PICK x \in S : TRUE
    OBVIOUS
  <2> QED
    BY <2>1, <2>2
<1>2. PICK t \in T : \A y \in T : t <= y
  <2> HIDE DEF T
  <2>1. PICK t \in T : \A y \in T : ~ (<<y, t>> \in OpToRel(<, Nat))
    BY <1>1, NatLessThanWellFounded, WFMin, Zenon
  <2>2. \A y \in T : ~ (y < t)
    BY <1>1, <2>1 DEF OpToRel
  <2> QED
    BY <1>1, <2>2
<1>3. PICK x \in S : t = N - x
  BY <1>2
<1>4. \A y \in S : N - y \in T /\ y \in Nat /\ x \in Nat
  OBVIOUS
<1>5. ASSUME NEW y \in S PROVE x >= y
  <2>1. N - y \in T /\ y \in Nat /\ x \in Nat
    BY <1>4
  <2>2. t <= N - y
    BY <1>2, <2>1
  <2> HIDE DEF T
  <2> QED
    BY <1>3, <2>1, <2>2
<1> QED
  BY <1>5 DEF Max

\* A number of the set that no other exceeds is its maximum.
LEMMA MaxIs ==
    ASSUME NEW N \in Nat, NEW S \in SUBSET (1..N), NEW x \in S, \A y \in S : y <= x
    PROVE  Max(S) = x
<1>1. S # {}
  OBVIOUS
<1>2. Max(S) \in S /\ \A y \in S : Max(S) >= y
  BY <1>1, MaxOf
<1>3. Max(S) \in 1..N /\ x \in 1..N
  BY <1>2
<1>4. Max(S) >= x /\ Max(S) <= x
  BY <1>2
<1> QED
  BY <1>3, <1>4

-----------------------------------------------------------------------------
(* Types *)

Statuses == {"idle", "active", "success", "failed"}
StagesOf(r) ==
    IF r \in Incremental
    THEN {"run_id", "extract", "compact", "load", "dbt", "docs", "clear"}
    ELSE {"extract", "compact", "load", "dbt", "docs"}
LoadRecords == [id : Ids, file : Files, run : Runs,
                state : {"running", "committed", "undone", "detached"}]

IdsTyped ==
    /\ ids \in 0..MaxIds /\ active \in 0..ids /\ tmpfile \in 0..ids
    /\ creator \in [Ids -> Runs \cup {0}]

RunsTyped ==
    /\ status \in [Runs -> Statuses] /\ stage \in [Runs -> UNION {StagesOf(r) : r \in Runs}]
    /\ \A r \in Runs : stage[r] \in StagesOf(r)
    /\ midway \in [Runs -> BOOLEAN] /\ retried \in [Runs -> BOOLEAN]
    /\ id \in [Runs -> Nat] /\ \A r \in Runs : id[r] <= ids

DataTyped ==
    /\ extracted \in [Ids -> Levels] /\ staged \in [Ids -> Levels]
    /\ stuck \subseteq Ids \X {"extract", "compact"}
    /\ loads \in Seq(LoadRecords)
    /\ overlapped \in BOOLEAN /\ faults \in 0..MaxFaults

\* A task that works on an id has one; only a running DAG run is between two steps.
Named ==
    /\ \A r \in Incremental : stage[r] # "run_id" => id[r] # 0
    /\ \A r \in FullRefresh : stage[r] # "extract" \/ midway[r] => tmpfile # 0
    /\ \A r \in Runs : midway[r] => status[r] = "active"

Typed == IdsTyped /\ RunsTyped /\ DataTyped /\ Named

\* The stage after a stage; the last one of a DAG.
Following == [run_id |-> "extract", extract |-> "compact", compact |-> "load",
              load |-> "dbt", dbt |-> "docs", docs |-> "clear"]
LastOf(r) == IF r \in Incremental THEN "clear" ELSE "docs"
FirstOf(r) == IF r \in Incremental THEN "run_id" ELSE "extract"

LEMMA TaskOrder ==
    ASSUME NEW r \in Runs, NEW t \in StagesOf(r)
    PROVE  LET n == CHOOSE k \in DOMAIN Tasks(r) : Tasks(r)[k] = t
           IN  /\ n = Len(Tasks(r)) <=> t = LastOf(r)
               /\ t # LastOf(r) => Tasks(r)[n + 1] = Following[t] /\ Following[t] \in StagesOf(r)
               /\ \E k \in DOMAIN Tasks(r) : Tasks(r)[k] = t
<1> DEFINE n == CHOOSE k \in DOMAIN Tasks(r) : Tasks(r)[k] = t
<1>1. CASE r \in Incremental
  <2>1. Tasks(r) = <<"run_id", "extract", "compact", "load", "dbt", "docs", "clear">>
    BY <1>1 DEF Tasks
  <2>2. DOMAIN Tasks(r) = 1..7 /\ Len(Tasks(r)) = 7
    BY <2>1
  <2>3. \E k \in DOMAIN Tasks(r) : Tasks(r)[k] = t
    BY <1>1, <2>1 DEF StagesOf
  <2>4. n \in 1..7 /\ Tasks(r)[n] = t
    BY <2>2, <2>3
  <2> HIDE DEF n
  <2>5. /\ n = 7 <=> t = "clear"
        /\ t # "clear" => Tasks(r)[n + 1] = Following[t] /\ Following[t] \in StagesOf(r)
    BY <1>1, <2>1, <2>4 DEF Following, StagesOf
  <2> QED
    BY <1>1, <2>2, <2>3, <2>5 DEF n, LastOf
<1>2. CASE r \notin Incremental
  <2>1. Tasks(r) = <<"extract", "compact", "load", "dbt", "docs">>
    BY <1>2 DEF Tasks
  <2>2. DOMAIN Tasks(r) = 1..5 /\ Len(Tasks(r)) = 5
    BY <2>1
  <2>3. \E k \in DOMAIN Tasks(r) : Tasks(r)[k] = t
    BY <1>2, <2>1 DEF StagesOf
  <2>4. n \in 1..5 /\ Tasks(r)[n] = t
    BY <2>2, <2>3
  <2> HIDE DEF n
  <2>5. /\ n = 5 <=> t = "docs"
        /\ t # "docs" => Tasks(r)[n + 1] = Following[t] /\ Following[t] \in StagesOf(r)
    BY <1>2, <2>1, <2>4 DEF Following, StagesOf
  <2> QED
    BY <1>2, <2>2, <2>3, <2>5 DEF n, LastOf
<1> QED
  BY <1>1, <1>2

LEMMA FirstTask == ASSUME NEW r \in Runs PROVE Tasks(r)[1] = FirstOf(r) /\ FirstOf(r) \in StagesOf(r)
BY DEF Tasks, FirstOf, StagesOf

-----------------------------------------------------------------------------
(* What a step does to the DAG run that takes it *)

Others(r) ==
    \A q \in Runs \ {r} :
        /\ status'[q] = status[q] /\ stage'[q] = stage[q] /\ id'[q] = id[q]
        /\ midway'[q] <=> midway[q]

RowTypes ==
    /\ status' \in [Runs -> Statuses] /\ stage' \in [Runs -> UNION {StagesOf(r) : r \in Runs}]
    /\ midway' \in [Runs -> BOOLEAN] /\ retried' \in [Runs -> BOOLEAN]

LEMMA DoneRow ==
    ASSUME RunsTyped, NEW r \in Runs, status[r] = "active", Done(r)
    PROVE  /\ RowTypes
           /\ status'[r] = (IF stage[r] = LastOf(r) THEN "success" ELSE "active")
           /\ stage'[r] = (IF stage[r] = LastOf(r) THEN stage[r] ELSE Following[stage[r]])
           /\ stage'[r] \in StagesOf(r)
           /\ ~ midway'[r]
           /\ \A q \in Runs \ {r} : status'[q] = status[q] /\ stage'[q] = stage[q]
                                    /\ (midway'[q] <=> midway[q])
<1> DEFINE n == CHOOSE k \in DOMAIN Tasks(r) : Tasks(r)[k] = stage[r]
<1>1. /\ status \in [Runs -> Statuses] /\ stage[r] \in StagesOf(r)
      /\ stage \in [Runs -> UNION {StagesOf(q) : q \in Runs}]
  BY DEF RunsTyped
<1>2. midway \in [Runs -> BOOLEAN] /\ retried \in [Runs -> BOOLEAN]
  BY DEF RunsTyped
<1>3. midway' = [midway EXCEPT ![r] = FALSE] /\ retried' = [retried EXCEPT ![r] = FALSE]
  BY DEF Done
<1>4. /\ midway' \in [Runs -> BOOLEAN] /\ retried' \in [Runs -> BOOLEAN] /\ ~ midway'[r]
      /\ \A q \in Runs \ {r} : midway'[q] <=> midway[q]
  BY <1>2, <1>3
<1>5. /\ n = Len(Tasks(r)) <=> stage[r] = LastOf(r)
      /\ stage[r] # LastOf(r) =>
            Tasks(r)[n + 1] = Following[stage[r]] /\ Following[stage[r]] \in StagesOf(r)
  BY <1>1, TaskOrder
<1>6. IF n = Len(Tasks(r))
      THEN status' = [status EXCEPT ![r] = "success"] /\ UNCHANGED stage
      ELSE stage' = [stage EXCEPT ![r] = Tasks(r)[n + 1]] /\ UNCHANGED status
  BY DEF Done
<1> HIDE DEF n
<1>7. CASE stage[r] = LastOf(r)
  <2>1. status' = [status EXCEPT ![r] = "success"] /\ stage' = stage
    BY <1>5, <1>6, <1>7
  <2> QED
    BY <1>1, <1>4, <1>7, <2>1 DEF RowTypes, Statuses
<1>8. CASE stage[r] # LastOf(r)
  <2>1. stage' = [stage EXCEPT ![r] = Following[stage[r]]] /\ status' = status
        /\ Following[stage[r]] \in StagesOf(r)
    BY <1>5, <1>6, <1>8
  <2>2. Following[stage[r]] \in UNION {StagesOf(q) : q \in Runs}
    BY <2>1
  <2> QED
    BY <1>1, <1>4, <1>8, <2>1, <2>2 DEF RowTypes
<1> QED
  BY <1>7, <1>8

\* A task that fails: its stage and id stay.
LEMMA FailedRow ==
    ASSUME RunsTyped, NEW r \in Runs, status[r] = "active", Failed(r) \/ FailedAgain(r)
    PROVE  /\ RowTypes
           /\ status'[r] \in {"active", "failed"} /\ stage' = stage /\ id' = id
           /\ ~ midway'[r]
           /\ \A q \in Runs \ {r} : status'[q] = status[q] /\ (midway'[q] <=> midway[q])
<1>1. /\ status \in [Runs -> Statuses] /\ stage \in [Runs -> UNION {StagesOf(q) : q \in Runs}]
      /\ midway \in [Runs -> BOOLEAN] /\ retried \in [Runs -> BOOLEAN]
  BY DEF RunsTyped
<1>2. /\ stage' = stage /\ id' = id /\ midway' = [midway EXCEPT ![r] = FALSE]
      /\ status' = status \/ status' = [status EXCEPT ![r] = "failed"]
  BY DEF Failed, FailedAgain
<1>3. \/ retried' = retried \/ retried' = [retried EXCEPT ![r] = TRUE]
      \/ retried' = [retried EXCEPT ![r] = FALSE]
  BY DEF Failed, FailedAgain
<1>4. retried' \in [Runs -> BOOLEAN]
  BY <1>1, <1>3
<1>5. midway' \in [Runs -> BOOLEAN] /\ ~ midway'[r]
      /\ \A q \in Runs \ {r} : midway'[q] <=> midway[q]
  BY <1>1, <1>2
<1>6. status' \in [Runs -> Statuses] /\ status'[r] \in {"active", "failed"}
      /\ \A q \in Runs \ {r} : status'[q] = status[q]
  BY <1>1, <1>2 DEF Statuses
<1> QED
  BY <1>1, <1>2, <1>4, <1>5, <1>6 DEF RowTypes

LEMMA HalfwayRow ==
    ASSUME RunsTyped, NEW r \in Runs, Halfway(r)
    PROVE  /\ RowTypes
           /\ status' = status /\ stage' = stage /\ midway'[r]
           /\ \A q \in Runs \ {r} : midway'[q] <=> midway[q]
BY DEF RunsTyped, Halfway, RowTypes


Row(r, st, sg, mw) ==
    /\ RowTypes /\ Others(r)
    /\ status'[r] = st /\ stage'[r] = sg /\ (midway'[r] <=> mw)
Fails(r) ==
    /\ RowTypes /\ Others(r) /\ id' = id
    /\ status'[r] \in {"active", "failed"} /\ stage'[r] = stage[r] /\ ~ midway'[r]

LEMMA AtFacts ==
    ASSUME Typed, NEW r \in Runs, NEW t, NEW h \in BOOLEAN, At(r, t, h)
    PROVE  status[r] = "active" /\ stage[r] = t /\ (midway[r] <=> h) /\ t \in StagesOf(r)
           /\ RunsTyped
BY DEF At, Running, Typed, RunsTyped

LEMMA FailsRow ==
    ASSUME Typed, NEW r \in Runs, status[r] = "active", Failed(r) \/ FailedAgain(r)
    PROVE  Fails(r)
BY FailedRow DEF Typed, Fails, Others

LEMMA NextRow ==
    ASSUME Typed, NEW r \in Runs, status[r] = "active", stage[r] # LastOf(r), Done(r),
           \A q \in Runs \ {r} : id'[q] = id[q]
    PROVE  Row(r, "active", Following[stage[r]], FALSE) /\ stage'[r] \in StagesOf(r)
BY DoneRow DEF Typed, Row, Others

LEMMA LastRow ==
    ASSUME Typed, NEW r \in Runs, status[r] = "active", stage[r] = LastOf(r), Done(r), id' = id
    PROVE  Row(r, "success", stage[r], FALSE)
BY DoneRow DEF Typed, Row, Others

LEMMA HalfRow ==
    ASSUME Typed, NEW r \in Runs, NEW t, At(r, t, FALSE), Halfway(r), id' = id
    PROVE  Row(r, "active", t, TRUE)
BY AtFacts, HalfwayRow DEF Row, Others

\* The id a task after the first works on is one that was generated.
LEMMA IdOfTyped ==
    ASSUME Typed, NEW r \in Runs, stage[r] # FirstOf(r) \/ (r \notin Incremental /\ midway[r])
    PROVE  IdOf(r) \in 1..ids /\ IdOf(r) \in Ids /\ IdOf(r) # 0
<1>1. CASE r \in Incremental
  <2>1. id[r] # 0 /\ id[r] \in Nat /\ id[r] <= ids
    BY <1>1 DEF Typed, Named, RunsTyped, FirstOf
  <2> QED
    BY <1>1, <2>1, BoundsAssumption DEF IdOf, Ids, Typed, IdsTyped
<1>2. CASE r \notin Incremental
  <2>1. tmpfile # 0
    BY <1>2 DEF Typed, Named, FirstOf, Runs
  <2> QED
    BY <1>2, <2>1, BoundsAssumption DEF IdOf, Ids, Typed, IdsTyped
<1> QED
  BY <1>1, <1>2

LEMMA TriggerEffect ==
    ASSUME Typed, NEW r \in Runs, Trigger(r)
    PROVE  /\ status[r] # "active" /\ Row(r, "active", FirstOf(r), FALSE)
           /\ id' = [id EXCEPT ![r] = 0]
           /\ UNCHANGED <<idVars, dataVars>>
           /\ overlapped' = (overlapped \/ Running # {} \/ Detached # {})
           /\ faults' = faults \/ (faults < MaxFaults /\ faults' = faults + 1)
<1>1. /\ status' = [status EXCEPT ![r] = "active"] /\ stage' = [stage EXCEPT ![r] = FirstOf(r)]
      /\ id' = [id EXCEPT ![r] = 0] /\ midway' = midway /\ retried' = retried
      /\ r \notin Running
  BY FirstTask DEF Trigger
<1>2. status[r] # "active" /\ ~ midway[r]
  BY <1>1 DEF Running, Typed, Named
<1>3. FirstOf(r) \in UNION {StagesOf(q) : q \in Runs}
  BY FirstTask
<1>4. RowTypes /\ Others(r) /\ status'[r] = "active" /\ stage'[r] = FirstOf(r)
  BY <1>1, <1>3 DEF Typed, RunsTyped, RowTypes, Others, Statuses
<1> QED
  BY <1>1, <1>2, <1>4 DEF Row, Trigger, Fault, NoFault

LEMMA RerunEffect ==
    ASSUME Typed, NEW r \in Runs, Rerun(r)
    PROVE  /\ status[r] = "failed" /\ Row(r, "active", stage[r], FALSE)
           /\ id' = id /\ UNCHANGED <<idVars, dataVars>>
           /\ overlapped' = (overlapped \/ Running # {} \/ Detached # {}
                             \/ (r \in FullRefresh /\ tmpfile # 0 /\ creator[tmpfile] # r))
           /\ faults' = faults \/ (faults < MaxFaults /\ faults' = faults + 1)
<1>1. /\ status' = [status EXCEPT ![r] = "active"] /\ stage' = stage /\ status[r] = "failed"
      /\ id' = id /\ midway' = midway /\ retried' = retried
  BY DEF Rerun
<1>2. ~ midway[r]
  BY <1>1 DEF Typed, Named
<1>3. RowTypes /\ Others(r) /\ status'[r] = "active" /\ stage'[r] = stage[r]
  BY <1>1 DEF Typed, RunsTyped, RowTypes, Others, Statuses
<1> QED
  BY <1>1, <1>2, <1>3 DEF Row, Rerun, Fault, NoFault

\* An id more.
LEMMA GenerateEffect ==
    ASSUME Typed, NEW r \in Runs, Generate(r)
    PROVE  /\ ids < MaxIds /\ ids' = ids + 1 /\ ids' \in 1..MaxIds /\ ids' \in Ids
           /\ creator' \in [Ids -> Runs \cup {0}] /\ creator'[ids'] = r
           /\ \A i \in 1..ids : creator'[i] = creator[i] /\ i \in 1..ids' /\ i # ids'
           /\ \A i \in 1..ids' : i \in 1..ids \/ i = ids'
<1>1. ids < MaxIds /\ ids' = ids + 1 /\ creator' = [creator EXCEPT ![ids + 1] = r]
  BY DEF Generate
<1>2. ids \in Nat /\ MaxIds \in Nat /\ creator \in [Ids -> Runs \cup {0}] /\ Ids = 1..MaxIds
  BY BoundsAssumption DEF Typed, IdsTyped, Ids
<1>3. ids + 1 \in Ids /\ ids' \in 1..MaxIds
  BY <1>1, <1>2
<1>4. creator' \in [Ids -> Runs \cup {0}] /\ creator'[ids'] = r
      /\ \A i \in Ids : i # ids' => creator'[i] = creator[i]
  BY <1>1, <1>2, <1>3
<1>5. \A i \in 1..ids : i \in Ids /\ i # ids' /\ i \in 1..ids'
  BY <1>1, <1>2
<1>6. \A i \in 1..ids' : i \in 1..ids \/ i = ids'
  BY <1>1, <1>2
<1> QED
  BY <1>1, <1>2, <1>3, <1>4, <1>5, <1>6

LEMMA GetRunIdEffect ==
    ASSUME Typed, NEW r \in Runs, GetRunId(r)
    PROVE  /\ r \in Incremental /\ status[r] = "active" /\ stage[r] = "run_id"
           /\ Row(r, "active", "extract", FALSE)
           /\ id' = [id EXCEPT ![r] = active']
           /\ active # 0 => UNCHANGED <<active, ids, creator>>
           /\ active = 0 => Generate(r) /\ active' = ids'
           /\ UNCHANGED <<tmpfile, dataVars, overlapped, faults>>
<1>1. /\ status[r] = "active" /\ stage[r] = "run_id" /\ r \in Incremental
      /\ Done(r) /\ id' = [id EXCEPT ![r] = active']
  <2>1. At(r, "run_id", FALSE) /\ Done(r) /\ id' = [id EXCEPT ![r] = active']
    BY DEF GetRunId
  <2> QED
    BY <2>1, AtFacts DEF StagesOf
<1>2. \A q \in Runs \ {r} : id'[q] = id[q]
  BY <1>1 DEF Typed, RunsTyped
<1>3. Row(r, "active", Following[stage[r]], FALSE)
  BY <1>1, <1>2, NextRow DEF LastOf
<1>4. Following[stage[r]] = "extract"
  BY <1>1 DEF Following
<1> QED
  BY <1>1, <1>3, <1>4 DEF GetRunId, Generate

LEMMA WriteRunIdEffect ==
    ASSUME Typed, NEW r \in Runs, WriteRunId(r)
    PROVE  /\ r \in FullRefresh /\ status[r] = "active" /\ stage[r] = "extract"
           /\ Row(r, "active", "extract", TRUE)
           /\ Generate(r) /\ tmpfile' = ids'
           /\ UNCHANGED <<active, id, dataVars, overlapped, faults>>
<1>1. At(r, "extract", FALSE) /\ Halfway(r) /\ id' = id /\ r \in FullRefresh
  BY DEF WriteRunId
<1>2. Row(r, "active", "extract", TRUE) /\ status[r] = "active" /\ stage[r] = "extract"
  BY <1>1, HalfRow, AtFacts
<1> QED
  BY <1>1, <1>2 DEF WriteRunId, Generate

LEMMA ExtractEffect ==
    ASSUME Typed, NEW r \in Runs, Extract(r)
    PROVE  /\ status[r] = "active" /\ stage[r] = "extract" /\ (midway[r] <=> r \in FullRefresh)
           /\ IdOf(r) \in Ids /\ IdOf(r) # 0
           /\ \/ Fails(r) /\ extracted' = extracted
              \/ /\ Row(r, "active", "compact", FALSE) /\ id' = id
                 /\ extracted' = [extracted EXCEPT ![IdOf(r)] = "whole"]
           /\ UNCHANGED <<idVars, staged, stuck, loads, bronze, silver, overlapped, faults>>
<1>1. At(r, "extract", r \in FullRefresh)
  BY DEF Extract
<1>2. status[r] = "active" /\ stage[r] = "extract" /\ (midway[r] <=> r \in FullRefresh)
  <2>1. (r \in FullRefresh) \in BOOLEAN
    OBVIOUS
  <2> QED
    BY <1>1, <2>1, AtFacts, Zenon
<1>3. IdOf(r) \in Ids /\ IdOf(r) # 0
  BY <1>2, IdOfTyped DEF FirstOf, Runs
<1>4. CASE Failed(r) /\ extracted' = extracted
  <2>1. Fails(r)
    BY <1>2, <1>4, FailsRow
  <2> QED
    BY <1>2, <1>3, <1>4, <2>1 DEF Extract
<1>5. CASE Done(r) /\ id' = id /\ extracted' = [extracted EXCEPT ![IdOf(r)] = "whole"]
  <2>1. Row(r, "active", Following[stage[r]], FALSE)
    BY <1>2, <1>5, NextRow DEF LastOf
  <2>2. Following[stage[r]] = "compact"
    BY <1>2 DEF Following
  <2> QED
    BY <1>2, <1>3, <1>5, <2>1, <2>2 DEF Extract
<1> QED
  BY <1>4, <1>5 DEF Extract

LEMMA CompactEffect ==
    ASSUME Typed, NEW r \in Runs, Compact(r)
    PROVE  /\ status[r] = "active" /\ stage[r] = "compact" /\ ~ midway[r]
           /\ IdOf(r) \in Ids /\ IdOf(r) # 0
           /\ \/ Fails(r) /\ staged' = staged
              \/ /\ Row(r, "active", "load", FALSE) /\ id' = id
                 /\ staged' = [staged EXCEPT ![IdOf(r)] = extracted[IdOf(r)]]
           /\ UNCHANGED <<idVars, extracted, stuck, loads, bronze, silver, overlapped, faults>>
<1>1. At(r, "compact", FALSE)
  BY DEF Compact
<1>2. status[r] = "active" /\ stage[r] = "compact" /\ ~ midway[r]
  BY <1>1, AtFacts
<1>3. IdOf(r) \in Ids /\ IdOf(r) # 0
  BY <1>2, IdOfTyped DEF FirstOf
<1>4. CASE Failed(r) /\ staged' = staged
  <2>1. Fails(r)
    BY <1>2, <1>4, FailsRow
  <2> QED
    BY <1>2, <1>3, <1>4, <2>1 DEF Compact
<1>5. CASE Done(r) /\ id' = id /\ staged' = [staged EXCEPT ![IdOf(r)] = extracted[IdOf(r)]]
  <2>1. Row(r, "active", Following[stage[r]], FALSE)
    BY <1>2, <1>5, NextRow DEF LastOf
  <2>2. Following[stage[r]] = "load"
    BY <1>2 DEF Following
  <2> QED
    BY <1>2, <1>3, <1>5, <2>1, <2>2 DEF Compact
<1> QED
  BY <1>4, <1>5 DEF Compact

LevelOf(r) == IF staged[IdOf(r)] # "none" THEN staged[IdOf(r)] ELSE extracted[IdOf(r)]

\* The loads of files that r begins: of its id, in order, and what is missing.
NewLoads(r, first, last) == [k \in 1..(last - first + 1) |->
    [id |-> IdOf(r), file |-> first + k - 1, run |-> r, state |-> "running"]]

Appended(r) ==
    /\ loads' \in Seq(LoadRecords) /\ Len(loads') >= Len(loads)
    /\ \A n \in 1..Len(loads) : loads'[n] = loads[n]
    /\ \A n \in 1..Len(loads') : n \notin 1..Len(loads) =>
        /\ n > Len(loads) /\ loads'[n].id = IdOf(r) /\ loads'[n].run = r
        /\ loads'[n].state = "running" /\ loads'[n].file \in FilesOf(LevelOf(r))
        /\ ~ LoadedFile(IdOf(r), loads'[n].file)
        /\ \A m \in 1..Len(loads') : m > n => loads'[m].file > loads'[n].file
    /\ \A f \in FilesOf(LevelOf(r)) : ~ LoadedFile(IdOf(r), f) =>
        \E n \in 1..Len(loads') : n \notin 1..Len(loads) /\ loads'[n].file = f

LEMMA LoadsAre ==
    ASSUME Typed
    PROVE  /\ loads \in Seq(LoadRecords) /\ Len(loads) \in Nat /\ DOMAIN loads = 1..Len(loads)
           /\ \A n \in 1..Len(loads) : loads[n] \in LoadRecords
<1>1. loads \in Seq(LoadRecords)
  BY DEF Typed, DataTyped
<1> QED
  BY <1>1, LenProperties, ElementOfSeq

LEMMA AppendsThem ==
    ASSUME Typed, NEW r \in Runs, IdOf(r) \in Ids, NEW first \in Files, NEW last \in Files,
           first <= last, loads' = loads \o NewLoads(r, first, last),
           first..last = {f \in FilesOf(LevelOf(r)) : ~ LoadedFile(IdOf(r), f)}
    PROVE  Appended(r)
<1> DEFINE new == NewLoads(r, first, last)
           N == Len(loads)
           L == last - first + 1
<1>1. first \in Nat /\ last \in Nat /\ L \in Nat /\ N \in Nat
  BY LoadsAre DEF Files
<1>2. ASSUME NEW k \in 1..L
      PROVE  /\ new[k] \in LoadRecords /\ new[k].file = first + k - 1
             /\ new[k].id = IdOf(r) /\ new[k].run = r /\ new[k].state = "running"
             /\ first + k - 1 \in first..last
  <2>1. first + k - 1 \in first..last /\ first + k - 1 \in Files
    BY <1>1 DEF Files
  <2>2. new[k] = [id |-> IdOf(r), file |-> first + k - 1, run |-> r, state |-> "running"]
    BY DEF NewLoads
  <2> QED
    BY <2>1, <2>2 DEF LoadRecords
<1>3. new \in Seq(LoadRecords) /\ Len(new) = L
  <2>1. new \in [1..L -> LoadRecords]
    BY <1>2 DEF NewLoads
  <2>2. new \in Seq(LoadRecords)
    BY <1>1, <2>1, SeqDef
  <2> HIDE DEF new
  <2> QED
    BY <1>1, <2>1, <2>2, LenProperties
<1> HIDE DEF new
<1>4. /\ loads' \in Seq(LoadRecords) /\ Len(loads') = N + L
      /\ \A n \in 1..(N + L) : loads'[n] = IF n <= N THEN loads[n] ELSE new[n - N]
  <2>1. loads' = loads \o new /\ loads \in Seq(LoadRecords)
    BY LoadsAre DEF new
  <2>2. /\ loads \o new \in Seq(LoadRecords)
        /\ Len(loads \o new) = Len(loads) + Len(new)
        /\ \A n \in 1..(Len(loads) + Len(new)) :
              (loads \o new)[n] = IF n <= Len(loads) THEN loads[n] ELSE new[n - Len(loads)]
    BY <1>3, <2>1, ConcatProperties
  <2> QED
    BY <1>3, <2>1, <2>2
<1>5. \A n \in 1..N : loads'[n] = loads[n]
  BY <1>1, <1>4
<1>6. ASSUME NEW n \in 1..Len(loads'), n \notin 1..N
      PROVE  n > N /\ n - N \in 1..L /\ loads'[n] = new[n - N] /\ n \in Nat
  BY <1>1, <1>4, <1>6
<1>7. ASSUME NEW n \in 1..Len(loads'), n \notin 1..N
      PROVE  /\ n > N /\ loads'[n].id = IdOf(r) /\ loads'[n].run = r
             /\ loads'[n].state = "running" /\ loads'[n].file \in FilesOf(LevelOf(r))
             /\ ~ LoadedFile(IdOf(r), loads'[n].file)
             /\ \A m \in 1..Len(loads') : m > n => loads'[m].file > loads'[n].file
  <2>1. n > N /\ n - N \in 1..L /\ loads'[n] = new[n - N] /\ n \in Nat
    BY <1>6, <1>7
  <2>2. /\ loads'[n].file = first + (n - N) - 1 /\ first + (n - N) - 1 \in first..last
        /\ loads'[n].id = IdOf(r) /\ loads'[n].run = r /\ loads'[n].state = "running"
    BY <1>2, <2>1
  <2>3. ASSUME NEW m \in 1..Len(loads'), m > n PROVE loads'[m].file > loads'[n].file
    <3>1. m \notin 1..N
      BY <1>1, <2>1, <2>3
    <3>2. m - N \in 1..L /\ loads'[m] = new[m - N] /\ m \in Nat
      BY <1>6, <3>1
    <3>3. loads'[m].file = first + (m - N) - 1
      BY <1>2, <3>2
    <3> QED
      BY <1>1, <2>1, <2>2, <2>3, <3>2, <3>3
  <2>4. loads'[n].file \in {f \in FilesOf(LevelOf(r)) : ~ LoadedFile(IdOf(r), f)}
    BY <2>2
  <2> QED
    BY <2>1, <2>2, <2>3, <2>4
<1>8. ASSUME NEW f \in FilesOf(LevelOf(r)), ~ LoadedFile(IdOf(r), f)
      PROVE  \E n \in 1..Len(loads') : n \notin 1..N /\ loads'[n].file = f
  <2>1. f \in first..last
    BY <1>8
  <2>2. f - first + 1 \in 1..L /\ N + (f - first + 1) \in 1..Len(loads')
        /\ N + (f - first + 1) \notin 1..N
    BY <1>1, <1>4, <2>1
  <2>3. new[f - first + 1].file = f
    <3>1. new[f - first + 1].file = first + (f - first + 1) - 1
      BY <1>2, <2>2
    <3> QED
      BY <1>1, <2>1, <3>1
  <2>4. loads'[N + (f - first + 1)] = new[f - first + 1]
    <3>1. N + (f - first + 1) - N = f - first + 1 /\ ~ (N + (f - first + 1) <= N)
      BY <1>1, <2>1
    <3> QED
      BY <1>4, <2>2, <3>1
  <2> QED
    BY <2>2, <2>3, <2>4
<1>9. Len(loads') >= Len(loads)
  BY <1>1, <1>4
<1> QED
  BY <1>4, <1>5, <1>7, <1>8, <1>9 DEF Appended

LEMMA BeginLoadEffect ==
    ASSUME Typed, NEW r \in Runs, BeginLoad(r)
    PROVE  /\ status[r] = "active" /\ stage[r] = "load" /\ ~ midway[r]
           /\ IdOf(r) \in Ids /\ IdOf(r) # 0
           /\ \/ Fails(r) /\ loads' = loads
              \/ /\ Row(r, "active", "dbt", FALSE) /\ id' = id
                 /\ Loaded(IdOf(r), LevelOf(r)) /\ loads' = loads
              \/ Row(r, "active", "load", TRUE) /\ id' = id /\ Appended(r)
           /\ UNCHANGED <<idVars, extracted, staged, stuck, bronze, silver, overlapped, faults>>
<1>1. At(r, "load", FALSE)
  BY DEF BeginLoad
<1>2. status[r] = "active" /\ stage[r] = "load" /\ ~ midway[r]
  BY <1>1, AtFacts
<1>3. IdOf(r) \in Ids /\ IdOf(r) # 0
  BY <1>2, IdOfTyped DEF FirstOf
<1>4. \/ Failed(r) /\ UNCHANGED loads
      \/ Loaded(IdOf(r), LevelOf(r)) /\ Done(r) /\ UNCHANGED <<id, loads>>
      \/ /\ \E first, last \in Files :
               /\ first <= last
               /\ first..last = {f \in FilesOf(LevelOf(r)) : ~ LoadedFile(IdOf(r), f)}
               /\ loads' = loads \o NewLoads(r, first, last)
         /\ Halfway(r) /\ UNCHANGED id
  BY DEF BeginLoad, LevelOf, NewLoads
<1>5. UNCHANGED <<idVars, extracted, staged, stuck, bronze, silver, overlapped, faults>>
  BY DEF BeginLoad
<1>6. CASE Failed(r) /\ UNCHANGED loads
  <2>1. Fails(r)
    BY <1>2, <1>6, FailsRow
  <2> QED
    BY <1>2, <1>3, <1>5, <1>6, <2>1
<1>7. CASE Loaded(IdOf(r), LevelOf(r)) /\ Done(r) /\ UNCHANGED <<id, loads>>
  <2>1. Row(r, "active", Following[stage[r]], FALSE)
    BY <1>2, <1>7, NextRow DEF LastOf
  <2>2. Following[stage[r]] = "dbt"
    BY <1>2 DEF Following
  <2> QED
    BY <1>2, <1>3, <1>5, <1>7, <2>1, <2>2
<1>8. ASSUME NEW first \in Files, NEW last \in Files, first <= last,
             first..last = {f \in FilesOf(LevelOf(r)) : ~ LoadedFile(IdOf(r), f)},
             loads' = loads \o NewLoads(r, first, last), Halfway(r), id' = id
      PROVE  Row(r, "active", "load", TRUE) /\ id' = id /\ Appended(r)
  <2>1. Row(r, "active", "load", TRUE)
    BY <1>1, <1>8, HalfRow
  <2> QED
    BY <1>3, <1>8, <2>1, AppendsThem
<1> QED
  BY <1>2, <1>3, <1>4, <1>5, <1>6, <1>7, <1>8

LEMMA OutcomesAre ==
    /\ [f \in Files |-> "committed"] \in Outcomes
    /\ \A bad \in Files : [f \in Files |-> IF f <= bad THEN "committed" ELSE "undone"] \in Outcomes
    /\ \A o \in Outcomes : /\ \A f \in Files : o[f] \in {"committed", "undone", "detached"}
                           /\ \A f, g \in Files : f < g /\ o[f] # "committed" => o[g] = "undone"
<1>1. ASSUME NEW bad \in Files
      PROVE  [f \in Files |-> IF f <= bad THEN "committed" ELSE "undone"] \in Outcomes
  BY DEF Outcomes, Files
<1> QED
  BY <1>1 DEF Outcomes

LEMMA CommitLoadEffect ==
    ASSUME Typed, NEW r \in Runs, CommitLoad(r)
    PROVE  /\ status[r] = "active" /\ stage[r] = "load" /\ midway[r]
           /\ IdOf(r) \in Ids /\ IdOf(r) # 0
           /\ \/ /\ Row(r, "active", "dbt", FALSE) /\ id' = id
                 /\ Ends(r, [f \in Files |-> "committed"])
              \/ Fails(r) /\ \E outcome \in Outcomes : Ends(r, outcome)
           /\ UNCHANGED <<idVars, extracted, staged, stuck, bronze, silver, overlapped, faults>>
<1>1. At(r, "load", TRUE)
  BY DEF CommitLoad
<1>2. status[r] = "active" /\ stage[r] = "load" /\ midway[r]
  BY <1>1, AtFacts
<1>3. IdOf(r) \in Ids /\ IdOf(r) # 0
  BY <1>2, IdOfTyped DEF FirstOf
<1>4. CASE Ends(r, [f \in Files |-> "committed"]) /\ Done(r) /\ UNCHANGED id
  <2>1. Row(r, "active", Following[stage[r]], FALSE)
    BY <1>2, <1>4, NextRow DEF LastOf
  <2>2. Following[stage[r]] = "dbt"
    BY <1>2 DEF Following
  <2> QED
    BY <1>2, <1>3, <1>4, <2>1, <2>2 DEF CommitLoad
<1>5. ASSUME NEW bad \in Files, Failed(r),
             Ends(r, [f \in Files |-> IF f <= bad THEN "committed" ELSE "undone"])
      PROVE  Fails(r) /\ \E outcome \in Outcomes : Ends(r, outcome)
  <2>1. Fails(r)
    BY <1>2, <1>5, FailsRow
  <2> QED
    BY <1>5, <2>1, OutcomesAre
<1> QED
  BY <1>2, <1>3, <1>4, <1>5 DEF CommitLoad, Doubling

LEMMA BuildBronzeEffect ==
    ASSUME Typed, NEW r \in Runs, BuildBronze(r)
    PROVE  /\ status[r] = "active" /\ stage[r] = "dbt" /\ ~ midway[r]
           /\ IdOf(r) \in Ids /\ IdOf(r) # 0
           /\ Row(r, "active", "dbt", TRUE) /\ bronze' = Rebuilt(r, bronze, Committed)
           /\ UNCHANGED <<idVars, id, extracted, staged, stuck, loads, silver, overlapped, faults>>
<1>1. At(r, "dbt", FALSE) /\ Halfway(r) /\ id' = id
  BY DEF BuildBronze
<1>2. status[r] = "active" /\ stage[r] = "dbt" /\ ~ midway[r]
  BY <1>1, AtFacts
<1>3. IdOf(r) \in Ids /\ IdOf(r) # 0
  BY <1>2, IdOfTyped DEF FirstOf
<1> QED
  BY <1>1, <1>2, <1>3, HalfRow DEF BuildBronze

LEMMA BuildSilverEffect ==
    ASSUME Typed, NEW r \in Runs, BuildSilver(r)
    PROVE  /\ status[r] = "active" /\ stage[r] = "dbt" /\ midway[r]
           /\ IdOf(r) \in Ids /\ IdOf(r) # 0
           /\ Row(r, "active", "docs", FALSE) /\ silver' = Rebuilt(r, silver, bronze)
           /\ UNCHANGED <<idVars, id, extracted, staged, stuck, loads, bronze, overlapped, faults>>
<1>1. At(r, "dbt", TRUE) /\ Done(r) /\ id' = id
  BY DEF BuildSilver
<1>2. status[r] = "active" /\ stage[r] = "dbt" /\ midway[r]
  BY <1>1, AtFacts
<1>3. IdOf(r) \in Ids /\ IdOf(r) # 0
  BY <1>2, IdOfTyped DEF FirstOf
<1>4. Row(r, "active", Following[stage[r]], FALSE)
  BY <1>1, <1>2, NextRow DEF LastOf
<1>5. Following[stage[r]] = "docs"
  BY <1>2 DEF Following
<1> QED
  BY <1>2, <1>3, <1>4, <1>5 DEF BuildSilver

LEMMA GenerateDocsEffect ==
    ASSUME Typed, NEW r \in Runs, GenerateDocs(r)
    PROVE  /\ status[r] = "active" /\ stage[r] = "docs" /\ ~ midway[r]
           /\ \/ r \in Incremental /\ Row(r, "active", "clear", FALSE)
              \/ r \notin Incremental /\ Row(r, "success", "docs", FALSE)
           /\ UNCHANGED <<idVars, id, dataVars, overlapped, faults>>
<1>1. At(r, "docs", FALSE) /\ Done(r) /\ id' = id
  BY DEF GenerateDocs
<1>2. status[r] = "active" /\ stage[r] = "docs" /\ ~ midway[r]
  BY <1>1, AtFacts
<1>3. CASE r \in Incremental
  <2>1. Row(r, "active", Following[stage[r]], FALSE)
    BY <1>1, <1>2, <1>3, NextRow DEF LastOf
  <2>2. Following[stage[r]] = "clear"
    BY <1>2 DEF Following
  <2> QED
    BY <1>2, <1>3, <2>1, <2>2 DEF GenerateDocs
<1>4. CASE r \notin Incremental
  <2>1. Row(r, "success", stage[r], FALSE)
    BY <1>1, <1>2, <1>4, LastRow DEF LastOf
  <2> QED
    BY <1>2, <1>4, <2>1 DEF GenerateDocs
<1> QED
  BY <1>3, <1>4

LEMMA ClearRunIdEffect ==
    ASSUME Typed, NEW r \in Runs, ClearRunId(r)
    PROVE  /\ r \in Incremental /\ status[r] = "active" /\ stage[r] = "clear" /\ ~ midway[r]
           /\ IdOf(r) \in Ids /\ IdOf(r) # 0 /\ IdOf(r) = id[r]
           /\ id' = id
           /\ \/ Row(r, "success", "clear", FALSE) /\ active = 0 /\ active' = active
              \/ Row(r, "success", "clear", FALSE) /\ active = id[r] /\ active' = 0
              \/ Fails(r) /\ active' = active
           /\ UNCHANGED <<tmpfile, ids, creator, dataVars, overlapped, faults>>
<1>1. At(r, "clear", FALSE)
  BY DEF ClearRunId
<1>2. status[r] = "active" /\ stage[r] = "clear" /\ ~ midway[r] /\ r \in Incremental
  BY <1>1, AtFacts DEF StagesOf
<1>3. IdOf(r) \in Ids /\ IdOf(r) # 0 /\ IdOf(r) = id[r]
  BY <1>2, IdOfTyped DEF FirstOf, IdOf
<1>4. CASE Failed(r) /\ UNCHANGED active
  <2>1. Fails(r)
    BY <1>2, <1>4, FailsRow
  <2>2. id' = id
    BY <2>1 DEF Fails
  <2> QED
    BY <1>2, <1>3, <1>4, <2>1, <2>2 DEF ClearRunId
<1>5. CASE Done(r) /\ id' = id /\ \/ active = 0 /\ active' = active
                                  \/ active = id[r] /\ active' = 0
  <2>1. Row(r, "success", stage[r], FALSE)
    BY <1>2, <1>5, LastRow DEF LastOf
  <2> QED
    BY <1>2, <1>3, <1>5, <2>1 DEF ClearRunId
<1> QED
  BY <1>4, <1>5 DEF ClearRunId

\* What a failing task leaves behind.
StuckMore(r) ==
    \/ stuck' = stuck
    \/ \E task \in {"extract", "compact"} : stuck' = stuck \cup {<<IdOf(r), task>>}

LEMMA TaskFailsEffect ==
    ASSUME Typed, NEW r \in Runs, TaskFails(r)
    PROVE  /\ status[r] = "active" /\ Fails(r)
           /\ faults < MaxFaults /\ faults' = faults + 1
           /\ \/ stage[r] # "load" /\ UNCHANGED <<active, ids, creator, dataVars>>
              \/ /\ stage[r] = "run_id" /\ r \in Incremental /\ active = 0
                 /\ Generate(r) /\ active' = ids' /\ UNCHANGED dataVars
              \/ /\ stage[r] = "extract" /\ IdOf(r) \in Ids /\ IdOf(r) # 0
                 /\ extracted[IdOf(r)] # "whole" /\ StuckMore(r)
                 /\ \E level \in {"partial", "whole"} :
                        extracted' = [extracted EXCEPT ![IdOf(r)] = level]
                 /\ UNCHANGED <<active, ids, creator, staged, loads, bronze, silver>>
              \/ /\ stage[r] = "compact" /\ IdOf(r) \in Ids /\ IdOf(r) # 0 /\ StuckMore(r)
                 /\ \/ staged' = staged
                    \/ staged' = [staged EXCEPT ![IdOf(r)] = extracted[IdOf(r)]]
                 /\ UNCHANGED <<active, ids, creator, extracted, loads, bronze, silver>>
              \/ /\ stage[r] = "load" /\ \E outcome \in Outcomes : Ends(r, outcome)
                 /\ UNCHANGED <<active, ids, creator, extracted, staged, stuck, bronze, silver>>
              \/ /\ stage[r] = "dbt" /\ silver' = Rebuilt(r, silver, bronze)
                 /\ UNCHANGED <<active, ids, creator, extracted, staged, stuck, loads, bronze>>
              \/ /\ stage[r] = "clear" /\ r \in Incremental /\ active = id[r] /\ active' = 0
                 /\ UNCHANGED <<ids, creator, dataVars>>
           /\ UNCHANGED <<tmpfile, overlapped>>
<1>1. status[r] = "active" /\ (Failed(r) \/ FailedAgain(r))
      /\ faults < MaxFaults /\ faults' = faults + 1
      /\ UNCHANGED <<tmpfile, overlapped>>
  BY DEF TaskFails, Running, Fault
<1>2. Fails(r)
  BY <1>1, FailsRow
<1>3. stage[r] \in StagesOf(r)
  BY DEF Typed, RunsTyped
<1>4. stage[r] = "run_id" \/ stage[r] = "clear" => r \in Incremental
  BY <1>3 DEF StagesOf
<1>5. stage[r] = "compact" => IdOf(r) \in Ids /\ IdOf(r) # 0
  BY IdOfTyped DEF FirstOf
<1>6. stage[r] = "extract" /\ midway[r] = (r \in FullRefresh) => IdOf(r) \in Ids /\ IdOf(r) # 0
  <2> SUFFICES ASSUME stage[r] = "extract", midway[r] = (r \in FullRefresh)
               PROVE  IdOf(r) \in Ids /\ IdOf(r) # 0
    OBVIOUS
  <2>1. midway[r] <=> r \in FullRefresh
    BY Zenon
  <2> QED
    BY <2>1, IdOfTyped DEF FirstOf, Runs
<1> DEFINE Extracts ==
             /\ extracted[IdOf(r)] # "whole"
             /\ \/ \E level \in {"partial", "whole"} :
                      extracted' = [extracted EXCEPT ![IdOf(r)] = level] /\ UNCHANGED stuck
                \/ /\ extracted' = [extracted EXCEPT ![IdOf(r)] = "partial"]
                   /\ \E task \in {"extract", "compact"} :
                         stuck' = stuck \cup {<<IdOf(r), task>>}
             /\ UNCHANGED <<active, ids, creator, staged, loads, bronze, silver>>
           Compacts ==
             /\ \/ /\ staged' = [staged EXCEPT ![IdOf(r)] = extracted[IdOf(r)]]
                   /\ UNCHANGED stuck
                \/ stuck' = stuck \cup {<<IdOf(r), "compact">>} /\ UNCHANGED staged
             /\ UNCHANGED <<active, ids, creator, extracted, loads, bronze, silver>>
<1>7. \/ stage[r] # "load" /\ UNCHANGED <<active, ids, creator, dataVars>>
      \/ /\ stage[r] = "run_id" /\ active = 0
         /\ Generate(r) /\ active' = ids + 1 /\ UNCHANGED dataVars
      \/ stage[r] = "extract" /\ midway[r] = (r \in FullRefresh) /\ Extracts
      \/ stage[r] = "compact" /\ Compacts
      \/ /\ stage[r] = "load" /\ \E outcome \in Outcomes : Ends(r, outcome)
         /\ UNCHANGED <<active, ids, creator, extracted, staged, stuck, bronze, silver>>
      \/ /\ stage[r] = "dbt" /\ silver' = Rebuilt(r, silver, bronze)
         /\ UNCHANGED <<active, ids, creator, extracted, staged, stuck, loads, bronze>>
      \/ /\ stage[r] = "clear" /\ active = id[r]
         /\ active' = 0 /\ UNCHANGED <<ids, creator, dataVars>>
  BY Zenon DEF TaskFails
<1>8. Extracts =>
        /\ extracted[IdOf(r)] # "whole" /\ StuckMore(r)
        /\ \E level \in {"partial", "whole"} :
              extracted' = [extracted EXCEPT ![IdOf(r)] = level]
        /\ UNCHANGED <<active, ids, creator, staged, loads, bronze, silver>>
  BY DEF StuckMore
<1>9. Compacts =>
        /\ StuckMore(r)
        /\ staged' = staged \/ staged' = [staged EXCEPT ![IdOf(r)] = extracted[IdOf(r)]]
        /\ UNCHANGED <<active, ids, creator, extracted, loads, bronze, silver>>
  BY DEF StuckMore
<1> HIDE DEF Extracts, Compacts
<1>10. Generate(r) => ids' = ids + 1
  BY DEF Generate
<1>11. \/ stage[r] # "load" /\ UNCHANGED <<active, ids, creator, dataVars>>
       \/ /\ stage[r] = "run_id" /\ r \in Incremental /\ active = 0
          /\ Generate(r) /\ active' = ids' /\ UNCHANGED dataVars
       \/ /\ stage[r] = "extract" /\ IdOf(r) \in Ids /\ IdOf(r) # 0
          /\ extracted[IdOf(r)] # "whole" /\ StuckMore(r)
          /\ \E level \in {"partial", "whole"} :
                 extracted' = [extracted EXCEPT ![IdOf(r)] = level]
          /\ UNCHANGED <<active, ids, creator, staged, loads, bronze, silver>>
       \/ /\ stage[r] = "compact" /\ IdOf(r) \in Ids /\ IdOf(r) # 0 /\ StuckMore(r)
          /\ \/ staged' = staged
             \/ staged' = [staged EXCEPT ![IdOf(r)] = extracted[IdOf(r)]]
          /\ UNCHANGED <<active, ids, creator, extracted, loads, bronze, silver>>
       \/ /\ stage[r] = "load" /\ \E outcome \in Outcomes : Ends(r, outcome)
          /\ UNCHANGED <<active, ids, creator, extracted, staged, stuck, bronze, silver>>
       \/ /\ stage[r] = "dbt" /\ silver' = Rebuilt(r, silver, bronze)
          /\ UNCHANGED <<active, ids, creator, extracted, staged, stuck, loads, bronze>>
       \/ /\ stage[r] = "clear" /\ r \in Incremental /\ active = id[r] /\ active' = 0
          /\ UNCHANGED <<ids, creator, dataVars>>
  BY <1>4, <1>5, <1>6, <1>7, <1>8, <1>9, <1>10, Zenon
<1> QED
  BY <1>1, <1>2, <1>11, Zenon

-----------------------------------------------------------------------------
(* What a step does to the loads *)

LEMMA EndsEffect ==
    ASSUME Typed, NEW r, NEW outcome \in Outcomes, Ends(r, outcome)
    PROVE  /\ loads' \in Seq(LoadRecords) /\ Len(loads') = Len(loads)
           /\ \A n \in 1..Len(loads) :
                /\ loads'[n].id = loads[n].id /\ loads'[n].file = loads[n].file
                /\ loads'[n].run = loads[n].run
                /\ IF loads[n].run = r /\ loads[n].state = "running"
                   THEN loads'[n].state = outcome[loads[n].file]
                   ELSE loads'[n].state = loads[n].state
                /\ loads'[n].state # "running" \/ loads'[n] = loads[n]
<1>1. loads' = [n \in 1..Len(loads) |->
          IF loads[n].run = r /\ loads[n].state = "running"
          THEN [loads[n] EXCEPT !.state = outcome[loads[n].file]] ELSE loads[n]]
  BY LoadsAre DEF Ends
<1>2. ASSUME NEW n \in 1..Len(loads)
      PROVE  /\ loads'[n] \in LoadRecords
             /\ loads'[n].id = loads[n].id /\ loads'[n].file = loads[n].file
             /\ loads'[n].run = loads[n].run
             /\ IF loads[n].run = r /\ loads[n].state = "running"
                THEN loads'[n].state = outcome[loads[n].file]
                ELSE loads'[n].state = loads[n].state
             /\ loads'[n].state # "running" \/ loads'[n] = loads[n]
  <2>1. loads[n] \in LoadRecords
    BY LoadsAre
  <2>2. loads'[n] = IF loads[n].run = r /\ loads[n].state = "running"
                    THEN [loads[n] EXCEPT !.state = outcome[loads[n].file]] ELSE loads[n]
    BY <1>1
  <2>3. outcome[loads[n].file] \in {"committed", "undone", "detached"}
    BY <2>1, OutcomesAre DEF LoadRecords
  <2> QED
    BY <2>1, <2>2, <2>3 DEF LoadRecords
<1>3. loads' \in [1..Len(loads) -> LoadRecords]
  BY <1>1, <1>2
<1>4. loads' \in Seq(LoadRecords)
  BY <1>3, LoadsAre, SeqDef
<1>5. Len(loads') = Len(loads)
  BY <1>3, <1>4, LoadsAre, LenProperties
<1> QED
  BY <1>2, <1>4, <1>5

LEMMA LateCommitEffect ==
    ASSUME Typed, LateCommit
    PROVE  \E n \in Detached :
             /\ n \in 1..Len(loads) /\ loads[n].state = "detached"
             /\ loads' \in Seq(LoadRecords) /\ Len(loads') = Len(loads)
             /\ \A m \in 1..Len(loads) :
                 /\ loads'[m].id = loads[m].id /\ loads'[m].file = loads[m].file
                 /\ loads'[m].run = loads[m].run
                 /\ IF m = n THEN loads'[m].state = "committed"
                             ELSE loads'[m].state = loads[m].state
<1>1. PICK n \in Detached : loads' = [loads EXCEPT ![n].state = "committed"]
  BY DEF LateCommit
<1>2. n \in 1..Len(loads) /\ loads[n].state = "detached"
  BY LoadsAre DEF Detached
<1>3. loads[n] \in LoadRecords
  BY <1>2, LoadsAre
<1> DEFINE x == [loads[n] EXCEPT !.state = "committed"]
<1>4. /\ x \in LoadRecords /\ x.id = loads[n].id /\ x.file = loads[n].file
      /\ x.run = loads[n].run /\ x.state = "committed"
  BY <1>3 DEF LoadRecords
<1>5. loads' = [loads EXCEPT ![n] = x]
  BY <1>1
<1> HIDE DEF x
<1>6. /\ loads' \in Seq(LoadRecords) /\ Len(loads') = Len(loads)
      /\ \A m \in 1..Len(loads) : loads'[m] = IF m = n THEN x ELSE loads[m]
  BY <1>2, <1>4, <1>5, LoadsAre, ExceptSeq
<1>7. ASSUME NEW m \in 1..Len(loads)
      PROVE  /\ loads'[m].id = loads[m].id /\ loads'[m].file = loads[m].file
             /\ loads'[m].run = loads[m].run
             /\ IF m = n THEN loads'[m].state = "committed"
                         ELSE loads'[m].state = loads[m].state
  BY <1>4, <1>6
<1> QED
  BY <1>2, <1>6, <1>7

\* A load never changes but for its state, and one that has committed stays.
LoadsKept ==
    /\ loads' \in Seq(LoadRecords) /\ Len(loads') >= Len(loads)
    /\ \A n \in 1..Len(loads) :
        /\ loads'[n].id = loads[n].id /\ loads'[n].file = loads[n].file
        /\ loads'[n].run = loads[n].run
        /\ loads[n].state = "committed" => loads'[n].state = "committed"

LEMMA LoadsKeptStep == Typed /\ [Next]_vars => LoadsKept
<1> SUFFICES ASSUME Typed, [Next]_vars PROVE LoadsKept
  OBVIOUS
<1>1. CASE loads' = loads
  BY <1>1, LoadsAre DEF LoadsKept
<1>2. ASSUME NEW r, NEW outcome \in Outcomes, Ends(r, outcome)
      PROVE  LoadsKept
  BY <1>2, EndsEffect, LoadsAre DEF LoadsKept
<1>3. ASSUME NEW r \in Runs, BeginLoad(r) PROVE LoadsKept
  <2>1. CASE Appended(r)
    BY <2>1, LoadsAre DEF LoadsKept, Appended
  <2> QED
    BY <1>1, <1>3, <2>1, BeginLoadEffect
<1>4. CASE LateCommit
  BY <1>4, LateCommitEffect, LoadsAre DEF LoadsKept
<1>5. CASE loads' # loads
  <2>1. LateCommit \/ \E r \in Runs : BeginLoad(r) \/ CommitLoad(r) \/ TaskFails(r)
    BY <1>5 DEF Next, TaskStep, vars, dataVars, Trigger, Rerun, GetRunId, WriteRunId, Extract,
                Compact, BuildBronze, BuildSilver, GenerateDocs, ClearRunId
  <2>2. ASSUME NEW r \in Runs, CommitLoad(r) PROVE LoadsKept
    BY <1>2, <2>2, CommitLoadEffect, OutcomesAre
  <2>3. ASSUME NEW r \in Runs, TaskFails(r) PROVE LoadsKept
    <3>1. \E outcome \in Outcomes : Ends(r, outcome)
      BY <1>5, <2>3, TaskFailsEffect DEF dataVars
    <3> QED
      BY <1>2, <3>1
  <2> QED
    BY <1>3, <1>4, <2>1, <2>2, <2>3
<1> QED
  BY <1>1, <1>5

-----------------------------------------------------------------------------
(* Types are kept *)

LEMMA RowKeepsTypes ==
    ASSUME Typed, NEW r \in Runs, ids' \in Nat, ids' >= ids, tmpfile # 0 => tmpfile' # 0,
           RowTypes, Others(r), stage'[r] \in StagesOf(r),
           id' \in [Runs -> Nat], id'[r] <= ids',
           r \in Incremental /\ stage'[r] # "run_id" => id'[r] # 0,
           r \in FullRefresh /\ (stage'[r] # "extract" \/ midway'[r]) => tmpfile' # 0,
           midway'[r] => status'[r] = "active"
    PROVE  RunsTyped' /\ Named'
<1>1. /\ status' \in [Runs -> Statuses] /\ stage' \in [Runs -> UNION {StagesOf(q) : q \in Runs}]
      /\ midway' \in [Runs -> BOOLEAN] /\ retried' \in [Runs -> BOOLEAN]
  BY DEF RowTypes
<1>2. ASSUME NEW q \in Runs
      PROVE  /\ stage'[q] \in StagesOf(q) /\ id'[q] <= ids'
             /\ q \in Incremental /\ stage'[q] # "run_id" => id'[q] # 0
             /\ q \in FullRefresh /\ (stage'[q] # "extract" \/ midway'[q]) => tmpfile' # 0
             /\ midway'[q] => status'[q] = "active"
  <2>1. CASE q = r
    BY <2>1
  <2>2. CASE q # r
    <3>1. /\ stage'[q] = stage[q] /\ id'[q] = id[q] /\ status'[q] = status[q]
          /\ (midway'[q] <=> midway[q])
      BY <2>2 DEF Others
    <3>2. /\ stage[q] \in StagesOf(q) /\ id[q] \in Nat /\ id[q] <= ids /\ ids \in Nat
          /\ q \in Incremental /\ stage[q] # "run_id" => id[q] # 0
          /\ q \in FullRefresh /\ (stage[q] # "extract" \/ midway[q]) => tmpfile # 0
          /\ midway[q] => status[q] = "active"
      BY DEF Typed, RunsTyped, Named, IdsTyped
    <3> QED
      BY <3>1, <3>2
  <2> QED
    BY <2>1, <2>2
<1>3. RunsTyped'
  BY <1>1, <1>2 DEF RunsTyped, StagesOf
<1>4. Named'
  BY <1>2 DEF Named, Runs
<1> QED
  BY <1>3, <1>4


LEMMA FailsKeepsTypes ==
    ASSUME Typed, NEW r \in Runs, status[r] = "active", Fails(r),
           ids' \in Nat, ids' >= ids, tmpfile' = tmpfile
    PROVE  RunsTyped' /\ Named'
<1>1. stage'[r] = stage[r] /\ id' = id /\ ~ midway'[r] /\ RowTypes /\ Others(r)
  BY DEF Fails
<1>2. /\ stage[r] \in StagesOf(r) /\ id \in [Runs -> Nat] /\ id[r] <= ids /\ ids \in Nat
      /\ r \in Incremental /\ stage[r] # "run_id" => id[r] # 0
      /\ r \in FullRefresh /\ stage[r] # "extract" => tmpfile # 0
  BY DEF Typed, RunsTyped, Named, IdsTyped
<1>3. id'[r] \in Nat /\ id'[r] <= ids'
  BY <1>1, <1>2
<1> QED
  BY <1>1, <1>2, <1>3, RowKeepsTypes

\* A step that keeps the ids.
LEMMA MoveKeepsTypes ==
    ASSUME Typed, NEW r \in Runs, NEW st, NEW sg \in StagesOf(r), NEW mw \in BOOLEAN,
           Row(r, st, sg, mw), id' = id, UNCHANGED <<ids, tmpfile>>,
           sg # FirstOf(r) => stage[r] # FirstOf(r) \/ (r \notin Incremental /\ midway[r]),
           mw => st = "active" /\ sg # FirstOf(r)
    PROVE  RunsTyped' /\ Named'
<1>1. /\ RowTypes /\ Others(r) /\ status'[r] = st /\ stage'[r] = sg /\ (midway'[r] <=> mw)
  BY DEF Row
<1>2. id \in [Runs -> Nat] /\ id[r] <= ids /\ ids \in Nat
  BY DEF Typed, RunsTyped, IdsTyped
<1>3. r \in Incremental /\ sg # "run_id" => id[r] # 0
  BY DEF Typed, Named, FirstOf
<1>4. r \in FullRefresh => r \notin Incremental
  BY SlotsAssumption
<1>5. r \in FullRefresh /\ (sg # "extract" \/ mw) => tmpfile # 0
  BY <1>4 DEF Typed, Named, FirstOf
<1> QED
  BY <1>1, <1>2, <1>3, <1>5, RowKeepsTypes

LEMMA TypedInit == Init => Typed
<1> SUFFICES ASSUME Init PROVE Typed
  OBVIOUS
<1>1. IdsTyped
  BY BoundsAssumption DEF Init, IdsTyped
<1>2. stage = [r \in Runs |-> FirstOf(r)] /\ \A r \in Runs : FirstOf(r) \in StagesOf(r)
  BY FirstTask DEF Init
<1>3. RunsTyped
  <2>1. stage \in [Runs -> UNION {StagesOf(r) : r \in Runs}]
    BY <1>2
  <2>2. status \in [Runs -> Statuses] /\ id \in [Runs -> Nat] /\ ids = 0 /\ \A r \in Runs : id[r] = 0
    BY DEF Init, Statuses
  <2>3. midway \in [Runs -> BOOLEAN] /\ retried \in [Runs -> BOOLEAN]
    BY DEF Init
  <2> QED
    BY <1>2, <2>1, <2>2, <2>3 DEF RunsTyped
<1>4. DataTyped
  <2>1. overlapped \in BOOLEAN /\ loads = <<>>
    BY DEF Init
  <2>2. extracted \in [Ids -> Levels] /\ staged \in [Ids -> Levels] /\ faults \in 0..MaxFaults
    BY BoundsAssumption DEF Init, Levels
  <2>3. loads \in Seq(LoadRecords) /\ stuck \subseteq Ids \X {"extract", "compact"}
    BY <2>1, EmptySeq DEF Init
  <2> QED
    BY <2>1, <2>2, <2>3 DEF DataTyped
<1>5. Named
  <2>1. \A r \in Runs : ~ midway[r]
    BY DEF Init
  <2> QED
    BY <1>2, <2>1, SlotsAssumption DEF Named, FirstOf, Runs
<1> QED
  BY <1>1, <1>3, <1>4, <1>5 DEF Typed

LEMMA RunStepTypes ==
    ASSUME Typed, NEW r \in Runs, TaskStep(r)
    PROVE  IdsTyped' /\ RunsTyped' /\ Named'
<1>1. IdsTyped /\ ids \in Nat /\ MaxIds \in Nat
  BY BoundsAssumption DEF Typed, IdsTyped
<1>2. CASE GetRunId(r)
  <2>1. /\ r \in Incremental /\ Row(r, "active", "extract", FALSE)
        /\ id' = [id EXCEPT ![r] = active'] /\ tmpfile' = tmpfile
    BY <1>2, GetRunIdEffect
  <2>2. IdsTyped' /\ ids' \in Nat /\ ids' >= ids /\ active' \in 1..ids'
    <3>1. CASE active # 0
      <4>1. active' = active /\ ids' = ids /\ creator' = creator
        BY <1>2, <3>1, GetRunIdEffect
      <4> QED
        BY <1>1, <2>1, <3>1, <4>1 DEF IdsTyped
    <3>2. CASE active = 0
      <4>1. Generate(r) /\ active' = ids'
        BY <1>2, <3>2, GetRunIdEffect
      <4>2. ids' = ids + 1 /\ ids' \in 1..MaxIds /\ creator' \in [Ids -> Runs \cup {0}]
        BY <4>1, GenerateEffect
      <4> QED
        BY <1>1, <2>1, <4>1, <4>2 DEF IdsTyped
    <3> QED
      BY <3>1, <3>2
  <2>3. id' \in [Runs -> Nat] /\ id'[r] = active' /\ active' # 0 /\ active' <= ids'
    BY <1>1, <2>1, <2>2 DEF Typed, RunsTyped
  <2>4. /\ RowTypes /\ Others(r) /\ stage'[r] = "extract" /\ ~ midway'[r]
        /\ "extract" \in StagesOf(r) /\ r \notin FullRefresh
    BY <2>1, SlotsAssumption DEF Row, StagesOf
  <2>5. RunsTyped' /\ Named'
    BY <2>1, <2>2, <2>3, <2>4, RowKeepsTypes
  <2> QED
    BY <2>2, <2>5
<1>3. CASE WriteRunId(r)
  <2>1. /\ r \in FullRefresh /\ Row(r, "active", "extract", TRUE) /\ Generate(r)
        /\ tmpfile' = ids' /\ active' = active /\ id' = id
    BY <1>3, WriteRunIdEffect
  <2>2. ids' = ids + 1 /\ ids' \in 1..MaxIds /\ creator' \in [Ids -> Runs \cup {0}]
    BY <2>1, GenerateEffect
  <2>3. IdsTyped' /\ tmpfile' # 0
    BY <1>1, <2>1, <2>2 DEF IdsTyped
  <2>4. /\ RowTypes /\ Others(r) /\ stage'[r] = "extract" /\ midway'[r] /\ status'[r] = "active"
        /\ "extract" \in StagesOf(r) /\ r \notin Incremental
    BY <2>1, SlotsAssumption DEF Row, StagesOf
  <2>5. id' \in [Runs -> Nat] /\ id'[r] <= ids' /\ ids' \in Nat /\ ids' >= ids
    BY <1>1, <2>1, <2>2 DEF Typed, RunsTyped
  <2>6. RunsTyped' /\ Named'
    BY <2>3, <2>4, <2>5, RowKeepsTypes
  <2> QED
    BY <2>3, <2>6
<1>4. ASSUME active' \in 0..ids, UNCHANGED <<ids, tmpfile, creator>> PROVE IdsTyped'
  BY <1>1, <1>4 DEF IdsTyped
<1>5. ASSUME Fails(r), status[r] = "active", UNCHANGED <<ids, tmpfile, creator, active>>
      PROVE  IdsTyped' /\ RunsTyped' /\ Named'
  BY <1>1, <1>4, <1>5, FailsKeepsTypes DEF IdsTyped
<1>6. ASSUME NEW st, NEW sg \in StagesOf(r), NEW mw \in BOOLEAN, Row(r, st, sg, mw), id' = id,
             UNCHANGED <<ids, tmpfile, creator>>, active' \in 0..ids,
             stage[r] # FirstOf(r), sg # FirstOf(r), mw => st = "active"
      PROVE  IdsTyped' /\ RunsTyped' /\ Named'
  BY <1>4, <1>6, MoveKeepsTypes
<1>7. CASE Extract(r)
  <2>1. /\ stage[r] = "extract" /\ (midway[r] <=> r \in FullRefresh) /\ status[r] = "active"
        /\ UNCHANGED <<ids, tmpfile, creator, active>>
        /\ Fails(r) \/ (Row(r, "active", "compact", FALSE) /\ id' = id)
    BY <1>7, ExtractEffect DEF idVars
  <2>2. "compact" \in StagesOf(r)
    BY DEF StagesOf
  <2>3. stage[r] # FirstOf(r) \/ (r \notin Incremental /\ midway[r])
    BY <2>1 DEF FirstOf, Runs
  <2>4. CASE Row(r, "active", "compact", FALSE) /\ id' = id
    BY <1>1, <1>4, <2>1, <2>2, <2>3, <2>4, MoveKeepsTypes DEF IdsTyped
  <2> QED
    BY <1>5, <2>1, <2>4
<1>8. CASE Compact(r)
  <2>1. /\ status[r] = "active" /\ stage[r] = "compact" /\ UNCHANGED <<ids, tmpfile, creator, active>>
        /\ Fails(r) \/ (Row(r, "active", "load", FALSE) /\ id' = id)
    BY <1>8, CompactEffect DEF idVars
  <2>2. "load" \in StagesOf(r) /\ stage[r] # FirstOf(r) /\ "load" # FirstOf(r) /\ active' \in 0..ids
    BY <1>1, <2>1 DEF StagesOf, FirstOf, IdsTyped
  <2> QED
    BY <1>5, <1>6, <2>1, <2>2
<1>9. CASE BeginLoad(r)
  <2>1. /\ status[r] = "active" /\ stage[r] = "load" /\ UNCHANGED <<ids, tmpfile, creator, active>>
        /\ \/ Fails(r) \/ (Row(r, "active", "dbt", FALSE) /\ id' = id)
           \/ (Row(r, "active", "load", TRUE) /\ id' = id)
    BY <1>9, BeginLoadEffect DEF idVars
  <2>2. /\ "load" \in StagesOf(r) /\ stage[r] # FirstOf(r) /\ "load" # FirstOf(r)
        /\ "dbt" \in StagesOf(r) /\ "dbt" # FirstOf(r) /\ active' \in 0..ids
    BY <1>1, <2>1 DEF StagesOf, FirstOf, IdsTyped
  <2> QED
    BY <1>5, <1>6, <2>1, <2>2
<1>10. CASE CommitLoad(r) \/ BuildBronze(r) \/ BuildSilver(r)
  <2>1. /\ stage[r] \in {"load", "dbt"} /\ status[r] = "active"
        /\ UNCHANGED <<ids, tmpfile, creator, active>>
        /\ \/ Fails(r)
           \/ /\ id' = id
              /\ \/ Row(r, "active", "dbt", FALSE) \/ Row(r, "active", "dbt", TRUE)
                 \/ Row(r, "active", "docs", FALSE)
    BY <1>10, CommitLoadEffect, BuildBronzeEffect, BuildSilverEffect DEF idVars
  <2>2. /\ "dbt" \in StagesOf(r) /\ "dbt" # FirstOf(r) /\ "docs" \in StagesOf(r)
        /\ "docs" # FirstOf(r) /\ stage[r] # FirstOf(r) /\ active' \in 0..ids
    BY <1>1, <2>1 DEF StagesOf, FirstOf, IdsTyped
  <2> QED
    BY <1>5, <1>6, <2>1, <2>2
<1>11. CASE GenerateDocs(r)
  <2>1. /\ stage[r] = "docs" /\ UNCHANGED <<ids, tmpfile, creator, active>> /\ id' = id
        /\ \/ r \in Incremental /\ Row(r, "active", "clear", FALSE)
           \/ Row(r, "success", "docs", FALSE)
    BY <1>11, GenerateDocsEffect DEF idVars
  <2>2. /\ r \in Incremental => "clear" \in StagesOf(r)
        /\ "docs" \in StagesOf(r) /\ "clear" # FirstOf(r)
        /\ "docs" # FirstOf(r) /\ stage[r] # FirstOf(r) /\ active' \in 0..ids
    BY <1>1, <2>1 DEF StagesOf, FirstOf, IdsTyped
  <2> QED
    BY <1>6, <2>1, <2>2
<1>12. CASE ClearRunId(r)
  <2>1. /\ r \in Incremental /\ status[r] = "active" /\ stage[r] = "clear"
        /\ UNCHANGED <<ids, tmpfile, creator>> /\ id' = id
        /\ \/ Row(r, "success", "clear", FALSE) /\ active' \in {active, 0}
           \/ Fails(r) /\ active' = active
    BY <1>12, ClearRunIdEffect
  <2>2. "clear" \in StagesOf(r) /\ "clear" # FirstOf(r) /\ stage[r] # FirstOf(r)
    BY <2>1 DEF StagesOf, FirstOf
  <2>3. active' = active \/ active' = 0
    BY <2>1
  <2>4. active' \in 0..ids
    BY <1>1, <2>3 DEF IdsTyped
  <2> QED
    BY <1>5, <1>6, <2>1, <2>2, <2>4
<1> QED
  BY <1>2, <1>3, <1>7, <1>8, <1>9, <1>10, <1>11, <1>12 DEF TaskStep

LEMMA StartTypes ==
    ASSUME Typed, NEW r \in Runs, Trigger(r) \/ Rerun(r)
    PROVE  IdsTyped' /\ RunsTyped' /\ Named'
<1>1. UNCHANGED idVars
  BY TriggerEffect, RerunEffect
<1>2. IdsTyped' /\ ids \in Nat
  BY <1>1 DEF idVars, Typed, IdsTyped
<1>3. CASE Trigger(r)
  <2>1. Row(r, "active", FirstOf(r), FALSE) /\ id' = [id EXCEPT ![r] = 0]
    BY <1>3, TriggerEffect
  <2>2. /\ RowTypes /\ Others(r) /\ stage'[r] = FirstOf(r) /\ ~ midway'[r]
        /\ FirstOf(r) \in StagesOf(r)
    BY <2>1, FirstTask DEF Row
  <2>3. id' \in [Runs -> Nat] /\ id'[r] = 0
    BY <2>1 DEF Typed, RunsTyped
  <2>4. /\ r \in Incremental /\ stage'[r] # "run_id" => id'[r] # 0
        /\ r \in FullRefresh /\ (stage'[r] # "extract" \/ midway'[r]) => tmpfile' # 0
    BY <2>2, SlotsAssumption DEF FirstOf
  <2> QED
    BY <1>1, <1>2, <2>2, <2>3, <2>4, RowKeepsTypes DEF idVars
<1>4. CASE Rerun(r)
  <2>1. Row(r, "active", stage[r], FALSE) /\ id' = id /\ stage[r] \in StagesOf(r)
    BY <1>4, RerunEffect DEF Typed, RunsTyped
  <2> QED
    BY <1>1, <1>2, <2>1, MoveKeepsTypes DEF idVars
<1> QED
  BY <1>3, <1>4

LEMMA FailTypes ==
    ASSUME Typed, NEW r \in Runs, TaskFails(r)
    PROVE  IdsTyped' /\ RunsTyped' /\ Named'
<1>1. status[r] = "active" /\ Fails(r) /\ tmpfile' = tmpfile
  BY TaskFailsEffect
<1>2. IdsTyped' /\ ids' \in Nat /\ ids' >= ids
  <2>1. IdsTyped /\ ids \in Nat
    BY DEF Typed, IdsTyped
  <2>2. CASE UNCHANGED <<ids, creator>> /\ active' \in {active, 0}
    BY <1>1, <2>1, <2>2 DEF IdsTyped
  <2>3. CASE Generate(r) /\ active' = ids'
    <3>1. ids' = ids + 1 /\ ids' \in 1..MaxIds /\ creator' \in [Ids -> Runs \cup {0}]
      BY <2>3, GenerateEffect
    <3> QED
      BY <1>1, <2>1, <2>3, <3>1 DEF IdsTyped
  <2>4. (UNCHANGED <<ids, creator>> /\ active' \in {active, 0}) \/ (Generate(r) /\ active' = ids')
    BY TaskFailsEffect
  <2> QED
    BY <2>2, <2>3, <2>4
<1> QED
  BY <1>1, <1>2, FailsKeepsTypes


LEMMA TypedStep == Typed /\ [Next]_vars => Typed'
<1> SUFFICES ASSUME Typed, [Next]_vars PROVE Typed'
  OBVIOUS
<1>1. loads' \in Seq(LoadRecords)
  BY LoadsKeptStep DEF LoadsKept
<1>2. extracted' \in [Ids -> Levels] /\ staged' \in [Ids -> Levels]
  <2>1. /\ extracted \in [Ids -> Levels] /\ staged \in [Ids -> Levels]
        /\ "whole" \in Levels /\ "partial" \in Levels
    BY DEF Typed, DataTyped, Levels
  <2>2. CASE UNCHANGED <<extracted, staged>>
    BY <2>1, <2>2
  <2>3. ASSUME NEW r \in Runs, Extract(r) \/ Compact(r) \/ TaskFails(r)
        PROVE  /\ \/ extracted' = extracted
                  \/ extracted' = [extracted EXCEPT ![IdOf(r)] = "whole"]
                  \/ extracted' = [extracted EXCEPT ![IdOf(r)] = "partial"]
               /\ \/ staged' = staged
                  \/ IdOf(r) \in Ids /\ staged' = [staged EXCEPT ![IdOf(r)] = extracted[IdOf(r)]]
    <3>1. CASE Extract(r)
      BY <3>1, ExtractEffect
    <3>2. CASE Compact(r)
      BY <3>2, CompactEffect
    <3>3. CASE TaskFails(r)
      BY <3>3, TaskFailsEffect DEF dataVars
    <3> QED
      BY <2>3, <3>1, <3>2, <3>3
  <2>4. ASSUME NEW r \in Runs, Extract(r) \/ Compact(r) \/ TaskFails(r)
        PROVE  extracted' \in [Ids -> Levels] /\ staged' \in [Ids -> Levels]
    <3>1. extracted' \in [Ids -> Levels]
      BY <2>1, <2>3, <2>4
    <3>2. staged' \in [Ids -> Levels]
      BY <2>1, <2>3, <2>4
    <3> QED
      BY <3>1, <3>2
  <2>5. UNCHANGED <<extracted, staged>> \/ \E r \in Runs : Extract(r) \/ Compact(r) \/ TaskFails(r)
    BY DEF Next, TaskStep, vars, dataVars, Trigger, Rerun, GetRunId, WriteRunId, BeginLoad,
           CommitLoad, BuildBronze, BuildSilver, GenerateDocs, ClearRunId, LateCommit
  <2> QED
    BY <2>2, <2>4, <2>5
<1>3. stuck' \subseteq Ids \X {"extract", "compact"}
  <2>1. stuck \subseteq Ids \X {"extract", "compact"}
    BY DEF Typed, DataTyped
  <2>2. stuck' = stuck \/ \E r \in Runs : TaskFails(r)
    BY DEF Next, TaskStep, vars, dataVars, Trigger, Rerun, GetRunId, WriteRunId, Extract, Compact,
           BeginLoad, CommitLoad, BuildBronze, BuildSilver, GenerateDocs, ClearRunId, LateCommit
  <2>3. ASSUME NEW r \in Runs, TaskFails(r)
        PROVE  stuck' = stuck \/ (IdOf(r) \in Ids /\ StuckMore(r))
    BY <2>3, TaskFailsEffect DEF dataVars
  <2>4. ASSUME NEW r \in Runs, IdOf(r) \in Ids, StuckMore(r)
        PROVE  stuck' \subseteq Ids \X {"extract", "compact"}
    BY <2>1, <2>4 DEF StuckMore
  <2> QED
    BY <2>1, <2>2, <2>3, <2>4
<1>4. overlapped' \in BOOLEAN
  <2>1. overlapped \in BOOLEAN
    BY DEF Typed, DataTyped
  <2>2. overlapped' = overlapped \/ \E r \in Runs : Trigger(r) \/ Rerun(r)
    BY DEF Next, TaskStep, vars, GetRunId, WriteRunId, Extract, Compact, BeginLoad, CommitLoad,
           BuildBronze, BuildSilver, GenerateDocs, ClearRunId, LateCommit, TaskFails
  <2> QED
    BY <2>1, <2>2 DEF Trigger, Rerun
<1>5. faults' \in 0..MaxFaults
  <2>1. faults \in 0..MaxFaults /\ MaxFaults \in Nat
    BY BoundsAssumption DEF Typed, DataTyped
  <2>2. faults' = faults \/ (faults < MaxFaults /\ faults' = faults + 1)
    BY DEF Next, TaskStep, vars, Trigger, Rerun, GetRunId, WriteRunId, Extract, Compact,
           BeginLoad, CommitLoad, BuildBronze, BuildSilver, GenerateDocs, ClearRunId, LateCommit,
           TaskFails, Fault, NoFault
  <2> QED
    BY <2>1, <2>2
<1>6. IdsTyped' /\ RunsTyped' /\ Named'
  <2>1. CASE LateCommit \/ UNCHANGED vars
    <3>1. UNCHANGED <<idVars, dagVars>>
      BY <2>1 DEF LateCommit, vars
    <3> QED
      BY <3>1 DEF idVars, dagVars, Typed, IdsTyped, RunsTyped, Named, StagesOf
  <2> QED
    BY <2>1, RunStepTypes, StartTypes, FailTypes DEF Next
<1> QED
  BY <1>1, <1>2, <1>4, <1>5, <1>6, <1>3 DEF Typed, DataTyped

-----------------------------------------------------------------------------
(* What no step takes back *)

Tables ==
    /\ bronze \subseteq Committed /\ silver \subseteq bronze
    /\ \A i \in Ids : staged[i] = "whole" => extracted[i] = "whole"

Kept ==
    /\ ids' \in Nat /\ ids' >= ids
    /\ \A i \in 1..ids : creator'[i] = creator[i]
    /\ \A i \in Ids : /\ extracted[i] = "whole" => extracted'[i] = "whole"
                      /\ staged[i] = "whole" => staged'[i] = "whole"
    /\ LoadsKept
    /\ bronze \subseteq bronze' /\ silver \subseteq silver'
    /\ overlapped => overlapped'

LEMMA CommittedAre ==
    ASSUME Typed
    PROVE  /\ Committed = {n \in 1..Len(loads) : loads[n].state = "committed"}
           /\ Detached = {n \in 1..Len(loads) : loads[n].state = "detached"}
           /\ Committed \subseteq 1..Len(loads) /\ Detached \subseteq 1..Len(loads)
           /\ Len(loads) \in Nat
BY LoadsAre DEF Committed, Detached

LEMMA CommittedKept == ASSUME Typed, LoadsKept PROVE Committed \subseteq Committed'
<1>1. DOMAIN loads' = 1..Len(loads') /\ Len(loads') \in Nat /\ Len(loads') >= Len(loads)
  BY LenProperties DEF LoadsKept
<1>2. \A n \in Committed : n \in 1..Len(loads') /\ loads'[n].state = "committed"
  BY <1>1, CommittedAre DEF LoadsKept
<1> QED
  BY <1>1, <1>2 DEF Committed

\* dbt only adds to a table, and only what its source has.
LEMMA RebuiltGrows ==
    ASSUME NEW r, NEW table, NEW source, table \subseteq source
    PROVE  table \subseteq Rebuilt(r, table, source) /\ Rebuilt(r, table, source) \subseteq source
BY DEF Rebuilt, Incremented

\* dbt makes silver of bronze, and succeeds or fails.
BuildsSilver(r) ==
    UNCHANGED <<loads, bronze>> /\ silver' = Rebuilt(r, silver, bronze)

LEMMA TableSteps ==
    ASSUME Typed, [Next]_vars
    PROVE  UNCHANGED <<bronze, silver>> \/ \E r \in Runs : BuildBronze(r) \/ BuildsSilver(r)
<1>1. \/ UNCHANGED <<bronze, silver>>
      \/ \E r \in Runs : BuildBronze(r) \/ BuildSilver(r) \/ TaskFails(r)
  BY DEF Next, TaskStep, vars, dataVars, Trigger, Rerun, GetRunId, WriteRunId, Extract, Compact,
         BeginLoad, CommitLoad, GenerateDocs, ClearRunId, LateCommit
<1>2. ASSUME NEW r \in Runs, BuildSilver(r) PROVE BuildsSilver(r)
  BY <1>2 DEF BuildSilver, BuildsSilver
<1>3. ASSUME NEW r \in Runs, TaskFails(r) PROVE UNCHANGED <<bronze, silver>> \/ BuildsSilver(r)
  BY <1>3, TaskFailsEffect DEF dataVars, BuildsSilver
<1> QED
  BY <1>1, <1>2, <1>3

LEMMA KeptStep == Typed /\ Tables /\ [Next]_vars => Kept /\ Tables'
<1> SUFFICES ASSUME Typed, Tables, [Next]_vars PROVE Kept /\ Tables'
  OBVIOUS
<1>1. LoadsKept /\ Committed \subseteq Committed'
  BY LoadsKeptStep, CommittedKept
<1>2. ids' \in Nat /\ ids' >= ids /\ \A i \in 1..ids : creator'[i] = creator[i]
  <2>1. ids \in Nat
    BY DEF Typed, IdsTyped
  <2>2. UNCHANGED <<ids, creator>> \/ \E r \in Runs : Generate(r)
    BY DEF Next, TaskStep, vars, idVars, Trigger, Rerun, GetRunId, WriteRunId, Extract, Compact,
           BeginLoad, CommitLoad, BuildBronze, BuildSilver, GenerateDocs, ClearRunId, LateCommit,
           TaskFails
  <2> QED
    BY <2>1, <2>2, GenerateEffect
<1>3. /\ \A i \in Ids : /\ extracted[i] = "whole" => extracted'[i] = "whole"
                        /\ staged[i] = "whole" => staged'[i] = "whole"
                        /\ staged'[i] = "whole" => extracted'[i] = "whole"
  <2>1. /\ extracted \in [Ids -> Levels] /\ staged \in [Ids -> Levels]
        /\ \A i \in Ids : staged[i] = "whole" => extracted[i] = "whole"
    BY DEF Typed, DataTyped, Tables
  <2>2. CASE UNCHANGED <<extracted, staged>>
    BY <2>1, <2>2
  <2>3. ASSUME NEW r \in Runs, Extract(r) \/ Compact(r) \/ TaskFails(r)
        PROVE  \/ UNCHANGED <<extracted, staged>>
               \/ /\ IdOf(r) \in Ids /\ extracted' = [extracted EXCEPT ![IdOf(r)] = "whole"]
                  /\ staged' = staged
               \/ /\ IdOf(r) \in Ids /\ extracted[IdOf(r)] # "whole" /\ staged' = staged
                  /\ extracted' = [extracted EXCEPT ![IdOf(r)] = "partial"]
               \/ /\ IdOf(r) \in Ids /\ extracted' = extracted
                  /\ staged' = [staged EXCEPT ![IdOf(r)] = extracted[IdOf(r)]]
    <3>1. CASE Extract(r)
      BY <3>1, ExtractEffect
    <3>2. CASE Compact(r)
      BY <3>2, CompactEffect
    <3>3. CASE TaskFails(r)
      BY <3>3, TaskFailsEffect DEF dataVars
    <3> QED
      BY <2>3, <3>1, <3>2, <3>3
  <2>4. ASSUME NEW r \in Runs, Extract(r) \/ Compact(r) \/ TaskFails(r), NEW i \in Ids
        PROVE  /\ extracted[i] = "whole" => extracted'[i] = "whole"
               /\ staged[i] = "whole" => staged'[i] = "whole"
               /\ staged'[i] = "whole" => extracted'[i] = "whole"
    BY <2>1, <2>3, <2>4
  <2>5. UNCHANGED <<extracted, staged>> \/ \E r \in Runs : Extract(r) \/ Compact(r) \/ TaskFails(r)
    BY DEF Next, TaskStep, vars, dataVars, Trigger, Rerun, GetRunId, WriteRunId, BeginLoad,
           CommitLoad, BuildBronze, BuildSilver, GenerateDocs, ClearRunId, LateCommit
  <2> QED
    BY <2>2, <2>4, <2>5
<1>4. /\ bronze \subseteq bronze' /\ silver \subseteq silver'
      /\ bronze' \subseteq Committed /\ silver' \subseteq bronze'
  <2>1. bronze \subseteq Committed /\ silver \subseteq bronze
    BY DEF Tables
  <2>2. CASE UNCHANGED <<bronze, silver>>
    BY <2>1, <2>2
  <2>3. ASSUME NEW r \in Runs, BuildBronze(r)
        PROVE  bronze \subseteq bronze' /\ bronze' \subseteq Committed /\ silver' = silver
    BY <2>1, <2>3, RebuiltGrows DEF BuildBronze
  <2>4. ASSUME NEW r \in Runs, BuildsSilver(r)
        PROVE  silver \subseteq silver' /\ silver' \subseteq bronze /\ bronze' = bronze
    BY <2>1, <2>4, RebuiltGrows DEF BuildsSilver
  <2>5. UNCHANGED <<bronze, silver>> \/ \E r \in Runs : BuildBronze(r) \/ BuildsSilver(r)
    BY TableSteps
  <2> QED
    BY <2>1, <2>2, <2>3, <2>4, <2>5
<1>5. overlapped => overlapped'
  <2>1. overlapped' = overlapped \/ \E r \in Runs : Trigger(r) \/ Rerun(r)
    BY DEF Next, TaskStep, vars, GetRunId, WriteRunId, Extract, Compact, BeginLoad, CommitLoad,
           BuildBronze, BuildSilver, GenerateDocs, ClearRunId, LateCommit, TaskFails
  <2> QED
    BY <2>1 DEF Trigger, Rerun
<1> QED
  BY <1>1, <1>2, <1>3, <1>4, <1>5 DEF Kept, Tables, Ids


-----------------------------------------------------------------------------
(* Loads under way, and whose id is in the file *)

StepOf(r) == Trigger(r) \/ Rerun(r) \/ TaskStep(r) \/ TaskFails(r)

LEMMA StepOthers == ASSUME Typed, NEW r \in Runs, StepOf(r) PROVE Others(r)
BY TriggerEffect, RerunEffect, GetRunIdEffect, WriteRunIdEffect, ExtractEffect, CompactEffect,
   BeginLoadEffect, CommitLoadEffect, BuildBronzeEffect, BuildSilverEffect, GenerateDocsEffect,
   ClearRunIdEffect, TaskFailsEffect
   DEF StepOf, TaskStep, Row, Fails

\* What a step of a DAG run does to the loads: nothing, more of them, or the end of its own.
LEMMA StepLoads ==
    ASSUME Typed, NEW r \in Runs, StepOf(r)
    PROVE  \/ loads' = loads /\ ~ (status[r] = "active" /\ stage[r] = "load" /\ midway[r])
           \/ BeginLoad(r) /\ Appended(r) /\ Row(r, "active", "load", TRUE)
           \/ \E outcome \in Outcomes : Ends(r, outcome)
<1>1. CASE BeginLoad(r)
  BY <1>1, BeginLoadEffect
<1>2. CASE CommitLoad(r)
  BY <1>2, CommitLoadEffect, OutcomesAre
<1>3. CASE TaskFails(r)
  BY <1>3, TaskFailsEffect DEF dataVars
<1>4. CASE ~ (BeginLoad(r) \/ CommitLoad(r) \/ TaskFails(r))
  <2>1. loads' = loads
    BY <1>4 DEF StepOf, TaskStep, dataVars, Trigger, Rerun, GetRunId, WriteRunId, Extract,
                Compact, BuildBronze, BuildSilver, GenerateDocs, ClearRunId
  <2>2. ~ (status[r] = "active" /\ stage[r] = "load" /\ midway[r])
    BY <1>4, TriggerEffect, RerunEffect, GetRunIdEffect, WriteRunIdEffect, ExtractEffect,
       CompactEffect, BuildBronzeEffect, BuildSilverEffect, GenerateDocsEffect, ClearRunIdEffect
       DEF StepOf, TaskStep
  <2> QED
    BY <2>1, <2>2
<1> QED
  BY <1>1, <1>2, <1>3, <1>4

Underway ==
    \A n \in 1..Len(loads) : loads[n].state = "running" =>
        LET q == loads[n].run IN status[q] = "active" /\ stage[q] = "load" /\ midway[q]

LEMMA UnderwayStep == Typed /\ Underway /\ [Next]_vars => Underway'
<1> SUFFICES ASSUME Typed, Underway, [Next]_vars, NEW n \in 1..Len(loads'),
                    loads'[n].state = "running"
             PROVE  LET q == loads'[n].run
                    IN  status'[q] = "active" /\ stage'[q] = "load" /\ midway'[q]
  BY DEF Underway
<1> DEFINE q == loads'[n].run
           Goal == status'[q] = "active" /\ stage'[q] = "load" /\ midway'[q]
<1>1. CASE UNCHANGED vars
  BY <1>1 DEF vars, dagVars, dataVars, Underway
<1>2. CASE LateCommit
  <2>1. n \in 1..Len(loads) /\ loads[n].state = "running" /\ loads'[n].run = loads[n].run
    BY <1>2, LateCommitEffect
  <2>2. UNCHANGED dagVars
    BY <1>2 DEF LateCommit
  <2> QED
    BY <2>1, <2>2 DEF dagVars, Underway
<1>3. ASSUME NEW r \in Runs, StepOf(r) PROVE Goal
  <2>1. Others(r)
    BY <1>3, StepOthers
  <2>2. ASSUME n \in 1..Len(loads), loads[n].state = "running", loads[n].run # r,
               loads'[n].run = loads[n].run
        PROVE  Goal
    <3>1. /\ loads[n].run \in Runs
          /\ status[loads[n].run] = "active" /\ stage[loads[n].run] = "load" /\ midway[loads[n].run]
      BY <2>2, LoadsAre DEF Underway, LoadRecords
    <3> QED
      BY <2>1, <2>2, <3>1 DEF Others
  <2>3. CASE loads' = loads /\ ~ (status[r] = "active" /\ stage[r] = "load" /\ midway[r])
    <3>1. loads[n].run # r
      BY <2>3 DEF Underway
    <3> QED
      BY <2>2, <2>3, <3>1
  <2>4. CASE BeginLoad(r) /\ Appended(r) /\ Row(r, "active", "load", TRUE)
    <3>1. CASE n \in 1..Len(loads)
      <4>1. loads'[n] = loads[n]
        BY <2>4, <3>1 DEF Appended
      <4>2. loads[n].run # r
        BY <2>4, <3>1, <4>1, BeginLoadEffect DEF Underway
      <4> QED
        BY <2>2, <3>1, <4>1, <4>2
    <3>2. CASE n \notin 1..Len(loads)
      <4>1. q = r
        BY <2>4, <3>2 DEF Appended
      <4> QED
        BY <2>4, <4>1 DEF Row
    <3> QED
      BY <3>1, <3>2
  <2>5. ASSUME NEW outcome \in Outcomes, Ends(r, outcome) PROVE Goal
    <3>1. n \in 1..Len(loads) /\ loads'[n].run = loads[n].run /\ loads[n].file \in Files
      BY <2>5, EndsEffect, LoadsAre DEF LoadRecords
    <3>2. outcome[loads[n].file] # "running"
      BY <3>1, OutcomesAre
    <3>3. loads[n].state = "running" /\ loads[n].run # r
      BY <2>5, <3>1, <3>2, EndsEffect
    <3> QED
      BY <2>2, <3>1, <3>3
  <2> QED
    BY <1>3, <2>3, <2>4, <2>5, StepLoads
<1> QED
  BY <1>1, <1>2, <1>3 DEF Next, StepOf

\* The ids of full refreshes are no newer than the one in the file.
Newest == \A i \in 1..ids : creator[i] \in FullRefresh => i <= tmpfile

LEMMA NewestStep == Typed /\ Newest /\ [Next]_vars => Newest'
<1> SUFFICES ASSUME Typed, Newest, [Next]_vars PROVE Newest'
  OBVIOUS
<1>1. ids \in Nat /\ tmpfile \in 0..ids
  BY DEF Typed, IdsTyped
<1>2. CASE UNCHANGED <<ids, creator, tmpfile>>
  BY <1>2 DEF Newest
<1>3. ASSUME NEW r \in Incremental, Generate(r), tmpfile' = tmpfile PROVE Newest'
  <2>1. creator'[ids'] \notin FullRefresh
    BY <1>3, GenerateEffect, SlotsAssumption DEF Runs
  <2>2. \A i \in 1..ids' : i = ids' \/ (i \in 1..ids /\ creator'[i] = creator[i])
    BY <1>3, GenerateEffect DEF Runs
  <2> QED
    BY <1>3, <2>1, <2>2 DEF Newest
<1>4. ASSUME NEW r \in Runs, WriteRunId(r) PROVE Newest'
  <2>1. tmpfile' = ids' /\ ids' = ids + 1
    BY <1>4, WriteRunIdEffect, GenerateEffect
  <2> QED
    BY <1>1, <2>1 DEF Newest
<1>5. ASSUME NEW r \in Runs, GetRunId(r) \/ TaskFails(r) PROVE Newest'
  <2>1. tmpfile' = tmpfile /\ (UNCHANGED <<ids, creator>> \/ (r \in Incremental /\ Generate(r)))
    BY <1>5, GetRunIdEffect, TaskFailsEffect
  <2> QED
    BY <1>2, <1>3, <2>1
<1>6. UNCHANGED <<ids, creator, tmpfile>>
      \/ \E r \in Runs : WriteRunId(r) \/ GetRunId(r) \/ TaskFails(r)
  BY DEF Next, TaskStep, vars, idVars, Trigger, Rerun, Extract, Compact, BeginLoad, CommitLoad,
         BuildBronze, BuildSilver, GenerateDocs, ClearRunId, LateCommit
<1> QED
  BY <1>2, <1>4, <1>5, <1>6


-----------------------------------------------------------------------------
(* How far the id of a DAG run has come *)

\* The id is the run's to work on: an XCom, or a file that is still the run's own.
Own(r) == r \in Incremental \/ (tmpfile # 0 /\ creator[tmpfile] = r)

RunningLoad(r, i, f) ==
    \E n \in 1..Len(loads) : /\ loads[n].id = i /\ loads[n].file = f
                             /\ loads[n].run = r /\ loads[n].state = "running"
HasLoad(r, i) == \A f \in Files : LoadedFile(i, f) \/ RunningLoad(r, i, f)
IsLoaded(i) == \A f \in Files : LoadedFile(i, f)

\* What a stage of r, or its second half, stands for.
Reached(r, sg, half, i) ==
    /\ sg \in {"compact", "load", "dbt", "docs", "clear"} => extracted[i] = "whole"
    /\ sg \in {"load", "dbt", "docs", "clear"} => staged[i] = "whole"
    /\ sg = "load" /\ half => HasLoad(r, i)
    /\ sg \in {"dbt", "docs", "clear"} => IsLoaded(i)

Progress == \A r \in Runs : Own(r) => Reached(r, stage[r], midway[r], IdOf(r))

LEMMA LoadedWhole == \A i : Loaded(i, "whole") <=> IsLoaded(i)
BY DEF Loaded, IsLoaded, FilesOf

LEMMA LoadedFileKept ==
    ASSUME Typed, LoadsKept, NEW i, NEW f, LoadedFile(i, f)
    PROVE  LoadedFile(i, f)'
<1>1. PICK n \in Committed : loads[n].id = i /\ loads[n].file = f
  BY DEF LoadedFile
<1>2. n \in Committed' /\ n \in 1..Len(loads)
  BY CommittedKept, CommittedAre
<1> QED
  BY <1>1, <1>2 DEF LoadsKept, LoadedFile

LEMMA IsLoadedKept ==
    ASSUME Typed, Kept, NEW i, IsLoaded(i)
    PROVE  IsLoaded(i)'
BY LoadedFileKept DEF Kept, IsLoaded

\* A step of another run takes neither the id nor the load of a run.
LEMMA OtherOwn ==
    ASSUME Typed, NEW r \in Runs, StepOf(r), NEW q \in Runs \ {r}, Own(q)'
    PROVE  Own(q) /\ IdOf(q)' = IdOf(q)
<1>1. CASE q \in Incremental
  BY <1>1, StepOthers DEF Own, IdOf, Others
<1>2. CASE q \notin Incremental
  <2>1. tmpfile' # 0 /\ creator'[tmpfile'] = q
    BY <1>2 DEF Own
  <2>2. CASE WriteRunId(r)
    <3>1. creator'[tmpfile'] = r
      BY <2>2, WriteRunIdEffect, GenerateEffect
    <3> QED
      BY <2>1, <3>1
  <2>3. CASE ~ WriteRunId(r)
    <3>1. tmpfile' = tmpfile
      BY <2>3 DEF StepOf, TaskStep, idVars, Trigger, Rerun, GetRunId, Extract, Compact, BeginLoad,
                  CommitLoad, BuildBronze, BuildSilver, GenerateDocs, ClearRunId, TaskFails
    <3>2. UNCHANGED <<ids, creator>> \/ Generate(r)
      BY <2>3 DEF StepOf, TaskStep, idVars, Trigger, Rerun, GetRunId, Extract, Compact, BeginLoad,
                  CommitLoad, BuildBronze, BuildSilver, GenerateDocs, ClearRunId, TaskFails
    <3>3. tmpfile \in 1..ids
      BY <2>1, <3>1 DEF Typed, IdsTyped
    <3>4. creator'[tmpfile] = creator[tmpfile]
      BY <3>2, <3>3, GenerateEffect
    <3> QED
      BY <1>2, <2>1, <3>1, <3>4 DEF Own, IdOf
  <2> QED
    BY <2>2, <2>3
<1> QED
  BY <1>1, <1>2

LEMMA OtherLoad ==
    ASSUME Typed, NEW r \in Runs, StepOf(r), NEW n \in 1..Len(loads), loads[n].run # r
    PROVE  /\ n \in 1..Len(loads') /\ loads'[n].id = loads[n].id
           /\ loads'[n].file = loads[n].file /\ loads'[n].run = loads[n].run
           /\ loads'[n].state = loads[n].state
<1>1. CASE loads' = loads
  BY <1>1
<1>2. CASE Appended(r)
  <2>1. Len(loads') >= Len(loads) /\ Len(loads) \in Nat /\ Len(loads') \in Nat
        /\ loads'[n] = loads[n]
    BY <1>2, LoadsAre, LenProperties DEF Appended
  <2> QED
    BY <2>1
<1>3. ASSUME NEW outcome \in Outcomes, Ends(r, outcome)
      PROVE  /\ n \in 1..Len(loads') /\ loads'[n].id = loads[n].id
             /\ loads'[n].file = loads[n].file /\ loads'[n].run = loads[n].run
             /\ loads'[n].state = loads[n].state
  BY <1>3, EndsEffect
<1> QED
  BY <1>1, <1>2, <1>3, StepLoads

LEMMA OtherReached ==
    ASSUME Typed, Kept, NEW r \in Runs, StepOf(r), NEW q \in Runs \ {r},
           Reached(q, stage[q], midway[q], IdOf(q)), Own(q)'
    PROVE  Reached(q, stage[q], midway[q], IdOf(q))'
<1>1. stage'[q] = stage[q] /\ (midway'[q] <=> midway[q])
  BY StepOthers DEF Others
<1>2. PICK i : i = IdOf(q) /\ i = IdOf(q)'
  BY OtherOwn
<1>3. stage[q] \in {"compact", "load", "dbt", "docs", "clear"} => i \in Ids
  BY <1>2, IdOfTyped DEF FirstOf
<1>4. HasLoad(q, i) => HasLoad(q, i)'
  <2>1. \A f : RunningLoad(q, i, f) => RunningLoad(q, i, f)'
    BY OtherLoad DEF RunningLoad
  <2> QED
    BY <2>1, LoadedFileKept DEF HasLoad, Kept
<1>5. IsLoaded(i) => IsLoaded(i)'
  BY IsLoadedKept
<1>6. /\ stage[q] \in {"compact", "load", "dbt", "docs", "clear"} => extracted'[i] = "whole"
      /\ stage[q] \in {"load", "dbt", "docs", "clear"} => staged'[i] = "whole"
  BY <1>2, <1>3 DEF Kept, Reached
<1>7. /\ stage[q] = "load" /\ midway[q] => HasLoad(q, i)
      /\ stage[q] \in {"dbt", "docs", "clear"} => IsLoaded(i)
  BY <1>2 DEF Reached
<1>8. Reached(q, stage[q], midway[q], i)'
  BY <1>1, <1>4, <1>5, <1>6, <1>7 DEF Reached
<1> QED
  BY <1>2, <1>8 DEF Reached, HasLoad, IsLoaded, LoadedFile, RunningLoad


\* The run's own step.
\* Nor does a step of its own, but for those that give it one.
LEMMA OwnKept ==
    ASSUME Typed, Kept, NEW r \in Runs, StepOf(r), Own(r)',
           ~ (Trigger(r) \/ GetRunId(r) \/ WriteRunId(r))
    PROVE  Own(r) /\ IdOf(r)' = IdOf(r)
<1>1. tmpfile' = tmpfile
  BY DEF StepOf, TaskStep, idVars, Rerun, Extract, Compact, BeginLoad, CommitLoad,
         BuildBronze, BuildSilver, GenerateDocs, ClearRunId, TaskFails
<1>2. id' = id
  BY RerunEffect, ExtractEffect, CompactEffect, BeginLoadEffect, CommitLoadEffect,
     BuildBronzeEffect, BuildSilverEffect, GenerateDocsEffect, ClearRunIdEffect,
     TaskFailsEffect DEF StepOf, TaskStep, Fails
<1>3. IdOf(r)' = IdOf(r)
  BY <1>1, <1>2 DEF IdOf
<1>4. CASE r \in Incremental
  BY <1>3, <1>4 DEF Own
<1>5. CASE r \notin Incremental
  <2>1. tmpfile # 0 /\ creator'[tmpfile] = r
    BY <1>1, <1>5 DEF Own
  <2>2. tmpfile \in 1..ids
    BY <2>1 DEF Typed, IdsTyped
  <2> QED
    BY <1>3, <2>1, <2>2 DEF Kept, Own
<1> QED
  BY <1>4, <1>5

LEMMA OwnReached ==
    ASSUME Typed, Kept, Progress, NEW r \in Runs, StepOf(r), Own(r)'
    PROVE  Reached(r, stage[r], midway[r], IdOf(r))'
<1>1. ASSUME ~ midway'[r], stage'[r] = FirstOf(r) PROVE Reached(r, stage[r], midway[r], IdOf(r))'
  BY <1>1 DEF Reached, FirstOf
<1>2. CASE Trigger(r)
  BY <1>1, <1>2, TriggerEffect DEF Row
<1>3. CASE GetRunId(r)
  <2>1. stage'[r] = "extract"
    BY <1>3, GetRunIdEffect DEF Row
  <2> QED
    BY <2>1 DEF Reached
<1>4. CASE WriteRunId(r)
  <2>1. stage'[r] = "extract"
    BY <1>4, WriteRunIdEffect DEF Row
  <2> QED
    BY <2>1 DEF Reached
<1>5. CASE ~ (Trigger(r) \/ GetRunId(r) \/ WriteRunId(r))
  <2>1. PICK i : i = IdOf(r) /\ i = IdOf(r)'
    BY <1>5, OwnKept
  <2>2. Own(r)
    BY <1>5, OwnKept
  <2>3. Reached(r, stage[r], midway[r], i)
    BY <2>1, <2>2 DEF Progress
  <2>4. stage[r] # FirstOf(r) \/ (r \notin Incremental /\ midway[r]) => i \in Ids
    BY <2>1, IdOfTyped
  <2>5. IsLoaded(i) => IsLoaded(i)'
    BY IsLoadedKept
  <2>6. SUFFICES Reached(r, stage[r], midway[r], i)'
    BY <2>1 DEF Reached, HasLoad, IsLoaded, LoadedFile, RunningLoad
  \* The stage stays, or the next one asks for no more.
  <2>7. ASSUME stage'[r] = stage[r] \/ (stage[r] = "dbt" /\ stage'[r] \in {"dbt", "docs"})
                                    \/ (stage[r] = "docs" /\ stage'[r] = "clear"),
               stage'[r] # "load" \/ ~ midway'[r]
        PROVE  Reached(r, stage[r], midway[r], i)'
    <3>1. /\ stage'[r] \in {"compact", "load", "dbt", "docs", "clear"} =>
              extracted[i] = "whole" /\ i \in Ids
          /\ stage'[r] \in {"load", "dbt", "docs", "clear"} => staged[i] = "whole" /\ i \in Ids
          /\ stage'[r] \in {"dbt", "docs", "clear"} => IsLoaded(i)
      BY <2>3, <2>4, <2>7 DEF Reached, FirstOf
    <3>2. /\ stage'[r] \in {"compact", "load", "dbt", "docs", "clear"} => extracted'[i] = "whole"
          /\ stage'[r] \in {"load", "dbt", "docs", "clear"} => staged'[i] = "whole"
      BY <3>1 DEF Kept
    <3> QED
      BY <2>5, <2>7, <3>1, <3>2 DEF Reached
  <2>8. CASE Rerun(r) \/ TaskFails(r) \/ BuildBronze(r) \/ BuildSilver(r) \/ GenerateDocs(r)
             \/ ClearRunId(r)
    <3>1. /\ stage'[r] = stage[r] \/ (stage[r] = "dbt" /\ stage'[r] \in {"dbt", "docs"})
                                  \/ (stage[r] = "docs" /\ stage'[r] = "clear")
          /\ stage'[r] # "load" \/ ~ midway'[r]
      BY <2>8, RerunEffect, TaskFailsEffect, BuildBronzeEffect, BuildSilverEffect,
         GenerateDocsEffect, ClearRunIdEffect DEF Row, Fails
    <3> QED
      BY <2>7, <3>1
  <2>9. ASSUME Fails(r) PROVE Reached(r, stage[r], midway[r], i)'
    <3>1. stage'[r] = stage[r] /\ ~ midway'[r]
      BY <2>9 DEF Fails
    <3> QED
      BY <2>7, <3>1
  <2>10. CASE Extract(r)
    <3>1. CASE Row(r, "active", "compact", FALSE) /\ extracted' = [extracted EXCEPT ![i] = "whole"]
      <4>1. stage'[r] = "compact" /\ i \in Ids
        BY <2>1, <2>10, <3>1, ExtractEffect DEF Row
      <4>2. extracted'[i] = "whole"
        BY <3>1, <4>1 DEF Typed, DataTyped
      <4> QED
        BY <4>1, <4>2 DEF Reached
    <3> QED
      BY <2>1, <2>10, <2>9, <3>1, ExtractEffect
  <2>11. CASE Compact(r)
    <3>1. CASE Row(r, "active", "load", FALSE) /\ staged' = [staged EXCEPT ![i] = extracted[i]]
               /\ extracted' = extracted
      <4>1. stage[r] = "compact" /\ stage'[r] = "load" /\ ~ midway'[r] /\ i \in Ids
        BY <2>1, <2>11, <3>1, CompactEffect DEF Row
      <4>2. extracted[i] = "whole"
        BY <2>3, <4>1 DEF Reached
      <4>3. staged'[i] = "whole" /\ extracted'[i] = "whole"
        BY <3>1, <4>1, <4>2 DEF Typed, DataTyped
      <4> QED
        BY <4>1, <4>3 DEF Reached
    <3> QED
      BY <2>1, <2>11, <2>9, <3>1, CompactEffect
  <2>12. CASE BeginLoad(r)
    <3>1. stage[r] = "load" /\ i \in Ids /\ extracted' = extracted /\ staged' = staged
      BY <2>1, <2>12, BeginLoadEffect
    <3>2. extracted[i] = "whole" /\ staged[i] = "whole" /\ LevelOf(r) = "whole"
      BY <2>1, <2>3, <3>1 DEF Reached, LevelOf
    <3>3. CASE Row(r, "active", "dbt", FALSE) /\ Loaded(i, LevelOf(r))
      <4>1. IsLoaded(i)
        BY <3>2, <3>3, LoadedWhole
      <4>2. stage'[r] = "dbt" /\ ~ midway'[r]
        BY <3>3 DEF Row
      <4> QED
        BY <2>5, <3>1, <3>2, <4>1, <4>2 DEF Reached
    <3>4. CASE Row(r, "active", "load", TRUE) /\ Appended(r)
      <4>1. ASSUME NEW f \in Files PROVE LoadedFile(i, f)' \/ RunningLoad(r, i, f)'
        <5>1. CASE LoadedFile(i, f)
          BY <5>1, LoadedFileKept DEF Kept
        <5>2. CASE ~ LoadedFile(i, f)
          <6>1. f \in FilesOf(LevelOf(r))
            BY <3>2 DEF FilesOf
          <6>2. PICK n \in 1..Len(loads') : n \notin 1..Len(loads) /\ loads'[n].file = f
            BY <2>1, <3>4, <5>2, <6>1 DEF Appended
          <6>3. loads'[n].id = i /\ loads'[n].run = r /\ loads'[n].state = "running"
            BY <2>1, <3>4, <6>2 DEF Appended
          <6> QED
            BY <6>2, <6>3 DEF RunningLoad
        <5> QED
          BY <5>1, <5>2
      <4>2. stage'[r] = "load" /\ midway'[r]
        BY <3>4 DEF Row
      <4> QED
        BY <3>1, <3>2, <4>1, <4>2 DEF Reached, HasLoad
    <3> QED
      BY <2>1, <2>12, <2>9, <3>3, <3>4, BeginLoadEffect
  <2>13. CASE CommitLoad(r)
    <3>1. CASE Row(r, "active", "dbt", FALSE) /\ Ends(r, [f \in Files |-> "committed"])
      <4>1. /\ stage[r] = "load" /\ midway[r] /\ i \in Ids /\ stage'[r] = "dbt" /\ ~ midway'[r]
            /\ extracted' = extracted /\ staged' = staged
        BY <2>1, <2>13, <3>1, CommitLoadEffect DEF Row
      <4>2. extracted[i] = "whole" /\ staged[i] = "whole" /\ HasLoad(r, i)
        BY <2>3, <4>1 DEF Reached
      <4>3. ASSUME NEW f \in Files PROVE LoadedFile(i, f)'
        <5>1. CASE LoadedFile(i, f)
          BY <5>1, LoadedFileKept DEF Kept
        <5>2. CASE RunningLoad(r, i, f)
          <6>1. PICK n \in 1..Len(loads) : /\ loads[n].id = i /\ loads[n].file = f
                                           /\ loads[n].run = r /\ loads[n].state = "running"
            BY <5>2 DEF RunningLoad
          <6>2. /\ loads'[n].id = i /\ loads'[n].file = f /\ loads'[n].state = "committed"
                /\ n \in 1..Len(loads') /\ loads' \in Seq(LoadRecords)
            BY <3>1, <6>1, EndsEffect, OutcomesAre
          <6>3. n \in Committed'
            BY <6>2, LenProperties DEF Committed
          <6> QED
            BY <6>2, <6>3 DEF LoadedFile
        <5> QED
          BY <4>2, <5>1, <5>2 DEF HasLoad
      <4> QED
        BY <4>1, <4>2, <4>3 DEF Reached, IsLoaded
    <3> QED
      BY <2>1, <2>13, <2>9, <3>1, CommitLoadEffect
  <2> QED
    BY <1>5, <2>8, <2>10, <2>11, <2>12, <2>13 DEF StepOf, TaskStep
<1> QED
  BY <1>2, <1>3, <1>4, <1>5


LEMMA ProgressStep == Typed /\ Kept /\ Progress /\ [Next]_vars => Progress'
<1> SUFFICES ASSUME Typed, Kept, Progress, [Next]_vars PROVE Progress'
  OBVIOUS
<1>1. CASE LateCommit \/ UNCHANGED vars
  <2> SUFFICES ASSUME NEW q \in Runs, Own(q)'
               PROVE  Reached(q, stage[q], midway[q], IdOf(q))'
    BY DEF Progress
  <2>1. UNCHANGED <<idVars, dagVars, extracted, staged>>
    BY <1>1 DEF LateCommit, vars, dataVars
  <2>2. Own(q) /\ IdOf(q)' = IdOf(q) /\ stage' = stage /\ midway' = midway
    BY <2>1 DEF idVars, dagVars, Own, IdOf
  <2>3. PICK i : i = IdOf(q) /\ i = IdOf(q)'
    BY <2>2
  <2>4. Reached(q, stage[q], midway[q], i)
    BY <2>2, <2>3 DEF Progress
  <2>5. IsLoaded(i) => IsLoaded(i)'
    BY IsLoadedKept
  <2>6. HasLoad(q, i) => HasLoad(q, i)'
    <3>1. \A f : RunningLoad(q, i, f) => RunningLoad(q, i, f)'
      <4>1. CASE UNCHANGED vars
        BY <4>1 DEF vars, dataVars, RunningLoad
      <4>2. CASE LateCommit
        BY <4>2, LateCommitEffect DEF RunningLoad
      <4> QED
        BY <1>1, <4>1, <4>2
    <3> QED
      BY <3>1, LoadedFileKept DEF HasLoad, Kept
  <2>7. Reached(q, stage[q], midway[q], i)'
    BY <2>1, <2>2, <2>4, <2>5, <2>6 DEF Reached
  <2> QED
    BY <2>3, <2>7 DEF Reached, HasLoad, IsLoaded, LoadedFile, RunningLoad
<1>2. ASSUME NEW r \in Runs, StepOf(r) PROVE Progress'
  <2> SUFFICES ASSUME NEW q \in Runs, Own(q)'
               PROVE  Reached(q, stage[q], midway[q], IdOf(q))'
    BY DEF Progress
  <2>1. CASE q = r
    BY <1>2, <2>1, OwnReached
  <2>2. CASE q # r
    <3>1. Own(q)
      BY <1>2, <2>2, OtherOwn
    <3>2. Reached(q, stage[q], midway[q], IdOf(q))
      BY <3>1 DEF Progress
    <3> QED
      BY <1>2, <2>2, <3>2, OtherReached
  <2> QED
    BY <2>1, <2>2
<1> QED
  BY <1>1, <1>2 DEF Next, StepOf

-----------------------------------------------------------------------------
(* The files of an id become visible in order *)

InOrder ==
    \A n \in 1..Len(loads) : \A f \in Files :
        loads[n].state # "undone" /\ f < loads[n].file =>
            \/ LoadedFile(loads[n].id, f)
            \/ loads[n].state = "running" /\ RunningLoad(loads[n].run, loads[n].id, f)

LEMMA InOrderStep == Typed /\ InOrder /\ [Next]_vars => InOrder'
<1> SUFFICES ASSUME Typed, InOrder, [Next]_vars, NEW n \in 1..Len(loads'), NEW f \in Files,
                    loads'[n].state # "undone", f < loads'[n].file
             PROVE  \/ LoadedFile(loads[n].id, f)'
                    \/ loads'[n].state = "running" /\ RunningLoad(loads[n].run, loads[n].id, f)'
  BY DEF InOrder
<1> DEFINE Goal == \/ LoadedFile(loads[n].id, f)'
                   \/ /\ loads'[n].state = "running"
                      /\ RunningLoad(loads[n].run, loads[n].id, f)'
<1>1. LoadsKept
  BY LoadsKeptStep
<1>2. ASSUME NEW i, i = loads'[n].id, LoadedFile(i, f)' PROVE Goal
  BY <1>2 DEF LoadedFile
<1>3. ASSUME NEW i, i = loads'[n].id, NEW q, q = loads'[n].run, loads'[n].state = "running",
             RunningLoad(q, i, f)'
      PROVE  Goal
  BY <1>3 DEF RunningLoad
<1>4. CASE loads' = loads
  BY <1>4 DEF InOrder, LoadedFile, RunningLoad, Committed
\* A load that was there and has stayed or become visible.
<1>5. ASSUME n \in 1..Len(loads), loads[n].state # "undone", loads[n].state # "running"
      PROVE  Goal
  <2>1. PICK i : i = loads[n].id /\ i = loads'[n].id
    BY <1>1, <1>5 DEF LoadsKept
  <2>2. f < loads[n].file
    BY <1>1, <1>5 DEF LoadsKept
  <2>3. LoadedFile(i, f)
    BY <1>5, <2>1, <2>2 DEF InOrder
  <2> QED
    BY <1>1, <1>2, <2>1, <2>3, LoadedFileKept
\* A load that is under way before and after the step.
<1>6. ASSUME n \in 1..Len(loads), loads[n].state = "running", loads'[n].state = "running",
             \A m \in 1..Len(loads) : loads[m].run = loads[n].run =>
                 m \in 1..Len(loads') /\ loads'[m].state = loads[m].state
      PROVE  Goal
  <2>1. PICK i : i = loads[n].id /\ i = loads'[n].id
    BY <1>1, <1>6 DEF LoadsKept
  <2>2. PICK q : q = loads[n].run /\ q = loads'[n].run
    BY <1>1, <1>6 DEF LoadsKept
  <2>3. f < loads[n].file
    BY <1>1, <1>6 DEF LoadsKept
  <2>4. CASE LoadedFile(i, f)
    BY <1>1, <1>2, <2>1, <2>4, LoadedFileKept
  <2>5. CASE RunningLoad(q, i, f)
    <3>1. PICK m \in 1..Len(loads) : /\ loads[m].id = i /\ loads[m].file = f
                                     /\ loads[m].run = q /\ loads[m].state = "running"
      BY <2>5 DEF RunningLoad
    <3>2. RunningLoad(q, i, f)'
      BY <1>1, <1>6, <2>2, <3>1 DEF LoadsKept, RunningLoad
    <3> QED
      BY <1>3, <1>6, <2>1, <2>2, <3>2
  <2> QED
    BY <1>6, <2>1, <2>2, <2>3, <2>4, <2>5 DEF InOrder
<1>7. CASE LateCommit
  <2>1. /\ n \in 1..Len(loads) /\ Len(loads') = Len(loads) /\ loads[n].state # "undone"
        /\ loads[n].state = "running" => loads'[n].state = "running"
        /\ loads[n].state = "running" =>
              \A m \in 1..Len(loads) : loads[m].state = "running" => loads'[m].state = "running"
    BY <1>7, LateCommitEffect
  <2>2. CASE loads[n].state = "running"
    <3>1. PICK i : i = loads[n].id /\ i = loads'[n].id
      BY <1>1, <2>1 DEF LoadsKept
    <3>2. PICK q : q = loads[n].run /\ q = loads'[n].run
      BY <1>1, <2>1 DEF LoadsKept
    <3>3. f < loads[n].file
      BY <1>1, <2>1 DEF LoadsKept
    <3>4. LoadedFile(i, f) => LoadedFile(i, f)'
      BY <1>1, LoadedFileKept
    <3>5. RunningLoad(q, i, f) => RunningLoad(q, i, f)'
      BY <1>1, <2>1, <2>2 DEF LoadsKept, RunningLoad
    <3>6. LoadedFile(i, f) \/ RunningLoad(q, i, f)
      BY <2>1, <3>1, <3>2, <3>3 DEF InOrder
    <3> QED
      BY <1>2, <1>3, <2>1, <2>2, <3>1, <3>2, <3>4, <3>5, <3>6
  <2> QED
    BY <1>5, <2>1, <2>2
<1>8. ASSUME NEW r \in Runs, BeginLoad(r), Appended(r) PROVE Goal
  <2>1. CASE n \in 1..Len(loads)
    <3>1. loads'[n] = loads[n] /\ \A m \in 1..Len(loads) : loads'[m] = loads[m]
      BY <1>8, <2>1 DEF Appended
    <3>2. \A m \in 1..Len(loads) : m \in 1..Len(loads')
      BY <1>1, LoadsAre, LenProperties DEF LoadsKept
    <3> QED
      BY <1>5, <1>6, <2>1, <3>1, <3>2
  <2>2. CASE n \notin 1..Len(loads)
    <3>1. PICK i : i = IdOf(r) /\ i = loads'[n].id
      BY <1>8, <2>2 DEF Appended
    <3>2. /\ loads'[n].run = r /\ loads'[n].state = "running"
          /\ loads'[n].file \in FilesOf(LevelOf(r))
      BY <1>8, <2>2 DEF Appended
    <3>3. f \in FilesOf(LevelOf(r))
      BY <3>2 DEF FilesOf, Files
    <3>4. CASE LoadedFile(i, f)
      BY <1>1, <1>2, <3>1, <3>4, LoadedFileKept
    <3>5. CASE ~ LoadedFile(i, f)
      <4>1. PICK m \in 1..Len(loads') : m \notin 1..Len(loads) /\ loads'[m].file = f
        BY <1>8, <3>1, <3>3, <3>5 DEF Appended
      <4>2. loads'[m].id = i /\ loads'[m].run = r /\ loads'[m].state = "running"
        BY <1>8, <3>1, <4>1 DEF Appended
      <4>3. RunningLoad(r, i, f)'
        BY <4>1, <4>2 DEF RunningLoad
      <4> QED
        BY <1>3, <3>1, <3>2, <4>3
    <3> QED
      BY <3>4, <3>5
  <2> QED
    BY <2>1, <2>2
<1>9. ASSUME NEW r \in Runs, NEW outcome \in Outcomes, Ends(r, outcome) PROVE Goal
  <2>1. n \in 1..Len(loads) /\ Len(loads') = Len(loads) /\ loads[n].file = loads'[n].file
        /\ loads[n].file \in Files
    BY <1>9, EndsEffect, LoadsAre DEF LoadRecords
  <2>2. CASE loads[n].state = "running" /\ loads[n].run = r
    <3>1. PICK i : i = loads[n].id /\ i = loads'[n].id
      BY <1>1, <2>1 DEF LoadsKept
    <3>2. loads'[n].state = outcome[loads[n].file] /\ outcome[f] = "committed"
      BY <1>9, <2>1, <2>2, EndsEffect, OutcomesAre
    <3>3. CASE LoadedFile(i, f)
      BY <1>1, <1>2, <3>1, <3>3, LoadedFileKept
    <3>4. CASE RunningLoad(r, i, f)
      <4>1. PICK m \in 1..Len(loads) : /\ loads[m].id = i /\ loads[m].file = f
                                       /\ loads[m].run = r /\ loads[m].state = "running"
        BY <3>4 DEF RunningLoad
      <4>2. /\ loads'[m].id = i /\ loads'[m].file = f /\ loads'[m].state = "committed"
            /\ m \in 1..Len(loads')
        BY <1>9, <3>2, <4>1, EndsEffect
      <4>3. m \in Committed'
        BY <1>1, <4>2, LenProperties DEF LoadsKept, Committed
      <4>4. LoadedFile(i, f)'
        BY <4>2, <4>3 DEF LoadedFile
      <4> QED
        BY <1>2, <3>1, <4>4
    <3> QED
      BY <2>1, <2>2, <3>1, <3>3, <3>4 DEF InOrder
  <2>3. CASE loads[n].state = "running" /\ loads[n].run # r
    <3>1. \A m \in 1..Len(loads) : loads[m].run = loads[n].run =>
              m \in 1..Len(loads') /\ loads'[m].state = loads[m].state
      BY <1>9, <2>1, <2>3, EndsEffect
    <3> QED
      BY <1>6, <2>1, <2>3, <3>1
  <2>4. CASE loads[n].state # "running"
    <3>1. loads[n].state # "undone"
      BY <1>9, <2>1, <2>4, EndsEffect
    <3> QED
      BY <1>5, <2>1, <2>4, <3>1
  <2> QED
    BY <2>2, <2>3, <2>4
<1> QED
  BY <1>4, <1>7, <1>8, <1>9, StepLoads DEF Next, StepOf, vars, dataVars

-----------------------------------------------------------------------------
(* While no two runs, and no run and a detached load, have met *)

LoadOn == {"load", "dbt", "docs", "clear"}

OneRun == \A r, q \in Runs : status[r] = "active" /\ status[q] = "active" => r = q

OwnFile ==
    \A r \in FullRefresh :
        status[r] = "active" /\ (stage[r] # "extract" \/ midway[r]) => Own(r)

\* What is under way is the newest, of the one run, its files in order.
NewestRuns ==
    \A n \in 1..Len(loads) : loads[n].state = "running" =>
        /\ loads[n].id = IdOf(loads[n].run)
        /\ \A m \in 1..Len(loads) : m > n =>
              /\ loads[m].state = "running" /\ loads[m].run = loads[n].run
              /\ loads[m].id = loads[n].id /\ loads[m].file > loads[n].file

\* A detached load is of the id of the run that is on, and of the loads after it.
DetachedFits ==
    \A n \in 1..Len(loads) : loads[n].state = "detached" =>
        /\ \A r \in Runs : status[r] = "active" => stage[r] \in LoadOn /\ loads[n].id = IdOf(r)
        /\ \A m \in 1..Len(loads) : m > n => loads[m].id = loads[n].id

Same(k, n) == loads[k].id = loads[n].id /\ loads[k].file = loads[n].file

\* Between a load that stays and another of its file are loads of this id only.
Together ==
    \A n, m, k \in 1..Len(loads) :
        /\ loads[n].state \in {"committed", "detached"}
        /\ n < m /\ m < k /\ Same(k, n)
        => loads[m].id = loads[n].id

\* An earlier file is begun again only after a later one that has left nothing.
NoReturn ==
    \A n, m \in 1..Len(loads) :
        n < m /\ loads[m].id = loads[n].id /\ loads[m].file < loads[n].file =>
            loads[n].state = "undone"

Alone ==
    ~ overlapped => /\ OneRun /\ OwnFile /\ NewestRuns /\ DetachedFits /\ Together /\ NoReturn

\* Such a step is that of the only run.
LEMMA TheOnlyRun ==
    ASSUME Typed, OneRun, NEW r \in Runs, StepOf(r), ~ overlapped'
    PROVE  /\ \A q \in Runs \ {r} : status[q] # "active" /\ status'[q] # "active"
           /\ \/ /\ Trigger(r) \/ Rerun(r)
                 /\ \A q \in Runs : status[q] # "active"
                 /\ \A n \in 1..Len(loads) : loads[n].state # "detached"
                 /\ loads' = loads
              \/ status[r] = "active" /\ (TaskStep(r) \/ TaskFails(r))
<1>1. Others(r)
  BY StepOthers
<1>2. CASE Trigger(r) \/ Rerun(r)
  <2>1. Running = {} /\ Detached = {} /\ loads' = loads
    <3>1. CASE Trigger(r)
      BY <3>1, TriggerEffect DEF dataVars
    <3>2. CASE Rerun(r)
      BY <3>2, RerunEffect DEF dataVars
    <3> QED
      BY <1>2, <3>1, <3>2
  <2>2. \A q \in Runs : status[q] # "active"
    BY <2>1 DEF Running
  <2>3. \A n \in 1..Len(loads) : loads[n].state # "detached"
    BY <2>1, CommittedAre
  <2> QED
    BY <1>1, <1>2, <2>1, <2>2, <2>3 DEF Others
<1>3. CASE TaskStep(r) \/ TaskFails(r)
  <2>1. status[r] = "active"
    BY <1>3, GetRunIdEffect, WriteRunIdEffect, ExtractEffect, CompactEffect, BeginLoadEffect,
       CommitLoadEffect, BuildBronzeEffect, BuildSilverEffect, GenerateDocsEffect,
       ClearRunIdEffect, TaskFailsEffect DEF TaskStep
  <2> QED
    BY <1>1, <1>3, <2>1 DEF Others, OneRun
<1> QED
  BY <1>2, <1>3 DEF StepOf

LEMMA TaskKeepsId ==
    ASSUME Typed, NEW r \in Runs, TaskStep(r) \/ TaskFails(r), stage[r] \in LoadOn
    PROVE  stage'[r] \in LoadOn /\ IdOf(r)' = IdOf(r)
<1>1. ~ GetRunId(r) /\ ~ WriteRunId(r) /\ ~ Extract(r) /\ ~ Compact(r)
  BY GetRunIdEffect, WriteRunIdEffect, ExtractEffect, CompactEffect DEF LoadOn
<1>2. stage'[r] \in LoadOn /\ id' = id /\ tmpfile' = tmpfile
  BY <1>1, BeginLoadEffect, CommitLoadEffect, BuildBronzeEffect, BuildSilverEffect,
     GenerateDocsEffect, ClearRunIdEffect, TaskFailsEffect
     DEF TaskStep, Row, Fails, LoadOn, idVars
<1> QED
  BY <1>2 DEF IdOf

LEMMA OneRunStep ==
    ASSUME Typed, OneRun, NEW r \in Runs, StepOf(r), ~ overlapped'
    PROVE  OneRun'
BY TheOnlyRun DEF OneRun

LEMMA OwnFileStep ==
    ASSUME Typed, OneRun, OwnFile, NEW r \in Runs, StepOf(r), ~ overlapped'
    PROVE  OwnFile'
<1> SUFFICES ASSUME NEW q \in FullRefresh, status'[q] = "active",
                    stage'[q] # "extract" \/ midway'[q]
             PROVE  Own(q)'
  BY DEF OwnFile
<1>1. q = r
  BY TheOnlyRun DEF Runs
<1>2. r \notin Incremental
  BY <1>1, SlotsAssumption
<1>3. CASE WriteRunId(r)
  <2>1. tmpfile' = ids' /\ ids' \in 1..MaxIds /\ creator'[ids'] = r
    BY <1>3, WriteRunIdEffect, GenerateEffect
  <2> QED
    BY <1>1, <2>1 DEF Own
<1>4. CASE ~ WriteRunId(r)
  <2>1. tmpfile' = tmpfile
    BY <1>4 DEF StepOf, TaskStep, idVars, Trigger, Rerun, GetRunId, Extract, Compact, BeginLoad,
                CommitLoad, BuildBronze, BuildSilver, GenerateDocs, ClearRunId, TaskFails
  <2>2. UNCHANGED <<ids, creator>> \/ Generate(r)
    BY <1>4 DEF StepOf, TaskStep, idVars, Trigger, Rerun, GetRunId, Extract, Compact, BeginLoad,
                CommitLoad, BuildBronze, BuildSilver, GenerateDocs, ClearRunId, TaskFails
  <2>3. ASSUME Own(r) PROVE Own(r)'
    <3>1. tmpfile \in 1..ids /\ creator[tmpfile] = r
      BY <1>2, <2>3 DEF Own, Typed, IdsTyped
    <3>2. creator'[tmpfile] = creator[tmpfile]
      BY <2>2, <3>1, GenerateEffect
    <3> QED
      BY <2>1, <3>1, <3>2 DEF Own
  <2>4. Own(r)
    <3>1. CASE Trigger(r)
      <4>1. stage'[r] = "extract" /\ ~ midway'[r]
        BY <1>2, <3>1, TriggerEffect DEF Row, FirstOf
      <4> QED
        BY <1>1, <4>1
    <3>2. CASE Rerun(r)
      <4>1. stage'[r] = stage[r] /\ ~ midway'[r] /\ (tmpfile = 0 \/ creator[tmpfile] = r)
        BY <1>1, <3>2, RerunEffect DEF Row
      <4>2. tmpfile # 0
        BY <1>1, <4>1 DEF Typed, Named
      <4> QED
        BY <4>1, <4>2 DEF Own
    <3>3. CASE status[r] = "active" /\ (TaskStep(r) \/ TaskFails(r))
      <4>1. CASE Extract(r)
        <5>1. midway[r]
          BY <1>1, <4>1, ExtractEffect
        <5> QED
          BY <1>1, <3>3, <5>1 DEF OwnFile
      <4>2. CASE ~ Extract(r)
        <5>1. stage[r] # "extract"
          BY <1>1, <1>2, <1>4, <3>3, <4>2, GetRunIdEffect, CompactEffect, BeginLoadEffect,
             CommitLoadEffect, BuildBronzeEffect, BuildSilverEffect, GenerateDocsEffect,
             ClearRunIdEffect, TaskFailsEffect DEF TaskStep, Fails
        <5> QED
          BY <1>1, <3>3, <5>1 DEF OwnFile
      <4> QED
        BY <4>1, <4>2
    <3> QED
      BY <3>1, <3>2, <3>3, TheOnlyRun
  <2> QED
    BY <1>1, <2>3, <2>4
<1> QED
  BY <1>3, <1>4


\* A load that is still running is that of the run that takes the step.
LEMMA OwnLoadRuns ==
    ASSUME Typed, Underway, OneRun, NEW r \in Runs, StepOf(r), ~ overlapped',
           NEW n \in 1..Len(loads), loads[n].state = "running"
    PROVE  loads[n].run = r /\ status[r] = "active" /\ stage[r] = "load" /\ midway[r]
<1>1. loads[n].run \in Runs /\ status[loads[n].run] = "active"
      /\ stage[loads[n].run] = "load" /\ midway[loads[n].run]
  BY LoadsAre DEF Underway, LoadRecords
<1>2. loads[n].run = r
  BY <1>1, TheOnlyRun
<1> QED
  BY <1>1, <1>2

\* A run that begins a load finds none under way.
LEMMA NoneRuns ==
    ASSUME Typed, Underway, OneRun, NEW r \in Runs, BeginLoad(r), ~ overlapped',
           NEW n \in 1..Len(loads)
    PROVE  loads[n].state # "running"
<1>1. ~ midway[r] /\ StepOf(r)
  BY BeginLoadEffect DEF StepOf, TaskStep
<1> QED
  BY <1>1, OwnLoadRuns

LEMMA NewestRunsStep ==
    ASSUME Typed, Underway, OneRun, NewestRuns, NEW r \in Runs, StepOf(r), ~ overlapped'
    PROVE  NewestRuns'
<1>1. CASE loads' = loads /\ ~ (status[r] = "active" /\ stage[r] = "load" /\ midway[r])
  <2>1. \A n \in 1..Len(loads') : loads'[n].state # "running"
    BY <1>1, OwnLoadRuns
  <2> QED
    BY <2>1 DEF NewestRuns
<1>2. CASE BeginLoad(r) /\ Appended(r)
  <2>1. IdOf(r)' = IdOf(r)
    BY <1>2, BeginLoadEffect, TaskKeepsId DEF TaskStep, LoadOn
  <2>2. PICK i : i = IdOf(r) /\ i = IdOf(r)'
    BY <2>1
  <2> SUFFICES ASSUME NEW n \in 1..Len(loads'), loads'[n].state = "running"
               PROVE  /\ loads'[n].id = IdOf(loads[n].run)'
                      /\ \A m \in 1..Len(loads') : m > n =>
                            /\ loads'[m].state = "running" /\ loads'[m].run = loads'[n].run
                            /\ loads'[m].id = loads'[n].id /\ loads'[m].file > loads'[n].file
    BY DEF NewestRuns
  <2>3. n \notin 1..Len(loads)
    BY <1>2, NoneRuns DEF Appended
  <2>4. n > Len(loads) /\ loads'[n].run = r /\ loads'[n].id = i
    BY <1>2, <2>2, <2>3 DEF Appended
  <2>5. ASSUME NEW m \in 1..Len(loads'), m > n
        PROVE  /\ loads'[m].state = "running" /\ loads'[m].run = loads'[n].run
               /\ loads'[m].id = loads'[n].id /\ loads'[m].file > loads'[n].file
    <3>1. m \notin 1..Len(loads)
      BY <2>4, <2>5, LoadsAre
    <3> QED
      BY <1>2, <2>2, <2>3, <2>4, <2>5, <3>1 DEF Appended
  <2>6. loads'[n].id = IdOf(loads[n].run)'
    BY <2>2, <2>4 DEF IdOf
  <2> QED
    BY <2>5, <2>6
<1>3. ASSUME NEW outcome \in Outcomes, Ends(r, outcome)
      PROVE  NewestRuns'
  <2>1. ASSUME NEW n \in 1..Len(loads') PROVE loads'[n].state # "running"
    <3>1. n \in 1..Len(loads) /\ loads[n].file \in Files
      BY <1>3, EndsEffect, LoadsAre DEF LoadRecords
    <3>2. CASE loads[n].state = "running"
      <4>1. loads[n].run = r
        BY <3>1, <3>2, OwnLoadRuns
      <4>2. loads'[n].state = outcome[loads[n].file]
        BY <1>3, <3>1, <3>2, <4>1, EndsEffect
      <4> QED
        BY <3>1, <4>2, OutcomesAre
    <3>3. CASE loads[n].state # "running"
      BY <1>3, <3>1, <3>3, EndsEffect
    <3> QED
      BY <3>2, <3>3
  <2> QED
    BY <2>1 DEF NewestRuns
<1> QED
  BY <1>1, <1>2, <1>3, StepLoads

LEMMA DetachedFitsStep ==
    ASSUME Typed, Underway, OneRun, NewestRuns, DetachedFits, NEW r \in Runs, StepOf(r),
           ~ overlapped'
    PROVE  DetachedFits'
<1> DEFINE Fits(n) ==
        /\ \A q \in Runs : status'[q] = "active" => stage'[q] \in LoadOn /\ loads'[n].id = IdOf(q)'
        /\ \A m \in 1..Len(loads') : m > n => loads'[m].id = loads'[n].id
<1> SUFFICES ASSUME NEW n \in 1..Len(loads'), loads'[n].state = "detached" PROVE Fits(n)
  BY DEF DetachedFits
<1>1. CASE /\ Trigger(r) \/ Rerun(r)
           /\ loads' = loads
           /\ \A m \in 1..Len(loads) : loads[m].state # "detached"
  BY <1>1, TheOnlyRun
<1>2. ASSUME status[r] = "active", TaskStep(r) \/ TaskFails(r) PROVE Fits(n)
  <2>1. Len(loads) \in Nat
    BY LoadsAre
  <2>2. ASSUME stage[r] \in LoadOn, loads'[n].id = IdOf(r),
               \A m \in 1..Len(loads') : m > n => loads'[m].id = loads'[n].id
        PROVE  Fits(n)
    <3>1. stage'[r] \in LoadOn /\ IdOf(r)' = IdOf(r)
      BY <1>2, <2>2, TaskKeepsId
    <3>2. ASSUME NEW q \in Runs, status'[q] = "active"
          PROVE  stage'[q] \in LoadOn /\ loads'[n].id = IdOf(q)'
      <4>1. q = r
        BY <3>2, TheOnlyRun
      <4> QED
        BY <2>2, <3>1, <4>1
    <3> QED
      BY <2>2, <3>2
  <2>3. CASE loads' = loads
    BY <1>2, <2>2, <2>3 DEF DetachedFits
  <2>4. CASE BeginLoad(r) /\ Appended(r)
    <3>1. /\ \A m \in 1..Len(loads) : loads'[m] = loads[m]
          /\ \A m \in 1..Len(loads') : m \notin 1..Len(loads) =>
                loads'[m].id = IdOf(r) /\ loads'[m].state = "running"
      BY <2>4 DEF Appended
    <3>2. n \in 1..Len(loads) /\ loads[n].state = "detached" /\ loads'[n] = loads[n]
      BY <3>1
    <3>3. /\ stage[r] \in LoadOn /\ loads[n].id = IdOf(r)
          /\ \A m \in 1..Len(loads) : m > n => loads[m].id = loads[n].id
      BY <1>2, <3>2 DEF DetachedFits
    <3>4. \A m \in 1..Len(loads') : m > n => loads'[m].id = loads'[n].id
      BY <3>1, <3>2, <3>3
    <3> QED
      BY <2>2, <3>2, <3>3, <3>4
  <2>5. ASSUME NEW outcome \in Outcomes, Ends(r, outcome)
        PROVE  Fits(n)
    <3>1. /\ n \in 1..Len(loads) /\ Len(loads') = Len(loads)
          /\ \A m \in 1..Len(loads) : loads'[m].id = loads[m].id
      BY <2>5, EndsEffect
    <3>2. CASE loads[n].state = "running"
      <4>1. /\ loads[n].run = r /\ stage[r] \in LoadOn /\ loads[n].id = IdOf(r)
            /\ \A m \in 1..Len(loads) : m > n => loads[m].id = loads[n].id
        BY <3>1, <3>2, OwnLoadRuns DEF NewestRuns, LoadOn
      <4> QED
        BY <2>2, <3>1, <4>1
    <3>3. CASE loads[n].state # "running"
      <4>1. loads[n].state = "detached"
        BY <2>5, <3>1, <3>3, EndsEffect
      <4> QED
        BY <1>2, <2>2, <3>1, <4>1 DEF DetachedFits
    <3> QED
      BY <3>2, <3>3
  <2> QED
    BY <2>3, <2>4, <2>5, StepLoads
<1> QED
  BY <1>1, <1>2, TheOnlyRun

LEMMA TogetherStep ==
    ASSUME Typed, Underway, OneRun, NewestRuns, DetachedFits, Together,
           NEW r \in Runs, StepOf(r), ~ overlapped'
    PROVE  Together'
<1> SUFFICES ASSUME NEW n \in 1..Len(loads'), NEW m \in 1..Len(loads'), NEW k \in 1..Len(loads'),
                    loads'[n].state \in {"committed", "detached"},
                    n < m, m < k, loads'[k].id = loads'[n].id, loads'[k].file = loads'[n].file
             PROVE  loads'[m].id = loads'[n].id
  BY DEF Together, Same
<1>1. CASE loads' = loads
  BY <1>1 DEF Together, Same
<1>2. CASE BeginLoad(r) /\ Appended(r)
  <2>1. /\ \A j \in 1..Len(loads) : loads'[j] = loads[j]
        /\ \A j \in 1..Len(loads') : j \notin 1..Len(loads) =>
              /\ j > Len(loads) /\ loads'[j].state = "running" /\ loads'[j].id = IdOf(r)
              /\ ~ LoadedFile(IdOf(r), loads'[j].file)
    BY <1>2 DEF Appended
  <2>2. n \in 1..Len(loads) /\ loads'[n] = loads[n]
    BY <2>1
  <2>3. CASE k \in 1..Len(loads)
    <3>1. m \in 1..Len(loads)
      BY <2>1, <2>3, LoadsAre
    <3> QED
      BY <2>1, <2>2, <2>3, <3>1 DEF Together, Same
  <2>4. CASE k \notin 1..Len(loads)
    <3>1. loads[n].id = IdOf(r) /\ ~ LoadedFile(loads[n].id, loads[n].file)
      BY <2>1, <2>2, <2>4
    <3>2. loads[n].state = "detached"
      BY <2>2, <3>1, CommittedAre DEF LoadedFile
    <3>3. \A j \in 1..Len(loads) : j > n => loads[j].id = loads[n].id
      BY <2>2, <3>2 DEF DetachedFits
    <3> QED
      BY <2>1, <2>2, <3>1, <3>3
  <2> QED
    BY <2>3, <2>4
<1>3. ASSUME NEW outcome \in Outcomes, Ends(r, outcome)
      PROVE  loads'[m].id = loads'[n].id
  <2>1. /\ n \in 1..Len(loads) /\ m \in 1..Len(loads) /\ k \in 1..Len(loads)
        /\ \A j \in 1..Len(loads) :
              loads'[j].id = loads[j].id /\ loads'[j].file = loads[j].file
    BY <1>3, EndsEffect
  <2>2. CASE loads[n].state = "running"
    BY <2>1, <2>2 DEF NewestRuns
  <2>3. CASE loads[n].state # "running"
    <3>1. loads[n].state \in {"committed", "detached"}
      BY <1>3, <2>1, <2>3, EndsEffect
    <3> QED
      BY <2>1, <3>1 DEF Together, Same
  <2> QED
    BY <2>2, <2>3
<1> QED
  BY <1>1, <1>2, <1>3, StepLoads

LEMMA NoReturnStep ==
    ASSUME Typed, Underway, InOrder, OneRun, NoReturn, NEW r \in Runs, StepOf(r), ~ overlapped'
    PROVE  NoReturn'
<1> SUFFICES ASSUME NEW n \in 1..Len(loads'), NEW m \in 1..Len(loads'), n < m,
                    loads'[m].id = loads'[n].id, loads'[m].file < loads'[n].file
             PROVE  loads'[n].state = "undone"
  BY DEF NoReturn
<1>1. CASE loads' = loads
  BY <1>1 DEF NoReturn
<1>2. CASE BeginLoad(r) /\ Appended(r)
  <2>1. /\ \A j \in 1..Len(loads) : loads'[j] = loads[j]
        /\ loads' \in Seq(LoadRecords)
    BY <1>2 DEF Appended
  <2>2. m \in 1..Len(loads) => n \in 1..Len(loads)
    BY LoadsAre
  <2>3. CASE m \in 1..Len(loads)
    BY <2>1, <2>2, <2>3 DEF NoReturn
  <2>4. CASE m \notin 1..Len(loads) /\ n \in 1..Len(loads)
    <3>1. loads[n].state # "running" /\ loads'[n] = loads[n]
      BY <1>2, <2>1, <2>4, NoneRuns
    <3>2. ~ LoadedFile(loads[n].id, loads'[m].file) /\ loads'[m].file \in Files
      <4>1. ~ LoadedFile(IdOf(r), loads'[m].file) /\ loads'[m].id = IdOf(r)
        BY <1>2, <2>4 DEF Appended
      <4>2. loads'[m] \in LoadRecords
        BY <2>1, ElementOfSeq
      <4> QED
        BY <3>1, <4>1, <4>2 DEF LoadRecords
    <3> QED
      BY <2>4, <3>1, <3>2 DEF InOrder
  <2>5. CASE m \notin 1..Len(loads) /\ n \notin 1..Len(loads)
    <3>1. loads'[m].file > loads'[n].file
      BY <1>2, <2>5 DEF Appended
    <3>2. \A j \in 1..Len(loads') : loads'[j] \in LoadRecords
      BY <2>1, ElementOfSeq
    <3>3. loads'[m].file \in Files /\ loads'[n].file \in Files
      BY <3>2 DEF LoadRecords
    <3> QED
      BY <3>1, <3>3 DEF Files
  <2> QED
    BY <2>3, <2>4, <2>5
<1>3. ASSUME NEW outcome \in Outcomes, Ends(r, outcome)
      PROVE  loads'[n].state = "undone"
  <2>1. /\ n \in 1..Len(loads) /\ m \in 1..Len(loads)
        /\ \A j \in 1..Len(loads) :
              loads'[j].id = loads[j].id /\ loads'[j].file = loads[j].file
    BY <1>3, EndsEffect
  <2>2. loads[n].state = "undone"
    BY <2>1 DEF NoReturn
  <2> QED
    BY <1>3, <2>1, <2>2, EndsEffect
<1> QED
  BY <1>1, <1>2, <1>3, StepLoads

LEMMA AloneStep ==
    Typed /\ Tables /\ Underway /\ InOrder /\ Alone /\ [Next]_vars => Alone'
<1> SUFFICES ASSUME Typed, Tables, Underway, InOrder, Alone, [Next]_vars, ~ overlapped'
             PROVE  (OneRun /\ OwnFile /\ NewestRuns /\ DetachedFits /\ Together /\ NoReturn)'
  BY DEF Alone
<1>1. OneRun /\ OwnFile /\ NewestRuns /\ DetachedFits /\ Together /\ NoReturn
  BY KeptStep DEF Kept, Alone
<1>2. ASSUME NEW r \in Runs, StepOf(r)
      PROVE  (OneRun /\ OwnFile /\ NewestRuns /\ DetachedFits /\ Together /\ NoReturn)'
  BY <1>1, <1>2, OneRunStep, OwnFileStep, NewestRunsStep, DetachedFitsStep, TogetherStep,
     NoReturnStep
<1>3. CASE LateCommit
  <2>1. UNCHANGED <<idVars, dagVars>>
    BY <1>3 DEF LateCommit
  <2>2. PICK c \in 1..Len(loads) :
          /\ loads[c].state = "detached" /\ Len(loads') = Len(loads)
          /\ \A m \in 1..Len(loads) :
              /\ loads'[m].id = loads[m].id /\ loads'[m].file = loads[m].file
              /\ loads'[m].run = loads[m].run
              /\ IF m = c THEN loads'[m].state = "committed"
                          ELSE loads'[m].state = loads[m].state
    BY <1>3, LateCommitEffect
  <2>3. OneRun' /\ OwnFile'
    BY <1>1, <2>1 DEF idVars, dagVars, OneRun, OwnFile, Own
  <2>4. NoReturn'
    <3> SUFFICES ASSUME NEW n \in 1..Len(loads'), NEW m \in 1..Len(loads'), n < m,
                        loads'[m].id = loads'[n].id, loads'[m].file < loads'[n].file
                 PROVE  loads'[n].state = "undone"
      BY DEF NoReturn
    <3>1. loads[n].state = "undone"
      BY <1>1, <2>2 DEF NoReturn
    <3> QED
      BY <2>2, <3>1
  <2>5. \A q \in Runs : IdOf(q)' = IdOf(q)
    BY <2>1 DEF idVars, dagVars, IdOf
  <2>6. NewestRuns'
    <3> SUFFICES ASSUME NEW n \in 1..Len(loads'), loads'[n].state = "running"
                 PROVE  /\ loads'[n].id = IdOf(loads[n].run)'
                        /\ \A m \in 1..Len(loads') : m > n =>
                              /\ loads'[m].state = "running" /\ loads'[m].run = loads'[n].run
                              /\ loads'[m].id = loads'[n].id /\ loads'[m].file > loads'[n].file
      BY DEF NewestRuns
    <3>1. n \in 1..Len(loads) /\ loads[n].state = "running" /\ loads'[n].run = loads[n].run
          /\ loads'[n].id = loads[n].id /\ loads'[n].file = loads[n].file
      BY <2>2
    <3>2. /\ loads[n].id = IdOf(loads[n].run)
          /\ \A m \in 1..Len(loads) : m > n =>
                /\ loads[m].state = "running" /\ loads[m].run = loads[n].run
                /\ loads[m].id = loads[n].id /\ loads[m].file > loads[n].file
      BY <1>1, <3>1 DEF NewestRuns
    <3>3. IdOf(loads[n].run)' = IdOf(loads[n].run)
      BY <2>1, <3>1 DEF idVars, dagVars, IdOf
    <3>4. ASSUME NEW m \in 1..Len(loads'), m > n
          PROVE  /\ loads'[m].state = "running" /\ loads'[m].run = loads'[n].run
                 /\ loads'[m].id = loads'[n].id /\ loads'[m].file > loads'[n].file
      BY <2>2, <3>1, <3>2, <3>4
    <3> QED
      BY <3>1, <3>2, <3>3, <3>4
  <2>7. DetachedFits'
    <3> SUFFICES ASSUME NEW n \in 1..Len(loads'), loads'[n].state = "detached"
                 PROVE  /\ \A q \in Runs : status'[q] = "active" =>
                               stage'[q] \in LoadOn /\ loads'[n].id = IdOf(q)'
                        /\ \A m \in 1..Len(loads') : m > n => loads'[m].id = loads'[n].id
      BY DEF DetachedFits
    <3>1. n \in 1..Len(loads) /\ loads[n].state = "detached" /\ loads'[n].id = loads[n].id
      BY <2>2
    <3> QED
      BY <1>1, <2>1, <2>2, <2>5, <3>1 DEF dagVars, DetachedFits
  <2>8. Together'
    <3> SUFFICES ASSUME NEW n \in 1..Len(loads'), NEW m \in 1..Len(loads'),
                        NEW k \in 1..Len(loads'), loads'[n].state \in {"committed", "detached"},
                        n < m, m < k, loads'[k].id = loads'[n].id,
                        loads'[k].file = loads'[n].file
                 PROVE  loads'[m].id = loads'[n].id
      BY DEF Together, Same
    <3>1. loads[n].state \in {"committed", "detached"}
      BY <2>2
    <3> QED
      BY <1>1, <2>2, <3>1 DEF Together, Same
  <2> QED
    BY <2>3, <2>4, <2>6, <2>7, <2>8
<1>4. CASE UNCHANGED vars
  BY <1>1, <1>4 DEF vars, idVars, dagVars, dataVars, OneRun, OwnFile, Own, NewestRuns,
                    DetachedFits, Together, NoReturn, Same, IdOf
<1> QED
  BY <1>2, <1>3, <1>4 DEF Next, StepOf

-----------------------------------------------------------------------------
(* Nothing is behind the newest row of a table that does not have it *)

Fresh(source, table) ==
    \A n \in source \ table : \A m \in table : n > m \/ \E k \in table : Same(k, n)

\* The table has every file that the source has, and with a file those before it.
Covers(source, table) == \A n \in source : \E k \in table : Same(k, n)
FilesBefore(table) ==
    \A n \in table : \A f \in Files : f < loads[n].file =>
        \E k \in table : loads[k].id = loads[n].id /\ loads[k].file = f

NoneBehind ==
    ~ overlapped => /\ Fresh(Committed, bronze) /\ Fresh(bronze, silver)
                    /\ FilesBefore(bronze) /\ FilesBefore(silver)

LEMMA CommittedInOrder == ASSUME Typed, InOrder PROVE FilesBefore(Committed)
<1> SUFFICES ASSUME NEW n \in Committed, NEW f \in Files, f < loads[n].file
             PROVE  \E k \in Committed : loads[k].id = loads[n].id /\ loads[k].file = f
  BY DEF FilesBefore
<1>1. n \in 1..Len(loads) /\ loads[n].state = "committed"
  BY CommittedAre
<1>2. LoadedFile(loads[n].id, f)
  BY <1>1 DEF InOrder
<1> QED
  BY <1>2 DEF LoadedFile

\* What has been built is fresh, and has the file of everything there is to take.
LEMMA RebuiltIsFresh ==
    ASSUME NEW N \in Nat, NEW source \in SUBSET (1..N), NEW table \in SUBSET source,
           Fresh(source, table), FilesBefore(source),
           NEW r, NEW new, new = Rebuilt(r, table, source)
    PROVE  Fresh(source, new) /\ Covers(source, new) /\ FilesBefore(new)
<1>1. table \subseteq new /\ new \subseteq source
  BY RebuiltGrows
<1>2. Fresh(source, new) /\ Covers(source, new)
  <2>1. CASE r \in FullRefresh \/ table = {}
    <3>1. new = source
      BY <2>1 DEF Rebuilt, Incremented
    <3> QED
      BY <3>1 DEF Fresh, Covers, Same
  <2>2. CASE ~ (r \in FullRefresh \/ table = {})
    <3>1. new = table \cup {n \in source : n > Max(table)}
      BY <2>2 DEF Rebuilt, Incremented
    <3>2. Max(table) \in table
      <4>1. table \in SUBSET (1..N) /\ table # {}
        BY <2>2
      <4> QED
        BY <4>1, MaxOf
    <3>3. ASSUME NEW n \in source \ new PROVE \E k \in new : Same(k, n)
      <4>1. n \notin table /\ ~ (n > Max(table))
        BY <3>1
      <4>2. PICK k \in table : Same(k, n)
        BY <3>2, <4>1 DEF Fresh
      <4> QED
        BY <1>1, <4>2
    <3>4. \A n \in source : \E k \in new : Same(k, n)
      BY <3>3 DEF Same
    <3> QED
      BY <3>3, <3>4 DEF Fresh, Covers
  <2> QED
    BY <2>1, <2>2
<1>3. ASSUME NEW n \in new, NEW f \in Files, f < loads[n].file
      PROVE  \E k \in new : loads[k].id = loads[n].id /\ loads[k].file = f
  <2>1. PICK j \in source : loads[j].id = loads[n].id /\ loads[j].file = f
    BY <1>1, <1>3 DEF FilesBefore
  <2>2. PICK k \in new : Same(k, j)
    BY <1>2 DEF Covers
  <2> QED
    BY <2>1, <2>2 DEF Same
<1> QED
  BY <1>2, <1>3 DEF FilesBefore

\* A table that is fresh over a fresh table is fresh over the source of that one.
LEMMA FreshOverFresh ==
    ASSUME Typed, Tables, Together, NoReturn, Fresh(Committed, bronze), Fresh(bronze, silver)
    PROVE  Fresh(Committed, silver)
<1> SUFFICES ASSUME NEW n \in Committed \ silver, NEW m \in silver, ~ (n > m)
             PROVE  \E k \in silver : Same(k, n)
  BY DEF Fresh
<1>1. /\ Committed \subseteq 1..Len(loads) /\ Len(loads) \in Nat
      /\ \A j \in Committed : loads[j].state = "committed" /\ loads[j].file \in Files
      /\ bronze \subseteq Committed /\ silver \subseteq bronze
  BY CommittedAre, LoadsAre DEF Tables, LoadRecords
<1>2. CASE n \in bronze
  BY <1>2 DEF Fresh
<1>3. CASE n \notin bronze
  <2>1. PICK k \in bronze : Same(k, n)
    BY <1>1, <1>3 DEF Fresh
  <2>2. CASE k > m
    <3>1. /\ n \in 1..Len(loads) /\ m \in 1..Len(loads) /\ k \in 1..Len(loads)
          /\ loads[n].state = "committed" /\ loads[m].state = "committed"
          /\ n < m /\ m < k
      BY <1>1, <2>2
    <3>2. loads[m].id = loads[n].id
      BY <2>1, <3>1 DEF Together
    <3>3. ~ (loads[m].file < loads[n].file)
      BY <3>1, <3>2 DEF NoReturn
    <3>4. ~ (loads[k].file < loads[m].file)
      BY <2>1, <3>1, <3>2 DEF NoReturn, Same
    <3>5. loads[k].file = loads[n].file /\ n \in Committed /\ m \in Committed
      BY <1>1, <2>1 DEF Same
    <3>6. loads[m].file = loads[n].file
      BY <1>1, <3>3, <3>4, <3>5 DEF Files
    <3> QED
      BY <3>2, <3>6 DEF Same
  <2>3. CASE k \in silver
    BY <2>1, <2>3
  <2>4. CASE ~ (k > m) /\ k \notin silver
    BY <2>1, <2>4 DEF Fresh, Same
  <2> QED
    BY <2>2, <2>3, <2>4
<1> QED
  BY <1>2, <1>3

\* A load that becomes visible had left something, and what is visible after it is of its id.
LEMMA NewlyCommitted ==
    ASSUME Typed, NewestRuns, DetachedFits, [Next]_vars, NEW n \in Committed' \ Committed
    PROVE  /\ n \in 1..Len(loads) /\ loads[n].state # "undone"
           /\ \A m \in Committed : m > n => loads[m].id = loads[n].id
<1>1. n \in 1..Len(loads') /\ loads'[n].state = "committed"
  <2>1. loads' \in Seq(LoadRecords)
    BY LoadsKeptStep DEF LoadsKept
  <2> QED
    BY <2>1, LenProperties DEF Committed
<1>2. n \in 1..Len(loads) => loads[n].state # "committed"
  BY CommittedAre
<1>3. ASSUME n \in 1..Len(loads), loads[n].state = "detached" \/ loads[n].state = "running"
      PROVE  /\ n \in 1..Len(loads) /\ loads[n].state # "undone"
             /\ \A m \in Committed : m > n => loads[m].id = loads[n].id
  BY <1>3, CommittedAre DEF DetachedFits, NewestRuns
<1>4. n \in 1..Len(loads) /\ (loads[n].state = "detached" \/ loads[n].state = "running")
  <2>1. CASE loads' = loads
    BY <1>1, <1>2, <2>1
  <2>2. CASE LateCommit
    BY <1>1, <1>2, <2>2, LateCommitEffect
  <2>3. ASSUME NEW r \in Runs, StepOf(r)
        PROVE  n \in 1..Len(loads) /\ (loads[n].state = "detached" \/ loads[n].state = "running")
    <3>1. CASE Appended(r)
      BY <1>1, <1>2, <3>1 DEF Appended
    <3>2. ASSUME NEW outcome \in Outcomes, Ends(r, outcome)
          PROVE  n \in 1..Len(loads) /\ loads[n].state = "running"
      BY <1>1, <1>2, <3>2, EndsEffect
    <3> QED
      BY <2>1, <2>3, <3>1, <3>2, StepLoads
  <2> QED
    BY <2>1, <2>2, <2>3 DEF Next, StepOf, vars, dataVars
<1> QED
  BY <1>3, <1>4

LEMMA NoneBehindStep ==
    Typed /\ Tables /\ InOrder /\ Alone /\ NoneBehind /\ [Next]_vars => NoneBehind'
<1> SUFFICES ASSUME Typed, Tables, InOrder, Alone, NoneBehind, [Next]_vars, ~ overlapped'
             PROVE  /\ Fresh(Committed, bronze)' /\ Fresh(bronze, silver)'
                    /\ FilesBefore(bronze)' /\ FilesBefore(silver)'
  BY DEF NoneBehind
<1> DEFINE Goal == /\ Fresh(Committed, bronze)' /\ Fresh(bronze, silver)'
                   /\ FilesBefore(bronze)' /\ FilesBefore(silver)'
<1>1. Kept /\ LoadsKept /\ ~ overlapped
  BY KeptStep DEF Kept
<1>2. NewestRuns /\ DetachedFits /\ Together /\ NoReturn
  BY <1>1 DEF Alone
<1>3. /\ Fresh(Committed, bronze) /\ Fresh(bronze, silver)
      /\ FilesBefore(bronze) /\ FilesBefore(silver)
  BY <1>1 DEF NoneBehind
<1>4. /\ Committed \subseteq 1..Len(loads) /\ Len(loads) \in Nat
      /\ bronze \subseteq Committed /\ silver \subseteq bronze
      /\ \A n \in 1..Len(loads) : /\ loads'[n].id = loads[n].id
                                  /\ loads'[n].file = loads[n].file
                                  /\ loads[n].file \in Files
  BY <1>1, CommittedAre, LoadsAre DEF Tables, LoadsKept, LoadRecords
<1>5. CASE UNCHANGED <<bronze, silver>>
  <2>1. Fresh(bronze, silver)'
    BY <1>3, <1>4, <1>5 DEF Fresh, Same
  <2>2. FilesBefore(bronze)' /\ FilesBefore(silver)'
    BY <1>3, <1>4, <1>5 DEF FilesBefore
  <2>3. ASSUME NEW n \in Committed' \ bronze, NEW m \in bronze
        PROVE  \/ n > m
               \/ \E k \in bronze : loads'[k].id = loads'[n].id /\ loads'[k].file = loads'[n].file
    <3>1. CASE n \in Committed
      BY <1>3, <1>4, <2>3, <3>1 DEF Fresh, Same
    <3>2. CASE n \notin Committed
      <4>1. /\ n \in 1..Len(loads) /\ loads[n].state # "undone"
            /\ \A j \in Committed : j > n => loads[j].id = loads[n].id
        BY <1>2, <2>3, <3>2, NewlyCommitted
      <4>2. m \in 1..Len(loads) /\ m \in Committed /\ m # n
        BY <1>4, <2>3, <3>2
      <4>3. CASE m > n
        <5>1. loads[m].id = loads[n].id /\ ~ (loads[m].file < loads[n].file)
          BY <1>2, <4>1, <4>2, <4>3 DEF NoReturn
        <5>2. CASE loads[m].file = loads[n].file
          BY <1>4, <4>1, <4>2, <5>1, <5>2
        <5>3. CASE loads[n].file < loads[m].file
          <6>1. PICK k \in bronze : loads[k].id = loads[m].id /\ loads[k].file = loads[n].file
            BY <1>3, <1>4, <4>1, <5>3 DEF FilesBefore
          <6>2. k \in 1..Len(loads)
            BY <1>4
          <6> QED
            BY <1>4, <4>1, <5>1, <6>1, <6>2
        <5>4. loads[m].file \in Files /\ loads[n].file \in Files
          BY <1>4, <4>1, <4>2
        <5> QED
          BY <5>1, <5>2, <5>3, <5>4 DEF Files
      <4> QED
        BY <1>4, <4>1, <4>2, <4>3
    <3> QED
      BY <3>1, <3>2
  <2>4. Fresh(Committed, bronze)'
    BY <1>5, <2>3 DEF Fresh, Same
  <2> QED
    BY <2>1, <2>2, <2>4
<1>6. ASSUME NEW r \in Runs, BuildBronze(r) PROVE Goal
  <2>1. loads' = loads /\ silver' = silver /\ bronze' = Rebuilt(r, bronze, Committed)
    BY <1>6 DEF BuildBronze
  <2>2. Fresh(Committed, bronze') /\ FilesBefore(bronze')
    BY <1>3, <1>4, <2>1, CommittedInOrder, RebuiltIsFresh
  <2>3. Fresh(Committed, silver)
    BY <1>2, <1>3, FreshOverFresh
  <2>4. bronze' \subseteq Committed /\ Committed' = Committed
    BY <1>4, <2>1, RebuiltGrows DEF Committed
  <2> QED
    BY <1>3, <2>1, <2>2, <2>3, <2>4 DEF Fresh, FilesBefore, Same
<1>7. ASSUME NEW r \in Runs, BuildsSilver(r) PROVE Goal
  <2>1. loads' = loads /\ bronze' = bronze /\ silver' = Rebuilt(r, silver, bronze)
    BY <1>7 DEF BuildsSilver
  <2>2. Fresh(bronze, silver') /\ FilesBefore(silver')
    <3>1. bronze \in SUBSET (1..Len(loads))
      BY <1>4
    <3> QED
      BY <1>3, <1>4, <2>1, <3>1, RebuiltIsFresh
  <2>3. Committed' = Committed
    BY <2>1 DEF Committed
  <2> QED
    BY <1>3, <2>1, <2>2, <2>3 DEF Fresh, FilesBefore, Same
<1>8. UNCHANGED <<bronze, silver>> \/ \E r \in Runs : BuildBronze(r) \/ BuildsSilver(r)
  BY TableSteps
<1> QED
  BY <1>5, <1>6, <1>7, <1>8

-----------------------------------------------------------------------------
(* What dbt has done for the id of a DAG run *)

In(table, i) == \A f \in Files : \E n \in table : loads[n].id = i /\ loads[n].file = f

Built ==
    ~ overlapped => \A r \in Runs : Own(r) =>
        /\ stage[r] = "dbt" /\ midway[r] => In(bronze, IdOf(r))
        /\ stage[r] \in {"docs", "clear"} => In(silver, IdOf(r))

LEMMA InKept ==
    ASSUME Typed, Tables, Kept, NEW i
    PROVE  (In(bronze, i) => In(bronze, i)') /\ (In(silver, i) => In(silver, i)')
<1>1. bronze \subseteq 1..Len(loads) /\ silver \subseteq 1..Len(loads)
  BY CommittedAre DEF Tables
<1>2. /\ bronze \subseteq bronze' /\ silver \subseteq silver'
      /\ \A n \in 1..Len(loads) : loads'[n].id = loads[n].id /\ loads'[n].file = loads[n].file
  BY DEF Kept, LoadsKept
<1> QED
  BY <1>1, <1>2 DEF In

LEMMA BronzeHasIt ==
    ASSUME Typed, Tables, InOrder, Fresh(Committed, bronze), NEW r \in Runs, BuildBronze(r),
           NEW i, IsLoaded(i)
    PROVE  In(bronze, i)'
<1>1. loads' = loads /\ bronze' = Rebuilt(r, bronze, Committed)
  BY DEF BuildBronze
<1>2. Covers(Committed, bronze')
  <2>1. /\ Committed \in SUBSET (1..Len(loads)) /\ bronze \in SUBSET Committed
        /\ Len(loads) \in Nat /\ FilesBefore(Committed)
    BY CommittedAre, CommittedInOrder DEF Tables
  <2> QED
    BY <1>1, <2>1, RebuiltIsFresh
<1>3. ASSUME NEW f \in Files PROVE \E k \in bronze' : loads[k].id = i /\ loads[k].file = f
  <2>1. PICK n \in Committed : loads[n].id = i /\ loads[n].file = f
    BY DEF IsLoaded, LoadedFile
  <2> QED
    BY <1>2, <2>1 DEF Covers, Same
<1> QED
  BY <1>1, <1>3 DEF In

LEMMA SilverHasIt ==
    ASSUME Typed, Tables, Fresh(bronze, silver), FilesBefore(bronze),
           NEW r \in Runs, BuildSilver(r), NEW i, In(bronze, i)
    PROVE  In(silver, i)'
<1>1. loads' = loads /\ silver' = Rebuilt(r, silver, bronze)
  BY DEF BuildSilver
<1>2. Covers(bronze, silver')
  <2>1. bronze \in SUBSET (1..Len(loads)) /\ Len(loads) \in Nat /\ silver \in SUBSET bronze
    BY CommittedAre DEF Tables
  <2> QED
    BY <1>1, <2>1, RebuiltIsFresh
<1>3. ASSUME NEW f \in Files PROVE \E k \in silver' : loads[k].id = i /\ loads[k].file = f
  <2>1. PICK n \in bronze : loads[n].id = i /\ loads[n].file = f
    BY DEF In
  <2> QED
    BY <1>2, <2>1 DEF Covers, Same
<1> QED
  BY <1>1, <1>3 DEF In

LEMMA OwnBuilt ==
    ASSUME Typed, Tables, Kept, InOrder, Progress, NoneBehind, Built, ~ overlapped,
           NEW r \in Runs, StepOf(r), Own(r)'
    PROVE  /\ stage'[r] = "dbt" /\ midway'[r] => In(bronze, IdOf(r))'
           /\ stage'[r] \in {"docs", "clear"} => In(silver, IdOf(r))'
<1> DEFINE Goal == /\ stage'[r] = "dbt" /\ midway'[r] => In(bronze, IdOf(r))'
                   /\ stage'[r] \in {"docs", "clear"} => In(silver, IdOf(r))'
<1>1. CASE Trigger(r)
  <2>1. stage'[r] = FirstOf(r)
    BY <1>1, TriggerEffect DEF Row
  <2> QED
    BY <2>1 DEF FirstOf
<1>2. CASE GetRunId(r)
  BY <1>2, GetRunIdEffect DEF Row
<1>3. CASE WriteRunId(r)
  BY <1>3, WriteRunIdEffect DEF Row
<1>4. CASE ~ (Trigger(r) \/ GetRunId(r) \/ WriteRunId(r))
  <2>1. Own(r) /\ IdOf(r)' = IdOf(r)
    BY <1>4, OwnKept
  <2>2. PICK i : i = IdOf(r) /\ i = IdOf(r)'
    BY <2>1
  <2>3. /\ stage[r] = "dbt" /\ midway[r] => In(bronze, i)
        /\ stage[r] \in {"docs", "clear"} => In(silver, i)
        /\ stage[r] = "dbt" => IsLoaded(i)
    BY <2>1, <2>2 DEF Built, Progress, Reached
  <2>4. SUFFICES /\ stage'[r] = "dbt" /\ midway'[r] => In(bronze, i)'
                 /\ stage'[r] \in {"docs", "clear"} => In(silver, i)'
    BY <2>2 DEF In
  <2>5. CASE BuildBronze(r)
    <3>1. stage[r] = "dbt" /\ stage'[r] = "dbt"
      BY <2>5, BuildBronzeEffect DEF Row
    <3> QED
      BY <2>3, <2>5, <3>1, BronzeHasIt DEF NoneBehind
  <2>6. CASE BuildSilver(r)
    <3>1. stage[r] = "dbt" /\ midway[r] /\ stage'[r] = "docs"
      BY <2>6, BuildSilverEffect DEF Row
    <3> QED
      BY <2>3, <2>6, <3>1, SilverHasIt DEF NoneBehind
  <2>7. CASE ~ (BuildBronze(r) \/ BuildSilver(r))
    <3>1. /\ ~ (stage'[r] = "dbt" /\ midway'[r])
          /\ stage'[r] \in {"docs", "clear"} => stage[r] \in {"docs", "clear"}
      <4>1. CASE Rerun(r) \/ TaskFails(r)
        BY <4>1, RerunEffect, TaskFailsEffect DEF Row, Fails
      <4>2. CASE Extract(r) \/ Compact(r) \/ GenerateDocs(r) \/ ClearRunId(r)
        BY <4>2, ExtractEffect, CompactEffect, GenerateDocsEffect, ClearRunIdEffect
           DEF Row, Fails
      <4>3. CASE BeginLoad(r) \/ CommitLoad(r)
        BY <4>3, BeginLoadEffect, CommitLoadEffect DEF Row, Fails
      <4> QED
        BY <1>4, <2>7, <4>1, <4>2, <4>3 DEF StepOf, TaskStep
    <3> QED
      BY <2>3, <3>1, InKept
  <2> QED
    BY <2>5, <2>6, <2>7
<1> QED
  BY <1>1, <1>2, <1>3, <1>4

LEMMA BuiltStep ==
    Typed /\ Tables /\ InOrder /\ Progress /\ NoneBehind /\ Built /\ [Next]_vars => Built'
<1> SUFFICES ASSUME Typed, Tables, InOrder, Progress, NoneBehind, Built, [Next]_vars,
                    ~ overlapped', NEW q \in Runs, Own(q)'
             PROVE  /\ stage'[q] = "dbt" /\ midway'[q] => In(bronze, IdOf(q))'
                    /\ stage'[q] \in {"docs", "clear"} => In(silver, IdOf(q))'
  BY DEF Built
<1> DEFINE Goal == /\ stage'[q] = "dbt" /\ midway'[q] => In(bronze, IdOf(q))'
                   /\ stage'[q] \in {"docs", "clear"} => In(silver, IdOf(q))'
<1>1. Kept /\ ~ overlapped
  BY KeptStep DEF Kept
<1>2. ASSUME Own(q), IdOf(q)' = IdOf(q), stage'[q] = stage[q], midway'[q] <=> midway[q]
      PROVE  Goal
  <2>1. PICK i : i = IdOf(q) /\ i = IdOf(q)'
    BY <1>2
  <2>2. /\ stage[q] = "dbt" /\ midway[q] => In(bronze, i)
        /\ stage[q] \in {"docs", "clear"} => In(silver, i)
    BY <1>1, <1>2, <2>1 DEF Built
  <2>3. /\ stage'[q] = "dbt" /\ midway'[q] => In(bronze, i)'
        /\ stage'[q] \in {"docs", "clear"} => In(silver, i)'
    BY <1>1, <1>2, <2>2, InKept
  <2> QED
    BY <2>1, <2>3 DEF In
<1>3. CASE LateCommit \/ UNCHANGED vars
  <2>1. UNCHANGED <<idVars, dagVars>>
    BY <1>3 DEF LateCommit, vars
  <2> QED
    BY <1>2, <2>1 DEF idVars, dagVars, Own, IdOf
<1>4. ASSUME NEW r \in Runs, StepOf(r) PROVE Goal
  <2>1. CASE q = r
    BY <1>1, <1>4, <2>1, OwnBuilt
  <2>2. CASE q # r
    <3>1. Own(q) /\ IdOf(q)' = IdOf(q)
      BY <1>4, <2>2, OtherOwn
    <3>2. stage'[q] = stage[q] /\ (midway'[q] <=> midway[q])
      BY <1>4, <2>2, StepOthers DEF Others
    <3> QED
      BY <1>2, <3>1, <3>2
  <2> QED
    BY <2>1, <2>2
<1> QED
  BY <1>3, <1>4 DEF Next, StepOf

-----------------------------------------------------------------------------
(* An id of the incremental DAG is finished when it is no longer active *)

Finished(i) ==
    /\ extracted[i] = "whole" /\ staged[i] = "whole" /\ IsLoaded(i)
    /\ overlapped \/ In(silver, i)

AllFinished == \A i \in 1..ids : creator[i] \in Incremental /\ active # i => Finished(i)

LEMMA FinishedKept ==
    ASSUME Typed, Tables, Kept, NEW i \in 1..ids, Finished(i)
    PROVE  Finished(i)'
<1>1. i \in Ids
  BY BoundsAssumption DEF Typed, IdsTyped, Ids
<1>2. extracted'[i] = "whole" /\ staged'[i] = "whole"
  BY <1>1 DEF Finished, Kept
<1>3. IsLoaded(i)'
  BY IsLoadedKept DEF Finished
<1>4. overlapped' \/ In(silver, i)'
  BY InKept DEF Finished, Kept
<1> QED
  BY <1>2, <1>3, <1>4 DEF Finished

LEMMA AtClear ==
    ASSUME Typed, Progress, Built, NEW r \in Incremental, stage[r] = "clear"
    PROVE  Finished(id[r])
<1>1. Own(r) /\ IdOf(r) = id[r] /\ r \in Runs
  BY DEF Own, IdOf, Runs
<1>2. Reached(r, "clear", midway[r], id[r]) /\ (overlapped \/ In(silver, id[r]))
  BY <1>1 DEF Progress, Built
<1> QED
  BY <1>2 DEF Reached, Finished

LEMMA AllFinishedStep ==
    Typed /\ Tables /\ Progress /\ Built /\ AllFinished /\ [Next]_vars => AllFinished'
<1> SUFFICES ASSUME Typed, Tables, Progress, Built, AllFinished, [Next]_vars,
                    NEW i \in 1..ids', creator'[i] \in Incremental, active' # i
             PROVE  Finished(i)'
  BY DEF AllFinished
<1>1. Kept
  BY KeptStep
<1>2. ASSUME i \in 1..ids, active # i PROVE Finished(i)'
  <2>1. Finished(i)
    BY <1>1, <1>2 DEF Kept, AllFinished
  <2> QED
    BY <1>1, <1>2, <2>1, FinishedKept
<1>3. CASE UNCHANGED <<active, ids>>
  BY <1>2, <1>3
\* An id that is generated is the active one, or that of a full refresh.
<1>4. ASSUME NEW r \in Runs, Generate(r), active = 0, active' = ids' PROVE Finished(i)'
  <2>1. i \in 1..ids \/ i = ids'
    BY <1>4, GenerateEffect
  <2> QED
    BY <1>2, <1>4, <2>1
<1>5. ASSUME NEW r \in Runs, WriteRunId(r) PROVE Finished(i)'
  <2>1. active' = active /\ creator'[ids'] \notin Incremental /\ (i \in 1..ids \/ i = ids')
    BY <1>5, WriteRunIdEffect, GenerateEffect, SlotsAssumption
  <2> QED
    BY <1>2, <2>1
\* The active id is dropped at the end of its run.
<1>6. ASSUME NEW r \in Incremental, stage[r] = "clear", active = id[r], ids' = ids
      PROVE  Finished(i)'
  <2>1. CASE active = i
    BY <1>1, <1>6, <2>1, AtClear, FinishedKept
  <2> QED
    BY <1>2, <1>6, <2>1
<1>7. ASSUME NEW r \in Runs, GetRunId(r) \/ ClearRunId(r) \/ TaskFails(r) PROVE Finished(i)'
  <2>1. \/ UNCHANGED <<active, ids>>
        \/ Generate(r) /\ active = 0 /\ active' = ids'
        \/ r \in Incremental /\ stage[r] = "clear" /\ active = id[r] /\ ids' = ids
    BY <1>7, GetRunIdEffect, ClearRunIdEffect, TaskFailsEffect
  <2> QED
    BY <1>3, <1>4, <1>6, <2>1
<1>8. \/ UNCHANGED <<active, ids>>
      \/ \E r \in Runs : WriteRunId(r) \/ GetRunId(r) \/ ClearRunId(r) \/ TaskFails(r)
  BY DEF Next, TaskStep, vars, idVars, Trigger, Rerun, Extract, Compact, BeginLoad, CommitLoad,
         BuildBronze, BuildSilver, GenerateDocs, LateCommit
<1> QED
  BY <1>3, <1>5, <1>7, <1>8

-----------------------------------------------------------------------------
(* A full refresh that has succeeded has its own, latest id in silver *)

LatestOf(r, i) == i \in 1..ids /\ creator[i] = r /\ \A j \in 1..ids : creator[j] = r => j <= i

Owned ==
    ~ overlapped => \A r \in FullRefresh : status[r] = "success" =>
        \E i \in Ids : LatestOf(r, i) /\ In(silver, i)

LEMMA LatestKept ==
    ASSUME Typed, [Next]_vars, NEW q \in Runs, NEW i, LatestOf(q, i), ~ (WriteRunId(q)),
           q \notin Incremental
    PROVE  LatestOf(q, i)'
<1>1. CASE UNCHANGED <<ids, creator>>
  BY <1>1 DEF LatestOf
<1>2. ASSUME NEW r \in Runs, r # q, Generate(r) PROVE LatestOf(q, i)'
  BY <1>2, GenerateEffect DEF LatestOf
<1>3. ASSUME NEW r \in Runs, GetRunId(r) \/ TaskFails(r) PROVE LatestOf(q, i)'
  <2>1. UNCHANGED <<ids, creator>> \/ (r \in Incremental /\ Generate(r))
    BY <1>3, GetRunIdEffect, TaskFailsEffect
  <2> QED
    BY <1>1, <1>2, <2>1
<1>4. ASSUME NEW r \in Runs, WriteRunId(r) PROVE LatestOf(q, i)'
  BY <1>2, <1>4, WriteRunIdEffect
<1>5. UNCHANGED <<ids, creator>> \/ \E r \in Runs : WriteRunId(r) \/ GetRunId(r) \/ TaskFails(r)
  BY DEF Next, TaskStep, vars, idVars, Trigger, Rerun, Extract, Compact, BeginLoad, CommitLoad,
         BuildBronze, BuildSilver, GenerateDocs, ClearRunId, LateCommit
<1> QED
  BY <1>1, <1>3, <1>4, <1>5

LEMMA OwnedStep ==
    Typed /\ Tables /\ Newest /\ Alone /\ Built /\ Owned /\ [Next]_vars => Owned'
<1> SUFFICES ASSUME Typed, Tables, Newest, Alone, Built, Owned, [Next]_vars, ~ overlapped',
                    NEW q \in FullRefresh, status'[q] = "success"
             PROVE  \E i \in Ids : LatestOf(q, i)' /\ In(silver, i)'
  BY DEF Owned
<1>1. Kept /\ ~ overlapped /\ q \in Runs /\ q \notin Incremental
  BY KeptStep, SlotsAssumption DEF Kept, Runs
<1>2. ASSUME NEW i \in Ids, LatestOf(q, i), In(silver, i), ~ WriteRunId(q)
      PROVE  \E k \in Ids : LatestOf(q, k)' /\ In(silver, k)'
  BY <1>1, <1>2, LatestKept, InKept
<1>3. CASE GenerateDocs(q)
  <2>1. status[q] = "active" /\ stage[q] = "docs" /\ ~ WriteRunId(q)
    BY <1>1, <1>3, GenerateDocsEffect, WriteRunIdEffect
  <2>2. Own(q)
    BY <1>1, <2>1 DEF Alone, OwnFile
  <2>3. tmpfile \in 1..ids /\ tmpfile \in Ids /\ creator[tmpfile] = q /\ IdOf(q) = tmpfile
    BY <1>1, <2>2, BoundsAssumption DEF Own, IdOf, Typed, IdsTyped, Ids
  <2>4. LatestOf(q, tmpfile)
    BY <2>3 DEF Newest, LatestOf
  <2>5. In(silver, tmpfile)
    BY <1>1, <2>1, <2>2, <2>3 DEF Built
  <2> QED
    BY <1>2, <2>1, <2>3, <2>4, <2>5
<1>4. CASE ~ GenerateDocs(q)
  <2>1. status[q] = "success" /\ ~ WriteRunId(q)
    <3>1. CASE LateCommit \/ UNCHANGED vars
      <4>1. status' = status /\ ids' = ids
        BY <3>1 DEF LateCommit, vars, dagVars, idVars
      <4>2. WriteRunId(q) => ids' = ids + 1
        BY <1>1, WriteRunIdEffect, GenerateEffect
      <4>3. ids \in Nat
        BY DEF Typed, IdsTyped
      <4> QED
        BY <4>1, <4>2, <4>3
    <3>2. ASSUME NEW r \in Runs, StepOf(r) PROVE status[q] = "success" /\ ~ WriteRunId(q)
      <4>1. CASE r = q
        <5>1. status'[q] # "success"
          <6>1. CASE Trigger(q) \/ Rerun(q) \/ TaskFails(q)
            BY <1>1, <6>1, TriggerEffect, RerunEffect, TaskFailsEffect DEF Row, Fails
          <6>2. CASE TaskStep(q)
            <7>1. ~ GetRunId(q) /\ ~ ClearRunId(q)
              BY <1>1, GetRunIdEffect, ClearRunIdEffect
            <7>2. WriteRunId(q) \/ Extract(q) \/ Compact(q) \/ BeginLoad(q) \/ CommitLoad(q)
                  \/ BuildBronze(q) \/ BuildSilver(q)
              BY <1>4, <6>2, <7>1 DEF TaskStep
            <7> QED
              BY <1>1, <7>2, WriteRunIdEffect, ExtractEffect, CompactEffect, BeginLoadEffect,
                 CommitLoadEffect, BuildBronzeEffect, BuildSilverEffect DEF Row, Fails
          <6> QED
            BY <3>2, <4>1, <6>1, <6>2 DEF StepOf
        <5> QED
          BY <5>1
      <4>2. CASE r # q
        <5>1. status'[q] = status[q]
          BY <1>1, <3>2, <4>2, StepOthers DEF Others
        <5>2. ~ WriteRunId(q)
          BY <1>1, <5>1, WriteRunIdEffect
        <5> QED
          BY <5>1, <5>2
      <4> QED
        BY <4>1, <4>2
    <3> QED
      BY <3>1, <3>2 DEF Next, StepOf
  <2>2. PICK i \in Ids : LatestOf(q, i) /\ In(silver, i)
    BY <1>1, <2>1 DEF Owned
  <2> QED
    BY <1>2, <2>1, <2>2
<1> QED
  BY <1>3, <1>4

-----------------------------------------------------------------------------
(* The inductive invariant *)

PipelinesInv ==
    /\ Typed /\ Tables /\ Underway /\ Newest
    /\ Progress /\ InOrder /\ Alone /\ NoneBehind /\ Built
    /\ AllFinished /\ Owned

LEMMA InvInit == Init => PipelinesInv
<1> SUFFICES ASSUME Init PROVE PipelinesInv
  OBVIOUS
<1>1. Typed
  BY TypedInit
<1>2. /\ ids = 0 /\ tmpfile = 0 /\ loads = <<>> /\ bronze = {} /\ silver = {}
      /\ status = [r \in Runs |-> "idle"] /\ midway = [r \in Runs |-> FALSE]
      /\ staged = [i \in Ids |-> "none"]
      /\ stage = [r \in Runs |-> FirstOf(r)]
  BY FirstTask DEF Init
<1>3. Len(loads) = 0 /\ Committed = {}
  <2>1. Len(loads) = 0
    BY <1>2
  <2> QED
    BY <1>1, <2>1, CommittedAre
<1>4. Tables /\ Underway /\ Newest
  BY <1>2, <1>3 DEF Tables, Underway, Newest
<1>5. \A r \in Runs : status[r] = "idle" /\ ~ midway[r] /\ stage[r] \in {"run_id", "extract"}
  BY <1>2 DEF FirstOf
<1>6. Progress /\ Built
  BY <1>5 DEF Progress, Reached, Built
<1>7. InOrder /\ Alone
  BY <1>3, <1>5 DEF InOrder, Alone, OneRun, OwnFile, NewestRuns, DetachedFits, Together, NoReturn,
                    Runs
<1>8. NoneBehind
  BY <1>2, <1>3 DEF NoneBehind, Fresh, FilesBefore
<1>9. AllFinished /\ Owned
  BY <1>2, <1>5 DEF AllFinished, Owned, Runs
<1> QED
  BY <1>1, <1>4, <1>6, <1>7, <1>8, <1>9 DEF PipelinesInv

LEMMA InvStep == PipelinesInv /\ [Next]_vars => PipelinesInv'
<1> SUFFICES ASSUME PipelinesInv, [Next]_vars PROVE PipelinesInv'
  OBVIOUS
<1>1. /\ Typed /\ Tables /\ Underway /\ Newest /\ Progress /\ InOrder /\ Alone /\ NoneBehind
      /\ Built /\ AllFinished /\ Owned
  BY DEF PipelinesInv
<1>2. Typed' /\ Tables' /\ Kept
  BY <1>1, TypedStep, KeptStep
<1>3. Underway' /\ Newest'
  BY <1>1, UnderwayStep, NewestStep
<1>4. Progress' /\ InOrder' /\ Alone'
  BY <1>1, <1>2, ProgressStep, InOrderStep, AloneStep
<1>5. NoneBehind' /\ Built'
  BY <1>1, NoneBehindStep, BuiltStep
<1>6. AllFinished' /\ Owned'
  BY <1>1, AllFinishedStep, OwnedStep
<1> QED
  BY <1>2, <1>3, <1>4, <1>5, <1>6 DEF PipelinesInv

LEMMA InvAlways == Spec => []PipelinesInv
BY InvInit, InvStep, PTL DEF Spec

-----------------------------------------------------------------------------
(* Every state of the two DAGs is of the types that the rest speaks of: the  *)
(* ids in the Variable, the file and the XComs have been generated, a task   *)
(* is one of its DAG's, and bronze and silver have committed rows only       *)
(* (udyam_incremental_pipeline.py, udyam_full_refresh_pipeline.py).          *)
THEOREM PipelinesTypeCorrect == Spec => []TypeOK
<1>1. PipelinesInv => TypeOK
  <2> SUFFICES ASSUME Typed, Tables PROVE TypeOK
    BY DEF PipelinesInv
  <2>1. /\ active \in 0..ids /\ tmpfile \in 0..ids /\ ids \in 0..MaxIds
        /\ creator \in [Ids -> Runs \cup {0}]
    BY DEF Typed, IdsTyped
  <2>2. /\ status \in [Runs -> {"idle", "active", "success", "failed"}]
        /\ midway \in [Runs -> BOOLEAN] /\ retried \in [Runs -> BOOLEAN]
    BY DEF Typed, RunsTyped, Statuses
  <2>3. \A r \in Runs : \E k \in DOMAIN Tasks(r) : stage[r] = Tasks(r)[k]
    <3> SUFFICES ASSUME NEW r \in Runs PROVE \E k \in DOMAIN Tasks(r) : Tasks(r)[k] = stage[r]
      OBVIOUS
    <3>1. stage[r] \in StagesOf(r)
      BY DEF Typed, RunsTyped
    <3> QED
      BY <3>1, TaskOrder
  <2>4. id \in [Runs -> 0..ids]
    BY <2>1 DEF Typed, RunsTyped
  <2>5. /\ extracted \in [Ids -> Levels] /\ staged \in [Ids -> Levels]
        /\ stuck \subseteq Ids \X {"extract", "compact"}
        /\ overlapped \in BOOLEAN /\ faults \in 0..MaxFaults
    BY DEF Typed, DataTyped
  <2>6. \A n \in DOMAIN loads : loads[n] \in LoadRecords
    BY LoadsAre
  <2>7. bronze \subseteq Committed /\ silver \subseteq bronze
    BY DEF Tables
  <2> QED
    BY <2>1, <2>2, <2>3, <2>4, <2>5, <2>6, <2>7 DEF TypeOK, LoadRecords
<1> QED
  BY <1>1, InvAlways, PTL

(* An id of the incremental DAG that is no longer active has gone through    *)
(* every stage, whatever failed, was retried, cleared or overlapped in       *)
(* between (get_or_create_run_id, clear_run_id_after_success).               *)
THEOREM NeverAbandonedAlways == Spec => []NeverAbandoned
<1>1. PipelinesInv => NeverAbandoned
  <2> SUFFICES ASSUME AllFinished, NEW i \in 1..ids, creator[i] \in Incremental, active # i
               PROVE  /\ extracted[i] = "whole" /\ staged[i] = "whole" /\ Loaded(i, "whole")
                      /\ overlapped \/ InSilver(i)
    BY DEF PipelinesInv, NeverAbandoned
  <2>1. Finished(i)
    BY DEF AllFinished
  <2> QED
    BY <2>1, LoadedWhole DEF Finished, In, InSilver
<1> QED
  BY <1>1, InvAlways, PTL

(* No committed load is left behind the newest row of bronze or silver       *)
(* while no two runs have met: what _INGESTED_AT skips is there as another   *)
(* load of the same file (bronze_msme.sql, silver_msme.sql, is_incremental).   *)
THEOREM NothingStrandedAlways == Spec => []NothingStranded
<1>1. PipelinesInv => NothingStranded
  BY DEF PipelinesInv, NoneBehind, NothingStranded, Fresh, Same
<1> QED
  BY <1>1, InvAlways, PTL

(* A full refresh that succeeds and meets no other run has its own           *)
(* extraction in silver, although the id goes through /tmp/udyam_run_id.txt  *)
(* (udyam_full_refresh_pipeline.py).                                         *)
THEOREM OwnRefreshAlways == Spec => []FullRefreshIsOwn
<1>1. PipelinesInv => FullRefreshIsOwn
  <2> SUFFICES ASSUME Typed, Owned, NEW r \in FullRefresh, status[r] = "success", ~ overlapped
               PROVE  InSilver(Max({i \in 1..ids : creator[i] = r}))
    BY DEF PipelinesInv, FullRefreshIsOwn
  <2>1. PICK i \in Ids : LatestOf(r, i) /\ In(silver, i)
    BY DEF Owned
  <2> DEFINE S == {j \in 1..ids : creator[j] = r}
  <2>2. ids \in Nat /\ S \in SUBSET (1..ids) /\ i \in S /\ \A j \in S : j <= i
    BY <2>1 DEF LatestOf, Typed, IdsTyped
  <2>3. Max(S) = i
    <3> HIDE DEF S
    <3> QED
      BY <2>2, MaxIs
  <2> QED
    BY <2>1, <2>3 DEF In, InSilver
<1> QED
  BY <1>1, InvAlways, PTL

================================================================================
