------------------------------- MODULE Ingestion -------------------------------
(***************************************************************************)
(* From the published batches of a run to RAW rows with a ledger entry:    *)
(* the extraction that adds batches, one compaction at a time and any      *)
(* number of loaders, all under one run id and started again and again.    *)
(* They share nothing but the stage, the RAW table and the ledger.         *)
(***************************************************************************)
EXTENDS Compaction, Loader

vars == <<extracted, stage, faults, compactionVars, loaderVars>>

Init ==
    /\ extracted = {} /\ stage = {} /\ faults = 0
    /\ CompactionInit /\ LoaderInit

Next ==
    \/ Extend         /\ UNCHANGED <<compactionVars, loaderVars>>
    \/ CompactionNext /\ UNCHANGED loaderVars
    \/ LoaderNext     /\ UNCHANGED compactionVars

Spec == Init /\ [][Next]_vars

-----------------------------------------------------------------------------
(* What the pipelines retry: a compaction while the stage does not cover the *)
(* run, a load while a batch of the run is not LOADED.  A process that runs  *)
(* goes on, and the server completes a detached statement.                   *)
Staged == stage # {} /\ Batches(stage) = extracted
Loaded == \A b \in extracted : raw[b] > 0 /\ ledger[b] = "LOADED"

Fairness ==
    /\ WF_vars((CompactionStep \/ (~Staged /\ StartCompaction)) /\ NoFault /\ UNCHANGED loaderVars)
    /\ \A l \in Loaders :
        WF_vars((LoaderStep(l) \/ (~Loaded /\ StartLoader(l))) /\ NoFault /\ UNCHANGED compactionVars)
    /\ WF_vars(LateStatement /\ UNCHANGED compactionVars)

FairSpec == Spec /\ Fairness

-----------------------------------------------------------------------------
(* Properties *)

TypeOK ==
    /\ extracted \subseteq Plan /\ faults \in 0..MaxFaults
    /\ \A m \in {stage, kept, objects, built} : m \subseteq Chunks
    /\ snapshot \subseteq Plan /\ open \subseteq Plan
    /\ cpc \in {"off", "build", "sync"}
    /\ raw \in [Plan -> Nat] /\ copied \subseteq Plan
    /\ ledger \in [Plan -> {"none", "LOADED", "FAILED"}]
    /\ detached \subseteq [does : Writes, to : SUBSET Plan]
    /\ lpc \in [Loaders -> LoaderPCs]
    /\ files \in [Loaders -> BOOLEAN] /\ left \in [Loaders -> SUBSET SUBSET Plan]
    /\ \A f \in {asked, unit, seen, missing} : f \in [Loaders -> SUBSET Plan]
    /\ overlapped \in BOOLEAN /\ vouched \subseteq Plan

(* The rows of a batch are in the RAW table twice only if two loads of the   *)
(* run overlapped in time: retries after kills and errors at any statement,  *)
(* with and without compaction, never repeat a batch (Readme.md, "Idempotent *)
(* loading"; process_compacted_file, process_run).                           *)
TwiceOnlyByOverlap == (\E b \in Plan : raw[b] > 1) => overlapped

(* A ledger row LOADED is never ahead of the rows, even when loads overlap,  *)
(* statements are detached and processes die between the two.                *)
LoadedHasRows == \A b \in Plan : ledger[b] = "LOADED" => raw[b] > 0

(* A loader that exits 0 and ran alone leaves every batch of its manifest in *)
(* RAW exactly once with a LOADED ledger row, and nothing that runs later    *)
(* disturbs it, overlapping or not.                                          *)
OkAloneIsFinal == \A b \in vouched : raw[b] = 1 /\ ledger[b] = "LOADED"

(* Retried compactions and loads end with every batch of the run in RAW and  *)
(* LOADED, wherever earlier processes died: the only ways not to are rows    *)
(* doubled by overlapping loads, which every later run refuses, and a batch  *)
(* larger than a compacted file may be.                                      *)
EventuallyLoaded ==
    \/ <>[]Loaded
    \/ <>(\E b \in Plan : raw[b] > 1)
    \/ <>(\E b \in extracted : b.count > MaxRows)

(* "COPY + ledger update are committed together" (load_to_snowflake.py:1171): *)
(* outside a loader's own statements a batch has rows if and only if its      *)
(* ledger row says LOADED.                                                    *)
CommittedTogether ==
    Running = {} => \A b \in Plan : raw[b] > 0 <=> ledger[b] = "LOADED"

=============================================================================
