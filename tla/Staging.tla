-------------------------------- MODULE Staging --------------------------------
(***************************************************************************)
(* What the steps after the extraction of one run share: the batches the   *)
(* extraction has published under the run id, and the cloud stage from     *)
(* which compact_batches.py and load_to_snowflake.py read and to which the *)
(* former writes.  Both programs run on an object store only.              *)
(*                                                                         *)
(* A batch is [state, offset, count], as in Extraction, where a state is   *)
(* its number in the alphabetical order of the names; its identity in      *)
(* manifests, ledger and RAW table ("<run>_<state>_<offset>") and its      *)
(* checksum are determined by it.  A chunk is one record of the compaction *)
(* manifest: the index-th compacted file of a state and the batches in it. *)
(* Its object is named by index and checksum, so a chunk is its object.    *)
(***************************************************************************)
EXTENDS Integers, FiniteSets, Sequences, FiniteSetsExt

CONSTANTS
    Waves,          \* the batches each attempt of the extraction adds to the run
    MaxRows,        \* settings.compaction_max_rows
    MaxFaults       \* bound: how many faults (errors and kills) may happen

\* Every batch the run will have.
Plan == UNION {Waves[i] : i \in DOMAIN Waves}

ASSUME WavesAssumption == Len(Waves) \in Nat /\ DOMAIN Waves = 1..Len(Waves)
ASSUME PlanAssumption ==
    /\ IsFiniteSet(Plan)
    /\ \A b \in Plan : b.state \in Nat /\ b.offset \in Nat /\ b.count \in Nat \ {0}

EndOf(b) == b.offset + b.count

\* Batches of one state lie apart, and a later attempt adds only behind the earlier ones.
\* (Of the extraction this is proved: TilesAlways, LinesAddedAtEnd.)
ASSUME TilingAssumption ==
    \A i, j \in DOMAIN Waves : \A b \in Waves[i], c \in Waves[j] :
        b.state = c.state /\ b # c =>
            /\ EndOf(b) <= c.offset \/ EndOf(c) <= b.offset
            /\ i < j => b.offset < c.offset

ASSUME RowsAssumption   == MaxRows \in Nat \ {0}
ASSUME FaultsAssumption == MaxFaults \in Nat

VARIABLES
    extracted,      \* the batches with a SUCCESS line in manifest.jsonl (here and on the stage)
    stage,          \* the records of compaction_manifest.jsonl on the stage; {}: no such file
    faults          \* how many faults have happened (bounds the environment)

Fault   == faults < MaxFaults /\ faults' = faults + 1
NoFault == UNCHANGED faults

\* b was extracted before c, and b comes before c in the order of the manifests.
Earlier(b, c) == b.state = c.state /\ b.offset < c.offset
Before(b, c)  == b.state < c.state \/ Earlier(b, c)

\* The rows of a set of batches, and the batches of a set of chunks.
Rows(bs) == MapThenSumSet(LAMBDA b : b.count, bs)
Batches(chunks) == UNION {c.batches : c \in chunks}

\* The next attempt of the extraction adds its batches.  One with a batch no compacted file
\* can hold (UDYAM_BATCH_SIZE above UDYAM_COMPACTION_MAX_ROWS) counts as a fault.
Extend ==
    /\ \E i \in DOMAIN Waves :
        /\ extracted = UNION {Waves[j] : j \in 1..(i - 1)}
        /\ extracted' = extracted \cup Waves[i]
        /\ IF \E b \in Waves[i] : b.count > MaxRows THEN Fault ELSE NoFault
    /\ UNCHANGED stage

=============================================================================
