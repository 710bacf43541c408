------------------------------ MODULE Compaction ------------------------------
(***************************************************************************)
(* scripts/compact_batches.py: combine the batches of a run into files of  *)
(* at most MaxRows rows of one state and publish the manifest that names   *)
(* them.  The process may be killed, its requests may fail, and it is run  *)
(* again under the same run id, possibly after the extraction added        *)
(* batches.  What it leaves behind, in this order:                         *)
(*                                                                         *)
(*   compacted objects --> compaction_manifest.jsonl --> its stage copy    *)
(***************************************************************************)
EXTENDS Staging

VARIABLES
    objects,    \* the chunks whose object exists on the store
    kept,       \* the records of the local compaction_manifest.jsonl; {}: no such file
    cpc,        \* "off", "build" (in the loop over the batches) or "sync"
    snapshot,   \* the batches the process read from manifest.jsonl; kept when it exits 0
    open,       \* the batches in current_file
    built       \* compact_records

durable == <<objects, kept>>
compactionVars == <<objects, kept, cpc, snapshot, open, built>>

Chunks == [state : {b.state : b \in Plan}, index : Nat, batches : (SUBSET Plan) \ {{}}]

\* The process ends with its exit code; its memory is gone.
EndCompaction(code) ==
    /\ cpc' = "off" /\ open' = {} /\ built' = {}
    /\ snapshot' = IF code = 0 THEN snapshot ELSE {}

-----------------------------------------------------------------------------
(* Variants as a plausible mistake in the code would have them. *)

\* The existing manifest is trusted if it names nothing that is gone.
Bug_SubsetReusable == kept # {} /\ Batches(kept) \subseteq extracted
\* A file that would be exactly full counts as too full.
Bug_FitsExactly(b) == \A c \in open : c.state = b.state /\ Rows(open) + b.count < MaxRows
\* The index is the number of files of the run, not of the state.
Bug_ChunkOfAttempt ==
    LET s == (CHOOSE b \in open : TRUE).state
    IN  [state |-> s, index |-> Cardinality(objects), batches |-> open]

-----------------------------------------------------------------------------
(* Helpers *)

\* The batches not yet copied into a file.
Todo == snapshot \ (open \cup Batches(built))

\* A batch goes into the open file: it is of its state and stays within the limit.
Fits(b) == \A c \in open : c.state = b.state /\ Rows(open) + b.count <= MaxRows

\* The batch the loop comes to: the states one after the other, each by offset.
ComesNext(b) == \A c \in Todo : ~Before(c, b)

\* The chunk in the open file.
Chunk ==
    LET s == (CHOOSE b \in open : TRUE).state
    IN  [state |-> s, index |-> Cardinality({c \in built : c.state = s}), batches |-> open]

\* The local manifest names exactly these batches, each once.
Reusable ==
    /\ kept # {} /\ Batches(kept) = extracted
    /\ \A c, d \in kept : c # d => c.batches \cap d.batches = {}
    /\ kept \subseteq objects

-----------------------------------------------------------------------------
CompactionInit ==
    /\ objects = {} /\ kept = {}
    /\ cpc = "off"
    /\ snapshot = {} /\ open = {} /\ built = {}

(* The process reads manifest.jsonl and decides whether the compaction of   *)
(* an earlier process still holds.  A HEAD request that fails counts as a   *)
(* missing object, and everything is built again.  (With no batch at all it  *)
(* exits 1 without having done anything.)                                   *)
StartCompaction ==
    /\ cpc = "off" /\ extracted # {}
    /\ snapshot' = extracted
    /\ \/ Reusable /\ cpc' = "sync" /\ NoFault
       \/ cpc' = "build" /\ (IF Reusable THEN Fault ELSE NoFault)
    /\ UNCHANGED <<open, built>>
    /\ UNCHANGED <<extracted, stage, durable>>

\* The next batch is downloaded, verified and copied into the open file.
TakeBatch ==
    /\ cpc = "build"
    /\ \E b \in Todo :
        /\ ComesNext(b) /\ b.count <= MaxRows /\ Fits(b)
        /\ open' = open \cup {b}
    /\ UNCHANGED <<extracted, stage, faults, durable, cpc, snapshot, built>>

\* The next batch alone exceeds the limit.
RejectBatch ==
    /\ cpc = "build"
    /\ \E b \in Todo : ComesNext(b) /\ b.count > MaxRows
    /\ EndCompaction(1)
    /\ UNCHANGED <<extracted, stage, faults, durable>>

\* The open file is full, or of another state, or the last: it is published unless it exists.
PublishChunk ==
    /\ cpc = "build" /\ open # {}
    /\ \A b \in Todo : ComesNext(b) => b.count <= MaxRows /\ ~Fits(b)
    /\ objects' = objects \cup {Chunk}
    /\ built' = built \cup {Chunk} /\ open' = {}
    /\ UNCHANGED <<extracted, stage, faults, kept, cpc, snapshot>>

\* A download, an upload or its verification fails; the object may have been stored.
BuildFails ==
    /\ cpc = "build" /\ Fault
    /\ \/ UNCHANGED objects
       \/ /\ open # {} /\ \A b \in Todo : ComesNext(b) => b.count <= MaxRows /\ ~Fits(b)
          /\ objects' = objects \cup {Chunk}
    /\ EndCompaction(1)
    /\ UNCHANGED <<extracted, stage, kept>>

\* The local manifest is replaced as a whole.
WriteCompactionManifest ==
    /\ cpc = "build" /\ Todo = {} /\ open = {}
    /\ kept' = built /\ cpc' = "sync"
    /\ UNCHANGED <<extracted, stage, faults, objects, snapshot, open, built>>

\* The local manifest is uploaded.
SyncCompactionManifest ==
    /\ cpc = "sync"
    /\ stage' = kept /\ EndCompaction(0)
    /\ UNCHANGED <<extracted, faults, durable>>

\* The upload or its verification fails; the stage copy may have been replaced.
SyncFails ==
    /\ cpc = "sync" /\ Fault
    /\ stage' \in {stage, kept} /\ EndCompaction(1)
    /\ UNCHANGED <<extracted, durable>>

KillCompaction ==
    /\ cpc # "off" /\ Fault
    /\ EndCompaction(137)
    /\ UNCHANGED <<extracted, stage, durable>>

CompactionStep ==
    \/ TakeBatch \/ RejectBatch \/ PublishChunk \/ BuildFails
    \/ WriteCompactionManifest \/ SyncCompactionManifest \/ SyncFails
    \/ KillCompaction

CompactionNext == StartCompaction \/ CompactionStep

-----------------------------------------------------------------------------
(* Properties *)

\* A set of chunks is what the loop makes of a set of batches: no batch in two files,
\* each file of one state, within the limit, without a gap between its batches, and
\* with no room for the first batch of the next file.
WellChunked(chunks) ==
    /\ \A c, d \in chunks : c # d => c.batches \cap d.batches = {}
    /\ \A c \in chunks :
        /\ Rows(c.batches) <= MaxRows
        /\ \A b \in c.batches : b.state = c.state
        /\ \A b \in Batches(chunks) : \A e, f \in c.batches :
              Earlier(e, b) /\ Earlier(b, f) => b \in c.batches
        /\ \A b \in Batches(chunks) \ c.batches :
              (\E e \in c.batches : EndOf(e) = b.offset /\ e.state = b.state)
                 => Rows(c.batches) + b.count > MaxRows

(* A manifest, here or on the stage, always names existing objects that      *)
(* hold each batch of some reading of manifest.jsonl exactly once, chunked   *)
(* by the limit, although processes die between the object, the manifest and *)
(* the stage copy and the run grows between them (compact_run,               *)
(* _write_compaction_manifest).                                              *)
ManifestsAreWhole ==
    \A m \in {kept, stage} :
        /\ WellChunked(m) /\ m \subseteq objects
        /\ \A b \in Batches(m) : \A e \in extracted : Earlier(e, b) => e \in Batches(m)

(* A compaction that exits 0 has put on the stage a manifest with exactly    *)
(* the batches it read, also when it only reused what an earlier, failed     *)
(* process had built (compact_run, 191-199).                                 *)
OkIsStaged == cpc = "off" /\ snapshot # {} => stage = kept /\ Batches(stage) = snapshot

(* Building again what the manifest already covers, because one HEAD request *)
(* failed, finds every object by its content-addressed name and stores       *)
(* nothing new (publish_compacted_batch, Readme.md:345).                     *)
RebuildAddsNothing ==
    [][cpc = "build" /\ kept # {} /\ Batches(kept) = snapshot => objects' = objects]_compactionVars

=============================================================================
