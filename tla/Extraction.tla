------------------------------ MODULE Extraction ------------------------------
(***************************************************************************)
(* One extraction run of udyam_extractor.py / run_udyam.py: a process that *)
(* may be killed and started again under the same UDYAM_RUN_ID, a pool of  *)
(* max_workers threads that each extract one state of the country at a     *)
(* time, and the three durable things they leave behind in this order:     *)
(*                                                                         *)
(*     batch artifact  -->  line of the batch manifest  -->  checkpoint    *)
(*                                                                         *)
(* A worker is modelled at the granularity at which the order of those     *)
(* writes, a signal, an error or a kill can be observed.  Records of a     *)
(* state are the indices 0 .. total-1 the API serves by offset; a batch is *)
(* the interval it holds, so the contents of a CSV file, its name and its  *)
(* checksum are determined by [state, offset, count].                      *)
(***************************************************************************)
EXTENDS Naturals, FiniteSets

CONSTANTS
    States,         \* the states asked for (STATES, or the one of UDYAM_TEST_STATE)
    BatchSize,      \* settings.batch_size: the limit of one API request
    MaxWorkers,     \* settings.max_workers: threads of the pool
    Cloud,          \* TRUE: storage_backend is gcs or s3; FALSE: local
    NoTotal,        \* None: the API total of a state is not known yet
    ApiMoves,       \* how the API's totals move during the run: a subset of Moves
    MaxTotal,       \* bound: the largest number of records the API has for a state
    MaxFaults       \* bound: how many faults (errors, kills, signals) may happen

Moves == {"grow", "shrink"}

ASSUME StatesAssumption    == IsFiniteSet(States) /\ States # {}
ASSUME SizesAssumption     == BatchSize \in Nat \ {0} /\ MaxWorkers \in Nat \ {0}
ASSUME BackendAssumption   == Cloud \in BOOLEAN
ASSUME NoTotalAssumption   == NoTotal \notin Nat
ASSUME ApiAssumption       == ApiMoves \subseteq Moves
ASSUME BoundsAssumption    == MaxTotal \in Nat /\ MaxFaults \in Nat

VARIABLES
    apiTotal,   \* per state: how many records the API has now (external)
    cp,         \* per state: the checkpoint file
    artifacts,  \* the published batch artifacts (final CSV files, or objects)
    manifest,   \* the readable SUCCESS lines of manifest.jsonl
    tail,       \* the batch on the manifest's last line when only its newline is missing
    torn,       \* the manifest's last line does not end in a newline
    garbled,    \* the batches whose lines were spoiled: what is left is not JSON
    summary,    \* run_summary.json: its run_status ("none": no file) and, state by
                \* state, the totals it adds up
    exit,       \* how the last process ended; "none" while one runs
    up,         \* a process is running
    shutdown,   \* SHUTDOWN_EVENT of that process
    pc,         \* per state: where its worker stands
    local,      \* per state: the worker's variables offset, written and total
    page,       \* per state: the last API response it accepted
    faults      \* how many faults have happened (bounds the environment)

manifestVars == <<manifest, tail, torn, garbled>>
processVars  == <<summary, exit, up, shutdown>>
vars == <<apiTotal, cp, artifacts, manifest, tail, torn, garbled,
          summary, exit, up, shutdown, pc, local, page, faults>>

Batches == [state : States, offset : Nat, count : Nat \ {0}]
Totals  == Nat \cup {NoTotal}

\* The states of a worker.
\*   queued   submitted to the pool, not picked up by a thread
\*   loop     at the top of the while loop
\*   fetch    inside fetch_batch
\*   persist  holds a page with records, has not published it
\*   append   artifact published, manifest line not written
\*   save     manifest line written, checkpoint not saved
\*   settle   checkpoint saved (or the API had no more), state not reconciled
\*   raised   an exception left extract_state
\*   done     extract_state returned, or its exception was handled
PCs == {"queued", "loop", "fetch", "persist", "append", "save", "settle",
        "raised", "done"}
Working == PCs \ {"queued", "raised", "done"}

-----------------------------------------------------------------------------
(* Variants of the definitions below, as a plausible mistake in the code would  *)
(* have them; the properties are checked against them.                          *)

\* The manifest is searched by state alone.
Bug_IgnoreOffset(s, offset) == {b \in manifest : b.state = s}
\* An artifact without a line is overwritten.
Bug_NeverTaken(s, offset) == FALSE
\* Every page is handed on, also a short one in the middle.
Bug_AcceptAnyPage(offset, count, total) == TRUE
\* An empty page does not end the loop.
Bug_IgnoreEmptyPage(count) == IF count = 0 THEN "loop" ELSE "persist"
\* A failed state is not resumed.
Bug_SkipFailed(c) == c.status \in {"COMPLETED", "FAILED"}
\* The default checkpoint takes the total for 0 instead of unknown.
Bug_ZeroTotal ==
    [status |-> "NOT_STARTED", total |-> 0, written |-> 0, offset |-> 0]
\* The checkpoint is saved with the artifact, ahead of the manifest line.
Bug_CheckpointFirst(s) ==
    /\ up /\ pc[s] = "persist"
    /\ \A a \in artifacts : a.state # s \/ a.offset # local[s].offset
    /\ artifacts' = artifacts \cup
         {[state |-> s, offset |-> local[s].offset, count |-> page[s].count]}
    /\ local' = [local EXCEPT ![s].offset  = @ + page[s].count,
                              ![s].written = @ + page[s].count]
    /\ cp' = [cp EXCEPT ![s] = [status |-> "IN_PROGRESS", total |-> local[s].total,
                                written |-> local'[s].written,
                                offset  |-> local'[s].offset]]
    /\ pc' = [pc EXCEPT ![s] = "append"]
    /\ UNCHANGED <<apiTotal, manifestVars, processVars, page, faults>>
\* A failure writes its reason where the status belongs.
Bug_ReasonAsStatus(s) == cp' = [cp EXCEPT ![s].status = "SHUTDOWN_REQUESTED"]
\* A failure forgets how far the state was.
Bug_FailByReset(s) ==
    cp' = [cp EXCEPT ![s] = [@ EXCEPT !.status = "FAILED", !.written = 0, !.offset = 0]]
\* The manifest is opened for writing instead of appending.
Bug_RewriteManifest(s) ==
    /\ manifest' = {[state |-> s, offset |-> local[s].offset - page[s].count,
                     count |-> page[s].count]}
    /\ garbled' = {} /\ torn' = FALSE /\ tail' = {}
\* An upload that failed is taken for one that succeeded.
Bug_IgnoreUploadError(s) ==
    /\ Cloud /\ up /\ pc[s] = "persist" /\ faults < MaxFaults
    /\ faults' = faults + 1
    /\ local' = [local EXCEPT ![s].offset  = @ + page[s].count,
                              ![s].written = @ + page[s].count]
    /\ pc' = [pc EXCEPT ![s] = "append"]
    /\ UNCHANGED <<apiTotal, cp, artifacts, manifestVars, processVars, page>>

-----------------------------------------------------------------------------
(* Helpers *)

Fault   == faults < MaxFaults /\ faults' = faults + 1
NoFault == UNCHANGED faults

EndOf(b) == b.offset + b.count

\* The default of load_checkpoint, and the checkpoint a worker saves.
DefaultCheckpoint ==
    [status |-> "NOT_STARTED", total |-> NoTotal, written |-> 0, offset |-> 0]
Checkpoint(l, status) ==
    [status |-> status, total |-> l.total, written |-> l.written, offset |-> l.offset]

\* A worker's variables after a batch of n records.
Advanced(l, n) ==
    [offset |-> l.offset + n, written |-> l.written + n, total |-> l.total]

\* A worker's variables before it runs.
Fresh  == [offset |-> 0, written |-> 0, total |-> NoTotal]
NoPage == [count |-> 0, total |-> NoTotal]

\* get_persisted_batch: the SUCCESS line of the batch at this offset.
Persisted(s, offset) == {b \in manifest : b.state = s /\ b.offset = offset}

\* There is an artifact of this name: batch_file.exists() on the local backend,
\* the refused put-if-absent on an object store.
Taken(s, offset) == \E a \in artifacts : a.state = s /\ a.offset = offset

\* validate_artifact: the object the line names is there, with its checksum.
Valid(b) == b \in artifacts

\* reconcile_state.
Reconciles(total, written) == total # NoTotal /\ written >= total

\* After a fetched batch: is the state complete?  A recovered batch is judged
\* by its records alone (count of a full page).
ReachedEnd(total, written, count) ==
    total # NoTotal /\ (written >= total \/ count < BatchSize)

\* fetch_batch hands a page on only when it is full or the last one; a short
\* page in the middle (SHORT_PAGE) is asked for again.
Acceptable(offset, count, total) == count >= BatchSize \/ offset + count >= total

\* Where a worker goes with the page it was handed.
AfterPage(count) == IF count = 0 THEN "settle" ELSE "persist"

\* The total is taken from the first response of the state and then kept.
Captured(known, reported) == IF known = NoTotal THEN reported ELSE known

\* load_checkpoint: the file, or the default when reading it fails.
Loadable(s) ==
    {[c |-> cp[s], cost |-> 0], [c |-> DefaultCheckpoint, cost |-> 1]}
Costs(n) == faults + n <= MaxFaults /\ faults' = faults + n

\* mark_state_failed: only the status of the saved checkpoint changes.
MarkFailed(s) == cp' = [cp EXCEPT ![s].status = "FAILED"]

Goto(s, label) == pc' = [pc EXCEPT ![s] = label]
Fail(s)        == MarkFailed(s) /\ Goto(s, "done")

Running == {s \in States : pc[s] \in Working}
AtWork(s, label) == up /\ pc[s] = label

\* The batch a worker has in hand while it appends its manifest line.
InHand(s) == [state |-> s, offset |-> local[s].offset - page[s].count,
              count |-> page[s].count]

-----------------------------------------------------------------------------
Init ==
    /\ apiTotal \in [States -> 0..MaxTotal]
    /\ cp = [s \in States |-> DefaultCheckpoint]
    /\ artifacts = {} /\ manifest = {} /\ tail = {}
    /\ torn = FALSE /\ garbled = {}
    /\ summary = [status |-> "none", totals |-> [s \in States |-> NoTotal]]
    /\ exit = "none"
    /\ up = TRUE /\ shutdown = FALSE
    /\ pc = [s \in States |-> "queued"]
    /\ local = [s \in States |-> Fresh]
    /\ page = [s \in States |-> NoPage]
    /\ faults = 0

-----------------------------------------------------------------------------
(* The worker of one state: extract_state *)

\* Only a COMPLETED checkpoint keeps a state from being resumed.
AlreadyDone(c) == c.status = "COMPLETED"

\* A thread of the pool picks the state up.
PickedUp(s) == AtWork(s, "queued") /\ Cardinality(Running) < MaxWorkers

\* The checkpoint says COMPLETED: nothing to do.
Skip(s) ==
    /\ PickedUp(s)
    /\ AlreadyDone(cp[s])
    /\ Goto(s, "done")
    /\ NoFault
    /\ UNCHANGED <<apiTotal, cp, artifacts, manifestVars, processVars, local, page>>

\* The checkpoint is loaded (or the default, when the file cannot be read) and
\* saved as IN_PROGRESS.
Begin(s) ==
    /\ PickedUp(s)
    /\ \E l \in Loadable(s) :
        /\ Costs(l.cost)
        /\ ~AlreadyDone(l.c)
        /\ local' = [local EXCEPT ![s] =
             [offset |-> l.c.offset, written |-> l.c.written, total |-> l.c.total]]
        /\ cp' = [cp EXCEPT ![s] = [l.c EXCEPT !.status = "IN_PROGRESS"]]
    /\ Goto(s, "loop")
    /\ UNCHANGED <<apiTotal, artifacts, manifestVars, processVars, page>>

\* A signal was received: the state stops at the top of the loop, resumable.
StopOnShutdown(s) ==
    /\ AtWork(s, "loop") /\ shutdown
    /\ Fail(s)
    /\ NoFault
    /\ UNCHANGED <<apiTotal, artifacts, manifestVars, processVars, local, page>>

\* The manifest already holds the batch at this offset and its artifact is
\* valid: it is taken over without a request.
Recover(s) ==
    /\ AtWork(s, "loop") /\ ~shutdown
    /\ \E b \in Persisted(s, local[s].offset) :
        /\ Valid(b)
        /\ LET l == Advanced(local[s], b.count)
           IN /\ local' = [local EXCEPT ![s] = l]
              /\ cp' = [cp EXCEPT ![s] = Checkpoint(l, "IN_PROGRESS")]
              /\ Goto(s, IF ReachedEnd(l.total, l.written, BatchSize)
                         THEN "settle" ELSE "loop")
    /\ NoFault
    /\ UNCHANGED <<apiTotal, artifacts, manifestVars, processVars, page>>

\* Validation fails (BATCH_ARTIFACT_INVALID): the artifact is not there, or the
\* HEAD request to the object store fails, which the code takes for the same.
RejectArtifact(s) ==
    /\ AtWork(s, "loop") /\ ~shutdown
    /\ \E b \in Persisted(s, local[s].offset) :
        IF Valid(b) THEN Cloud /\ Fault ELSE NoFault
    /\ Fail(s)
    /\ UNCHANGED <<apiTotal, artifacts, manifestVars, processVars, local, page>>

\* No line for this offset: the batch is requested from the API.
Request(s) ==
    /\ AtWork(s, "loop") /\ ~shutdown
    /\ Persisted(s, local[s].offset) = {}
    /\ Goto(s, "fetch")
    /\ NoFault
    /\ UNCHANGED <<apiTotal, cp, artifacts, manifestVars, processVars, local, page>>

\* fetch_batch raises ExtractionError: HTTP_CLIENT_ERROR or RETRY_EXHAUSTED, or
\* ShutdownRequested when a signal came before an attempt.
FetchFails(s) ==
    /\ AtWork(s, "fetch")
    /\ IF shutdown THEN NoFault ELSE Fault
    /\ Fail(s)
    /\ UNCHANGED <<apiTotal, artifacts, manifestVars, processVars, local, page>>

\* fetch_batch returns: the API served at most what it has and at most the
\* limit, and the page is one the retry loop accepts.  A signal does not
\* discard the response of the request in flight.
FetchPage(s) ==
    /\ AtWork(s, "fetch")
    /\ \E count \in 0..BatchSize :
        /\ count = 0 \/ local[s].offset + count <= apiTotal[s]
        /\ Acceptable(local[s].offset, count, apiTotal[s])
        /\ page' = [page EXCEPT ![s] = [count |-> count, total |-> apiTotal[s]]]
        /\ Goto(s, AfterPage(count))
    /\ local' = [local EXCEPT ![s].total = Captured(@, apiTotal[s])]
    /\ NoFault
    /\ UNCHANGED <<apiTotal, cp, artifacts, manifestVars, processVars>>

\* The artifact's name is taken by a batch without a manifest line.  Local:
\* ORPHAN_BATCH_ARTIFACT; object store: the conditional upload is refused and
\* the state fails with STORAGE_UPLOAD_FAILED.
FindOrphan(s) ==
    /\ AtWork(s, "persist")
    /\ Taken(s, local[s].offset)
    /\ Fail(s)
    /\ NoFault
    /\ UNCHANGED <<apiTotal, artifacts, manifestVars, processVars, local, page>>

\* The batch is written (temporary file, fsync, rename) and published, and
\* offset and written move on.
Publish(s) ==
    /\ AtWork(s, "persist")
    /\ ~Taken(s, local[s].offset)
    /\ artifacts' = artifacts \cup
         {[state |-> s, offset |-> local[s].offset, count |-> page[s].count]}
    /\ local' = [local EXCEPT ![s] = Advanced(@, page[s].count)]
    /\ Goto(s, "append")
    /\ NoFault
    /\ UNCHANGED <<apiTotal, cp, manifestVars, processVars, page>>

\* Object store only: the upload or its verification fails with a StorageError;
\* the object may have been stored all the same.
PublishFails(s) ==
    /\ Cloud /\ AtWork(s, "persist")
    /\ ~Taken(s, local[s].offset)
    /\ \/ artifacts' = artifacts \cup
            {[state |-> s, offset |-> local[s].offset, count |-> page[s].count]}
       \/ artifacts' = artifacts
    /\ Fail(s)
    /\ Fault
    /\ UNCHANGED <<apiTotal, manifestVars, processVars, local, page>>

\* One line is appended to the manifest and fsynced.  After a line without a
\* newline it joins that line and neither can be read any more.
AppendLine(s) ==
    /\ IF torn THEN /\ manifest' = manifest \ tail
                    /\ garbled' = garbled \cup tail \cup {InHand(s)}
               ELSE /\ manifest' = manifest \cup {InHand(s)}
                    /\ garbled' = garbled
    /\ torn' = FALSE /\ tail' = {}

AppendManifest(s) ==
    /\ AtWork(s, "append")
    /\ AppendLine(s)
    /\ Goto(s, "save")
    /\ NoFault
    /\ UNCHANGED <<apiTotal, cp, artifacts, processVars, local, page>>

\* Object store only: the line is appended but the manifest's upload fails;
\* sync_manifest's StorageError leaves extract_state.
AppendUnsynced(s) ==
    /\ Cloud /\ AtWork(s, "append")
    /\ AppendLine(s)
    /\ Goto(s, "raised")
    /\ Fault
    /\ UNCHANGED <<apiTotal, cp, artifacts, processVars, local, page>>

\* The append is cut short (the disk is full): part of the line, or all of it
\* but the newline, stays behind, and the OSError leaves extract_state.
AppendTorn(s) ==
    /\ AtWork(s, "append")
    /\ torn' = TRUE
    /\ \/ ~torn /\ tail' = {InHand(s)} /\ manifest' = manifest \cup {InHand(s)}
                /\ garbled' = garbled
       \/ tail' = {} /\ manifest' = manifest \ tail
                /\ garbled' = garbled \cup tail \cup {InHand(s)}
    /\ Goto(s, "raised")
    /\ Fault
    /\ UNCHANGED <<apiTotal, cp, artifacts, processVars, local, page>>

\* The checkpoint is saved after the manifest line.
SaveCheckpoint(s) ==
    /\ AtWork(s, "save")
    /\ cp' = [cp EXCEPT ![s] = Checkpoint(local[s], "IN_PROGRESS")]
    /\ Goto(s, IF ReachedEnd(local[s].total, local[s].written, page[s].count)
               THEN "settle" ELSE "loop")
    /\ NoFault
    /\ UNCHANGED <<apiTotal, artifacts, manifestVars, processVars, local, page>>

\* Nothing is left to fetch: reconcile, and save the final status.
Settle(s) ==
    /\ AtWork(s, "settle")
    /\ cp' = [cp EXCEPT ![s] = Checkpoint(local[s],
               IF Reconciles(local[s].total, local[s].written)
               THEN "COMPLETED" ELSE "FAILED")]
    /\ Goto(s, "done")
    /\ NoFault
    /\ UNCHANGED <<apiTotal, artifacts, manifestVars, processVars, local, page>>

\* A read or write of a local file fails before it has an effect (or a response
\* is not what the parser expects), and the exception leaves extract_state.
WorkerRaises(s) ==
    /\ \/ up /\ pc[s] \in Working
       \/ PickedUp(s) /\ ~AlreadyDone(cp[s])
    /\ Goto(s, "raised")
    /\ Fault
    /\ UNCHANGED <<apiTotal, cp, artifacts, manifestVars, processVars, local, page>>

\* extract_states, in the main thread: an exception of a future marks the
\* checkpoint on disk as failed.
HandleRaised(s) ==
    /\ AtWork(s, "raised")
    /\ Cardinality(States) > 1
    /\ \E l \in Loadable(s) :
        /\ Costs(l.cost)
        /\ cp' = [cp EXCEPT ![s] = [l.c EXCEPT !.status = "FAILED"]]
    /\ Goto(s, "done")
    /\ UNCHANGED <<apiTotal, artifacts, manifestVars, processVars, local, page>>

WorkerStep(s) ==
    \/ Skip(s) \/ Begin(s) \/ StopOnShutdown(s)
    \/ Recover(s) \/ RejectArtifact(s)
    \/ Request(s) \/ FetchFails(s) \/ FetchPage(s)
    \/ FindOrphan(s) \/ Publish(s) \/ PublishFails(s)
    \/ AppendManifest(s) \/ AppendUnsynced(s) \/ AppendTorn(s)
    \/ SaveCheckpoint(s) \/ Settle(s)
    \/ WorkerRaises(s) \/ HandleRaised(s)

-----------------------------------------------------------------------------
(* The process: main of run_udyam.py *)

\* The process is gone: what its threads held in memory is lost.
Ends(how) ==
    /\ up' = FALSE /\ shutdown' = FALSE /\ exit' = how
    /\ pc' = [s \in States |-> "queued"]
    /\ local' = [s \in States |-> Fresh]
    /\ page' = [s \in States |-> NoPage]

\* reconcile_run over the returned checkpoints: every state is COMPLETED and
\* its total known.  (It then compares the sums over all states, which follow
\* from what each state was reconciled for.)
RunReconciles ==
    \A s \in States : cp[s].status = "COMPLETED" /\ cp[s].total # NoTotal

\* build_run_summary: the run's status, and the sum of its states' totals as the
\* records expected.
Summarised ==
    [status |-> IF RunReconciles THEN "COMPLETED" ELSE "FAILED",
     totals |-> [s \in States |-> cp[s].total]]

\* The summary is written and the process exits 0 or 1.
Finish ==
    /\ up /\ \A s \in States : pc[s] = "done"
    /\ summary' = Summarised
    /\ Ends(IF RunReconciles THEN "ok" ELSE "failed")
    /\ NoFault
    /\ UNCHANGED <<apiTotal, cp, artifacts, manifestVars>>

\* The summary's upload fails: main catches OSError only, so the StorageError
\* ends the process after the local summary was written.
FinishUnsynced ==
    /\ Cloud
    /\ up /\ \A s \in States : pc[s] = "done"
    /\ summary' = Summarised
    /\ Ends("crashed")
    /\ Fault
    /\ UNCHANGED <<apiTotal, cp, artifacts, manifestVars>>

\* The local summary cannot be written (OSError): the process exits 1.
FinishUnwritten ==
    /\ up /\ \A s \in States : pc[s] = "done"
    /\ Ends("failed")
    /\ Fault
    /\ UNCHANGED <<apiTotal, cp, artifacts, manifestVars, summary>>

\* With a single state extract_state is called directly: its exception ends main.
Abort(s) ==
    /\ AtWork(s, "raised")
    /\ Cardinality(States) = 1
    /\ Ends("crashed")
    /\ NoFault
    /\ UNCHANGED <<apiTotal, cp, artifacts, manifestVars, summary>>

\* SIGKILL, power loss, eviction of the container.
Crash ==
    /\ up
    /\ Ends("crashed")
    /\ Fault
    /\ UNCHANGED <<apiTotal, cp, artifacts, manifestVars, summary>>

\* SIGINT or SIGTERM.
RequestShutdown ==
    /\ up /\ ~shutdown
    /\ shutdown' = TRUE
    /\ Fault
    /\ UNCHANGED <<apiTotal, cp, artifacts, manifestVars, summary, exit, up,
                   pc, local, page>>

\* The run is started again with UDYAM_RUN_ID: a retry of the task, or by hand.
Restart ==
    /\ ~up
    /\ up' = TRUE /\ exit' = "none"
    /\ NoFault
    /\ UNCHANGED <<apiTotal, cp, artifacts, manifestVars, summary, shutdown,
                   pc, local, page>>

\* Registrations are added at the API, or withdrawn.
ApiChange(s) ==
    /\ \E n \in 0..MaxTotal :
        /\ \/ "grow" \in ApiMoves /\ n > apiTotal[s]
           \/ "shrink" \in ApiMoves /\ n < apiTotal[s]
        /\ apiTotal' = [apiTotal EXCEPT ![s] = n]
    /\ NoFault
    /\ UNCHANGED <<cp, artifacts, manifestVars, processVars, pc, local, page>>

Next ==
    \/ \E s \in States : WorkerStep(s) \/ Abort(s) \/ ApiChange(s)
    \/ Finish \/ FinishUnsynced \/ FinishUnwritten \/ Crash \/ RequestShutdown \/ Restart

Spec == Init /\ [][Next]_vars

-----------------------------------------------------------------------------
(* Correctness *)

Statuses    == {"NOT_STARTED", "IN_PROGRESS", "COMPLETED", "FAILED"}
Checkpoints == [status : Statuses, total : Totals, written : Nat, offset : Nat]

Summaries   == [status : {"none", "COMPLETED", "FAILED"}, totals : [States -> Totals]]

\* Every variable has its type: the checkpoint file always holds one of the four
\* statuses the readers of the run know, with numbers that are never negative.
TypeOK ==
    /\ apiTotal \in [States -> 0..MaxTotal]
    /\ cp \in [States -> Checkpoints]
    /\ artifacts \subseteq Batches
    /\ manifest \subseteq Batches
    /\ tail \subseteq Batches
    /\ torn \in BOOLEAN /\ garbled \subseteq Batches
    /\ summary \in Summaries
    /\ exit \in {"none", "ok", "failed", "crashed"}
    /\ up \in BOOLEAN /\ shutdown \in BOOLEAN
    /\ pc \in [States -> PCs]
    /\ local \in [States -> [offset : Nat, written : Nat, total : Totals]]
    /\ page \in [States -> [count : Nat, total : Totals]]
    /\ faults \in Nat

\* No record is withdrawn at the API.
NeverShrinks == "shrink" \notin ApiMoves

\* p is where a batch of state s may start: the beginning or the end of another.
Boundary(s, p) == p = 0 \/ \E a \in artifacts : a.state = s /\ EndOf(a) = p

\* Every record before index n lies in one of the batches.
Covers(batches, s, n) ==
    \A i \in 0..(n - 1) :
        \E b \in batches : b.state = s /\ b.offset <= i /\ i < EndOf(b)

\* The batches whose manifest line was written, readable or spoiled since.
Lines == manifest \cup garbled

\* The records below these totals all have an artifact and a manifest line.
Whole(totals) ==
    \A s \in States :
        /\ totals[s] # NoTotal
        /\ Covers(artifacts, s, totals[s])
        /\ Covers(Lines, s, totals[s])

\* Through restarts, replays from a lost checkpoint and growing totals, the
\* artifacts of a state lie end to end from offset 0: none overlaps another (no
\* record is extracted twice) and none leaves a gap before it.
ArtifactsTile ==
    /\ \A a, b \in artifacts : a.state = b.state /\ a # b
           => EndOf(a) <= b.offset \/ EndOf(b) <= a.offset
    /\ \A a \in artifacts : Boundary(a.state, a.offset)

\* The order of the writes holds at every instant a kill can strike: a manifest
\* line never names an artifact that is not there, and the checkpoint never
\* counts a record whose line was not written.  (The line may be one that a torn
\* append spoiled: compaction then refuses the whole manifest.)
PersistenceOrder ==
    /\ manifest \subseteq artifacts
    /\ \A s \in States :
        /\ cp[s].written = cp[s].offset
        /\ Covers(Lines, s, cp[s].offset)

\* A run that exits 0 has, for every state, a total the API reported and an
\* artifact and a manifest line for each record below it, whatever went wrong
\* in this process and the ones before.  So has a run whose summary says
\* COMPLETED, also when the process died over the summary's upload, and for as
\* long as that file lies there.
ExitZeroIsWhole ==
    /\ exit = "ok" => Whole([s \in States |-> cp[s].total])
    /\ summary.status = "COMPLETED" => Whole(summary.totals)

\* Unless records are withdrawn at the API, a COMPLETED state counts everything
\* it ever published: no artifact of an interrupted attempt lies beyond its end.
CompletedCountsAll ==
    NeverShrinks =>
        \A s \in States : cp[s].status = "COMPLETED"
            => \A a \in artifacts : a.state = s => EndOf(a) <= cp[s].offset

\* Unless records are withdrawn, COMPLETED means all the records the API had when
\* the total was captured and none it does not have, also after checkpoints were
\* lost: while totals do not move, exactly the API's records.
CompletedIsExact ==
    NeverShrinks => \A s \in States : cp[s].status = "COMPLETED"
        => cp[s].written \in cp[s].total..apiTotal[s]

\* Without a fault no state fails, whatever the API adds while it is extracted:
\* the pages the retry loop accepts and the end of the loop fit together.
NeverFailsUnprovoked ==
    faults = 0 /\ NeverShrinks =>
        exit # "failed" /\ \A s \in States : cp[s].status # "FAILED"

\* A manifest line, once readable, stays readable: an append cut short, of this
\* state or another, spoils at most the last line, and only one without a newline.
\* What it spoils stays visible as a line that is not JSON.
LinesAreKept ==
    [][manifest \ manifest' \subseteq tail \cap garbled' /\ garbled \subseteq garbled']_vars

\* A checkpoint loses progress only when it could not be read, and then it
\* starts over from nothing, never from a mixture of old and new numbers.
ProgressIsKept ==
    [][\A s \in States :
        \/ /\ cp'[s].offset >= cp[s].offset
           /\ cp[s].total # NoTotal => cp'[s].total = cp[s].total
           /\ cp[s].status = "COMPLETED" => cp'[s].status = "COMPLETED"
        \/ /\ faults' > faults
           /\ cp'[s] = [DefaultCheckpoint EXCEPT !.status = cp'[s].status]]_vars

\* "API total count increased during extraction (new registrations).  All
\* available records were fetched": when a state completes with more records
\* than its total, it has every record the last response reported.
GrowthIsFetched ==
    \A s \in States :
        pc[s] = "done" /\ cp[s].status = "COMPLETED" /\ cp[s].written > cp[s].total
            /\ page[s].total # NoTotal
        => cp[s].written >= page[s].total

-----------------------------------------------------------------------------
(* What the safety properties rest on: the parts of an inductive invariant *)

\* A worker's numbers against the checkpoint it saved last: they agree except
\* between the publication of a batch and the checkpoint that counts it, and
\* a worker is never active on a checkpoint that is COMPLETED.
WorkersInStep ==
    \A s \in States :
        /\ cp[s].written = cp[s].offset
        /\ pc[s] \in {"loop", "fetch", "persist", "settle"}
               => local[s].offset = cp[s].offset
        /\ pc[s] \in {"append", "save"}
               => local[s].offset = cp[s].offset + page[s].count
        /\ pc[s] \in Working => local[s].written = local[s].offset
        /\ pc[s] \in Working \cup {"raised"} => cp[s].status # "COMPLETED"

\* The page in hand is not empty and within what the API had; once published
\* its artifact is there.
PagesInHand ==
    \A s \in States :
        /\ pc[s] \in {"persist", "append", "save"} => page[s].count > 0
        /\ pc[s] = "persist" => local[s].offset + page[s].count <= MaxTotal
        /\ pc[s] \in {"append", "save"} => InHand(s) \in artifacts

\* Where a batch may start and none does, every batch of the state lies before.
Frontier ==
    /\ \A a \in artifacts : EndOf(a) <= MaxTotal
    /\ \A s \in States, p \in 0..MaxTotal :
        Boundary(s, p) /\ ~Taken(s, p)
            => \A a \in artifacts : a.state = s => EndOf(a) <= p

\* A checkpoint stands between two batches, and counts only published records.
CheckpointsAtBoundary ==
    \A s \in States :
        Boundary(s, cp[s].offset) /\ Covers(artifacts, s, cp[s].offset)

\* Before its checkpoint is saved a batch has its line.
LinesInHand ==
    \A s \in States : pc[s] = "save" => InHand(s) \in Lines

\* A state is COMPLETED only once reconciled, and a run is ok only if all are.
CompletedIsReconciled ==
    /\ \A s \in States : cp[s].status = "COMPLETED"
           => cp[s].total # NoTotal /\ cp[s].written >= cp[s].total
    /\ up => exit = "none"
    /\ exit = "ok" => \A s \in States : cp[s].status = "COMPLETED"

\* A summary that says COMPLETED is true.
SummaryHolds == summary.status = "COMPLETED" => Whole(summary.totals)

\* What holds of the durable things, however the API's totals move.
Durable ==
    /\ TypeOK /\ WorkersInStep /\ PagesInHand
    /\ ArtifactsTile /\ Frontier /\ CheckpointsAtBoundary
    /\ PersistenceOrder /\ LinesInHand /\ CompletedIsReconciled /\ SummaryHolds

\* A worker has the total of its checkpoint, once that one has a total.
TotalsInStep ==
    \A s \in States :
        /\ pc[s] \in {"loop", "fetch"} => local[s].total = cp[s].total
        /\ pc[s] \in Working /\ cp[s].total # NoTotal => local[s].total = cp[s].total
        /\ pc[s] \in {"persist", "append", "save"} => local[s].total # NoTotal

\* Nothing exceeds what the API has, and the page in hand is full or reaches the
\* captured total.
WithinApi ==
    /\ \A a \in artifacts : EndOf(a) <= apiTotal[a.state]
    /\ \A s \in States :
        /\ \A n \in {cp[s].total, local[s].total} \ {NoTotal} : n <= apiTotal[s]
        /\ pc[s] = "persist" =>
             /\ local[s].offset + page[s].count <= apiTotal[s]
             /\ page[s].count < BatchSize => local[s].offset + page[s].count >= local[s].total
        /\ pc[s] \in {"append", "save"} /\ page[s].count < BatchSize
             => local[s].offset >= local[s].total

\* No artifact of s ends beyond p.
AllBefore(s, p) == \A a \in artifacts : a.state = s => EndOf(a) <= p

\* While the checkpoint knows the total, at most one batch is ahead of it; a worker
\* that has published or has nothing left to fetch is behind no artifact.
NothingBeyond ==
    \A s \in States :
        /\ cp[s].total # NoTotal => \A a \in artifacts : a.state = s => a.offset <= cp[s].offset
        /\ pc[s] \in {"append", "save"} => AllBefore(s, local[s].offset)
        /\ pc[s] = "settle" =>
             AllBefore(s, cp[s].offset) /\ Reconciles(local[s].total, local[s].written)
        /\ cp[s].status = "COMPLETED" => AllBefore(s, cp[s].offset)

\* Without a fault nothing stops a worker: it never comes to an artifact without a
\* line, and what it returns is complete.
Unprovoked ==
    /\ ~shutdown /\ ~torn /\ exit # "failed"
    /\ \A a \in artifacts \ manifest : pc[a.state] = "append" /\ a = InHand(a.state)
    /\ \A s \in States :
        /\ cp[s].status # "FAILED" /\ pc[s] # "raised"
        /\ pc[s] = "done" => cp[s].status = "COMPLETED"
        /\ pc[s] \in {"fetch", "persist"} => ~Taken(s, local[s].offset)

Inductive ==
    /\ Durable
    /\ TotalsInStep
    /\ NeverShrinks => WithinApi /\ NothingBeyond /\ (faults = 0 => Unprovoked)

-----------------------------------------------------------------------------
(* Refinement *)

\* The extraction implements BatchLog: the artifacts are its log, a checkpoint's
\* offset is the mark and its COMPLETED status the flag.
Log == INSTANCE BatchLog WITH
    MaxRecords <- MaxTotal,
    log      <- artifacts,
    mark     <- [s \in States |-> cp[s].offset],
    finished <- [s \in States |-> cp[s].status = "COMPLETED"]

ImplementsBatchLog == Log!LogSpec

-----------------------------------------------------------------------------
(* Liveness *)

\* Threads are scheduled and calls return: fetch_batch bounds its attempts and
\* gives curl a --max-time.
Fairness ==
    /\ \A s \in States : WF_vars(WorkerStep(s)) /\ WF_vars(Abort(s))
    /\ WF_vars(Finish)
FairSpec == Spec /\ Fairness

\* In addition the run is started again whenever its process is gone.
RetriedSpec == FairSpec /\ WF_vars(Restart)

\* Every process comes to its end by itself, also after a signal.
ProcessEnds == up ~> ~up

\* A published artifact whose manifest line nobody is about to write.
Orphans ==
    {a \in artifacts \ manifest :
        ~(up /\ pc[a.state] = "append" /\ InHand(a.state) = a)}

AllCompleted == \A s \in States : cp[s].status = "COMPLETED"

\* An artifact without its line is the only thing a restart cannot get over:
\* where none arises, the retried run completes every state and keeps it so.
ResumesUnlessOrphaned == [](Orphans = {}) => <>[]AllCompleted

\* "State C -> FAILED, Restart, State C -> RETRY": a run that is started again
\* often enough completes.
ResumesAlways == <>AllCompleted

=============================================================================
