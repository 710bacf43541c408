-------------------------------- MODULE Loader --------------------------------
(***************************************************************************)
(* scripts/load_to_snowflake.py: load the batches of a run from the stage  *)
(* into the RAW table and record each in the ingestion ledger.  A loader   *)
(* reads one manifest when it starts and works through its units: the      *)
(* compacted files if there is a compaction manifest, single batches if    *)
(* not.  Each statement is a step; the connection is opened without        *)
(* autocommit=False (create_connection, 161-179), so a statement is        *)
(* durable when it ends, and commit and rollback have nothing to do.       *)
(*                                                                         *)
(* Snowflake is external: a COPY of a file it has load metadata for loads  *)
(* nothing, an INSERT ... SELECT loads whatever it is asked for, and a     *)
(* statement whose client is gone may still complete later.                *)
(***************************************************************************)
EXTENDS Staging

CONSTANT Loaders        \* processes that may load the run, at once or one after the other

VARIABLES
    raw,        \* per batch: how many copies of its rows the RAW table holds
    copied,     \* the batches whose file COPY has load metadata for
    ledger,     \* per batch: LOAD_STATUS of its ledger row, or "none"
    detached,   \* statements still running on the server after their client gave up
    lpc,        \* per loader: where it stands, see LoaderPCs
    files,      \* per loader: it read a compaction manifest
    left,       \* per loader: the units (sets of batches) it has not begun
    unit,       \* per loader: the unit in hand
    seen,       \* per loader: batches of the unit that were LOADED when it read the ledger
    missing,    \* per loader: batches_to_load
    overlapped, \* history: two loaders, or one and a detached statement, ran at once
    asked,      \* history, per loader: the batches of its manifest, {} once it overlapped
    vouched     \* history: the batches for which a loader that never overlapped exited 0

history    == <<overlapped, asked, vouched>>
warehouse  == <<raw, copied, ledger, detached>>
memory     == <<files, left, unit, seen, missing>>
loaderVars == <<warehouse, lpc, memory, history>>

\* Where a loader stands.
\*   off      no process
\*   next     between two units
\*   copy     has seen the batch unloaded in the ledger, will COPY it
\*   counts   has read the ledger for a file, will read the RAW counts
\*   insert   has read the RAW counts, will INSERT what is missing
\*   recount  has inserted, will read the RAW counts again
\*   merge    rows reconciled, will MERGE status LOADED
\*   fail     in the exception handler, will MERGE status FAILED
LoaderPCs == {"off", "next", "copy", "counts", "insert", "recount", "merge", "fail"}

Running == {l \in Loaders : lpc[l] # "off"}

-----------------------------------------------------------------------------
(* Helpers *)

\* Loader l goes on to pc.
Goto(l, pc) == lpc' = [lpc EXCEPT ![l] = pc]

\* The process of l ends, with its exit code, and its memory is gone.
EndLoader(l, code) ==
    /\ Goto(l, "off")
    /\ files'   = [files EXCEPT ![l] = FALSE]
    /\ left'    = [left EXCEPT ![l] = {}]
    /\ unit'    = [unit EXCEPT ![l] = {}]
    /\ seen'    = [seen EXCEPT ![l] = {}]
    /\ missing' = [missing EXCEPT ![l] = {}]
    /\ asked'   = [asked EXCEPT ![l] = {}]
    /\ vouched' = IF code = 0 THEN vouched \cup asked[l] ELSE vouched
    /\ UNCHANGED overlapped

-----------------------------------------------------------------------------
(* Variants of the definitions below, as a plausible mistake in the code would have them. *)

\* The error message lands in the column of the status.
Bug_MessageAsStatus(bs, status) == [b \in Plan |-> IF b \in bs THEN "message" ELSE ledger[b]]
\* What to load is decided by the ledger instead of the RAW counts.
Bug_MissingByLedger(l) == {b \in unit[l] : ledger[b] # "LOADED"}
\* The exception handler marks the whole file, not only what it was to load.
Bug_FailWholeUnit(l) == unit[l]
\* The status is recorded before the rows are in.
Bug_LedgerFirst(l) ==
    /\ lpc[l] = "counts"
    /\ missing' = [missing EXCEPT ![l] = {b \in unit[l] : raw[b] = 0}]
    /\ ledger' = [b \in Plan |-> IF b \in unit[l] THEN "LOADED" ELSE ledger[b]]
    /\ seen' = [seen EXCEPT ![l] = {}]
    /\ Goto(l, "insert")
    /\ UNCHANGED <<extracted, stage, faults, raw, copied, detached, files, left, unit, history>>
\* Rows without a LOADED ledger row are taken for the rows of somebody else.
Bug_RefuseUnrecorded(l) ==
    /\ lpc[l] = "counts"
    /\ IF \E b \in unit[l] : raw[b] > 0 /\ b \notin seen[l]
       THEN EndLoader(l, 1)
       ELSE /\ missing' = [missing EXCEPT ![l] = {b \in unit[l] : raw[b] = 0}]
            /\ seen' = [seen EXCEPT ![l] = {}]
            /\ Goto(l, "insert")
            /\ UNCHANGED <<files, left, unit, history>>
    /\ UNCHANGED <<extracted, stage, faults, warehouse>>

-----------------------------------------------------------------------------
\* The ledger after a MERGE of a status for some batches.
Merged(bs, status) == [b \in Plan |-> IF b \in bs THEN status ELSE ledger[b]]

\* The RAW table after the rows of some batches were added.
Added(bs) == [b \in Plan |-> IF b \in bs THEN raw[b] + 1 ELSE raw[b]]

\* The units of the manifest on the stage.
Units == IF stage # {} THEN {c.batches : c \in stage} ELSE {{b} : b \in extracted}

\* The order in which units are taken: by state, and by offset or index of the file.
ComesFirst(u, units) == \A v \in units \ {u} : \E b \in u : \A c \in v : Before(b, c)

\* What the INSERT of a file is to load: the batches without rows.
Missing(l) == {b \in unit[l] : raw[b] = 0}

\* The rows of every batch of the file are there exactly once.
Reconciled(l) == \A b \in unit[l] : raw[b] = 1

\* Whose status the exception handler records.
Pending(l) == IF files[l] THEN missing[l] ELSE unit[l]

\* The statements that change something, by where their loader stands.
Writes == {"copy", "insert", "merge", "fail"}

\* The statement l is about to send: what it does, and to which batches.
Statement(l) ==
    [does |-> lpc[l],
     to |-> CASE lpc[l] = "insert" -> missing[l]
              [] lpc[l] = "fail"   -> Pending(l)
              [] OTHER             -> unit[l]]

\* The statement adds rows: an INSERT, or a COPY of a file without load metadata.
Adds(s) == s.does = "insert" \/ (s.does = "copy" /\ ~(s.to \subseteq copied))

\* What the warehouse does when a statement completes.
Executed(s) ==
    /\ raw' = IF Adds(s) THEN Added(s.to) ELSE raw
    /\ copied' = IF s.does = "copy" THEN copied \cup s.to ELSE copied
    /\ ledger' = CASE s.does = "merge" -> Merged(s.to, "LOADED")
                   [] s.does = "fail"  -> Merged(s.to, "FAILED")
                   [] OTHER            -> ledger

-----------------------------------------------------------------------------
LoaderInit ==
    /\ raw = [b \in Plan |-> 0] /\ copied = {}
    /\ ledger = [b \in Plan |-> "none"] /\ detached = {}
    /\ lpc = [l \in Loaders |-> "off"]
    /\ files = [l \in Loaders |-> FALSE] /\ left = [l \in Loaders |-> {}] /\ unit = [l \in Loaders |-> {}]
    /\ seen = [l \in Loaders |-> {}] /\ missing = [l \in Loaders |-> {}]
    /\ overlapped = FALSE /\ asked = [l \in Loaders |-> {}] /\ vouched = {}

\* A process starts and reads the manifest: the compaction manifest if there is one.  That
\* it starts while another runs (a second pipeline, a run by hand) is bounded as a fault.
StartLoader(l) ==
    /\ lpc[l] = "off" /\ extracted # {}
    /\ files' = [files EXCEPT ![l] = stage # {}]
    /\ left'  = [left EXCEPT ![l] = Units]
    /\ Goto(l, "next")
    /\ IF Running = {} /\ detached = {}
       THEN asked' = [asked EXCEPT ![l] = UNION Units] /\ UNCHANGED overlapped
       ELSE asked' = [k \in Loaders |-> {}] /\ overlapped' = TRUE
    /\ IF Running = {} THEN NoFault ELSE Fault
    /\ UNCHANGED <<extracted, stage, warehouse, unit, seen, missing, vouched>>

\* The next batch of the single-batch path is LOADED: it is skipped.
SkipBatch(l) ==
    /\ lpc[l] = "next" /\ ~files[l]
    /\ \E u \in left[l] :
        /\ ComesFirst(u, left[l]) /\ \A b \in u : ledger[b] = "LOADED"
        /\ left' = [left EXCEPT ![l] = @ \ {u}]
    /\ UNCHANGED <<extracted, stage, faults, warehouse, lpc, files, unit, seen, missing,
                   history>>

\* The next unit in the order of the manifest is taken up and its ledger rows are read.
TakeUnit(l) ==
    /\ lpc[l] = "next"
    /\ \E u \in left[l] :
        /\ ComesFirst(u, left[l])
        /\ files[l] \/ \E b \in u : ledger[b] # "LOADED"
        /\ left' = [left EXCEPT ![l] = @ \ {u}]
        /\ unit' = [unit EXCEPT ![l] = u]
        /\ seen' = [seen EXCEPT ![l] = {b \in u : ledger[b] = "LOADED"}]
    /\ Goto(l, IF files[l] THEN "counts" ELSE "copy")
    /\ UNCHANGED <<extracted, stage, faults, warehouse, files, missing, history>>

(* The RAW counts of a file are read.  A LOADED batch without rows, or rows  *)
(* that are not exactly those of the batch, end the run without a record in  *)
(* the ledger: these errors are raised outside the try block.                *)
ReadCounts(l) ==
    /\ lpc[l] = "counts"
    /\ IF Missing(l) \cap seen[l] # {} \/ \E b \in unit[l] : raw[b] > 1
       THEN EndLoader(l, 1)
       ELSE /\ missing' = [missing EXCEPT ![l] = Missing(l)]
            /\ seen' = [seen EXCEPT ![l] = {}]
            /\ Goto(l, "insert")
            /\ UNCHANGED <<files, left, unit, history>>
    /\ UNCHANGED <<extracted, stage, faults, warehouse>>

InsertMissing(l) ==
    /\ lpc[l] = "insert"
    /\ raw' = Added(missing[l])
    /\ Goto(l, "recount")
    /\ UNCHANGED <<extracted, stage, faults, copied, ledger, detached, memory, history>>

Recount(l) ==
    /\ lpc[l] = "recount"
    /\ Goto(l, IF Reconciled(l) THEN "merge" ELSE "fail")
    /\ UNCHANGED <<extracted, stage, faults, warehouse, memory, history>>

\* COPY of one batch file: a file with load metadata is not loaded again, which the
\* loader takes for an error of the statement.
CopyBatch(l) ==
    /\ lpc[l] = "copy"
    /\ IF unit[l] \subseteq copied
       THEN Goto(l, "fail") /\ UNCHANGED <<raw, copied>>
       ELSE /\ raw' = Added(unit[l]) /\ copied' = copied \cup unit[l]
            /\ Goto(l, "merge")
    /\ UNCHANGED <<extracted, stage, faults, ledger, detached, memory, history>>

MergeLoaded(l) ==
    /\ lpc[l] = "merge"
    /\ ledger' = Merged(unit[l], "LOADED")
    /\ unit' = [unit EXCEPT ![l] = {}] /\ missing' = [missing EXCEPT ![l] = {}]
    /\ Goto(l, "next")
    /\ UNCHANGED <<extracted, stage, faults, raw, copied, detached, files, left, seen,
                   history>>

\* The statement l was waiting for goes on without it.
Detaches(l) ==
    /\ lpc[l] \in Writes /\ Statement(l).to # {}
    /\ detached' = detached \cup {Statement(l)}

\* A statement inside the try block raises: nothing happened, or it completed and only
\* its answer was lost, or the server is still at it.
StatementFails(l) ==
    /\ lpc[l] \in {"insert", "recount", "copy", "merge"}
    /\ Fault /\ Goto(l, "fail")
    /\ \/ UNCHANGED warehouse
       \/ lpc[l] # "recount" /\ Executed(Statement(l)) /\ UNCHANGED detached
       \/ Detaches(l) /\ UNCHANGED <<raw, copied, ledger>>
    /\ UNCHANGED <<extracted, stage, memory, history>>

\* The exception handler records the failure if it can, and the run ends with exit code 1.
RecordFailure(l) ==
    /\ lpc[l] = "fail"
    /\ \/ NoFault /\ ledger' = Merged(Pending(l), "FAILED") /\ UNCHANGED detached
       \/ Fault /\ UNCHANGED ledger /\ (UNCHANGED detached \/ Detaches(l))
    /\ EndLoader(l, 1)
    /\ UNCHANGED <<extracted, stage, raw, copied>>

\* A statement outside the try block raises.
ReadFails(l) ==
    /\ lpc[l] \in {"next", "counts"} /\ Fault
    /\ EndLoader(l, 1)
    /\ UNCHANGED <<extracted, stage, warehouse>>

FinishLoader(l) ==
    /\ lpc[l] = "next" /\ left[l] = {}
    /\ EndLoader(l, 0)
    /\ UNCHANGED <<extracted, stage, faults, warehouse>>

\* The process is killed; the statement it was waiting for may go on.
KillLoader(l) ==
    /\ lpc[l] # "off" /\ Fault
    /\ UNCHANGED detached \/ Detaches(l)
    /\ EndLoader(l, 137)
    /\ UNCHANGED <<extracted, stage, raw, copied, ledger>>

\* A detached statement completes.
LateStatement ==
    /\ \E s \in detached : Executed(s) /\ detached' = detached \ {s}
    /\ UNCHANGED <<extracted, stage, faults, lpc, memory, history>>

LoaderStep(l) ==
    \/ SkipBatch(l) \/ TakeUnit(l) \/ ReadCounts(l) \/ InsertMissing(l) \/ Recount(l)
    \/ CopyBatch(l) \/ MergeLoaded(l) \/ RecordFailure(l) \/ FinishLoader(l)

LoaderNext ==
    \/ \E l \in Loaders :
         StartLoader(l) \/ LoaderStep(l) \/ StatementFails(l) \/ ReadFails(l) \/ KillLoader(l)
    \/ LateStatement

=============================================================================
