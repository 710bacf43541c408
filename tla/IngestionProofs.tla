--------------------------- MODULE IngestionProofs ---------------------------
(***************************************************************************)
(* Proofs about Ingestion, for any number of loaders, faults and batches   *)
(* and any limit of the compacted files: a compaction that exits 0 is      *)
(* staged, a LOADED ledger row is never ahead of the rows, rows are        *)
(* doubled only by overlapping loads, and exit 0 of a loader that ran      *)
(* alone is final.                                                         *)
(***************************************************************************)
EXTENDS Ingestion, TLAPS

-----------------------------------------------------------------------------
(* The parts of TypeOK the invariants rest on *)

Memory ==
    /\ lpc \in [Loaders -> LoaderPCs] /\ files \in [Loaders -> BOOLEAN]
    /\ left = [l \in Loaders |-> left[l]]
    /\ unit = [l \in Loaders |-> unit[l]]
    /\ missing = [l \in Loaders |-> missing[l]]
    /\ raw \in [Plan -> Nat]

\* A step of l leaves the memory of the others alone.
Others(l) ==
    \A k \in Loaders \ {l} :
        /\ lpc'[k] = lpc[k] /\ (files'[k] <=> files[k]) /\ left'[k] = left[k]
        /\ unit'[k] = unit[k] /\ missing'[k] = missing[k]

\* A step that goes on to pc with these units left, this unit and these batches to load.
Becomes(l, pc, us, u, bs) ==
    /\ Memory' /\ Others(l) /\ (files'[l] <=> files[l])
    /\ lpc'[l] = pc /\ left'[l] = us /\ unit'[l] = u /\ missing'[l] = bs

LEMMA Going ==
    ASSUME Memory, NEW l \in Loaders, NEW pc \in LoaderPCs, Goto(l, pc),
           files' = files, left' = left, unit' = unit, missing' = missing,
           raw' \in [Plan -> Nat]
    PROVE  Becomes(l, pc, left[l], unit[l], missing[l])
<1>1. lpc' = [lpc EXCEPT ![l] = pc]
  BY DEF Goto
<1>2. lpc' \in [Loaders -> LoaderPCs] /\ lpc'[l] = pc
      /\ \A k \in Loaders \ {l} : lpc'[k] = lpc[k]
  BY <1>1 DEF Memory
<1>3. Memory'
  BY <1>2 DEF Memory
<1>4. Others(l)
  BY <1>2 DEF Others
<1> QED
  BY <1>2, <1>3, <1>4 DEF Becomes

LEMMA Ending ==
    ASSUME Memory, NEW l \in Loaders, NEW code, EndLoader(l, code), raw' = raw
    PROVE  /\ Memory' /\ Others(l) /\ lpc'[l] = "off" /\ ~ files'[l]
           /\ overlapped' = overlapped
<1>1. /\ lpc' = [lpc EXCEPT ![l] = "off"] /\ files' = [files EXCEPT ![l] = FALSE]
      /\ left' = [left EXCEPT ![l] = {}] /\ unit' = [unit EXCEPT ![l] = {}]
      /\ missing' = [missing EXCEPT ![l] = {}] /\ overlapped' = overlapped
  BY DEF EndLoader, Goto
<1>2. lpc' \in [Loaders -> LoaderPCs] /\ lpc'[l] = "off"
      /\ \A k \in Loaders \ {l} : lpc'[k] = lpc[k]
  BY <1>1 DEF Memory, LoaderPCs
<1>3. files' \in [Loaders -> BOOLEAN] /\ ~ files'[l]
  BY <1>1 DEF Memory
<1>4. \A k \in Loaders \ {l} : files'[k] <=> files[k]
  BY <1>1 DEF Memory
<1>5. left' = [k \in Loaders |-> left'[k]] /\ \A k \in Loaders \ {l} : left'[k] = left[k]
  BY <1>1 DEF Memory
<1>6. unit' = [k \in Loaders |-> unit'[k]] /\ \A k \in Loaders \ {l} : unit'[k] = unit[k]
  BY <1>1 DEF Memory
<1>7. missing' = [k \in Loaders |-> missing'[k]]
      /\ \A k \in Loaders \ {l} : missing'[k] = missing[k]
  BY <1>1 DEF Memory
<1>8. Memory'
  BY <1>2, <1>3, <1>5, <1>6, <1>7 DEF Memory
<1>9. Others(l)
  BY <1>2, <1>4, <1>5, <1>6, <1>7 DEF Others
<1> QED
  BY <1>1, <1>2, <1>3, <1>8, <1>9

LEMMA AddedRows ==
    ASSUME Memory, NEW bs, raw' = Added(bs)
    PROVE  /\ raw' \in [Plan -> Nat]
           /\ \A b \in Plan : raw'[b] = IF b \in bs THEN raw[b] + 1 ELSE raw[b]
           /\ \A b \in Plan : raw[b] > 0 => raw'[b] > 0
<1>1. \A b \in Plan : raw[b] \in Nat /\ raw[b] + 1 \in Nat
  BY DEF Memory
<1>2. \A b \in Plan : raw'[b] = IF b \in bs THEN raw[b] + 1 ELSE raw[b]
  BY DEF Added
<1>3. raw' \in [Plan -> Nat]
  BY <1>1 DEF Added
<1> QED
  BY <1>1, <1>2, <1>3

\* What a statement of l does when it completes.
LEMMA ExecutedStatement ==
    ASSUME NEW l, Executed(Statement(l)), lpc[l] \in {"insert", "copy", "merge"}
    PROVE  /\ lpc[l] = "insert" =>
                 raw' = Added(missing[l]) /\ copied' = copied /\ ledger' = ledger
           /\ lpc[l] = "copy" /\ unit[l] \subseteq copied =>
                 raw' = raw /\ copied' = copied /\ ledger' = ledger
           /\ lpc[l] = "copy" /\ ~ (unit[l] \subseteq copied) =>
                 raw' = Added(unit[l]) /\ copied' = copied \cup unit[l] /\ ledger' = ledger
           /\ lpc[l] = "merge" =>
                 raw' = raw /\ copied' = copied /\ ledger' = Merged(unit[l], "LOADED")
<1>1. /\ Statement(l).does = lpc[l]
      /\ lpc[l] = "insert" => Statement(l).to = missing[l]
      /\ lpc[l] \in {"copy", "merge"} => Statement(l).to = unit[l]
  BY DEF Statement
<1>2. CASE lpc[l] = "insert"
  BY <1>1, <1>2 DEF Executed, Adds
<1>3. CASE lpc[l] = "copy"
  BY <1>1, <1>3 DEF Executed, Adds
<1>4. CASE lpc[l] = "merge"
  BY <1>1, <1>4 DEF Executed, Adds
<1> QED
  BY <1>2, <1>3, <1>4

\* What a detached statement does when it completes.
LEMMA ExecutedRows ==
    ASSUME Memory, NEW s, Executed(s)
    PROVE  /\ raw' \in [Plan -> Nat]
           /\ \A b \in Plan : raw'[b] = IF Adds(s) /\ b \in s.to THEN raw[b] + 1 ELSE raw[b]
           /\ \A b \in Plan : raw[b] > 0 => raw'[b] > 0
           /\ copied' = IF s.does = "copy" THEN copied \cup s.to ELSE copied
<1>1. CASE Adds(s)
  <2>1. raw' = Added(s.to)
    BY <1>1 DEF Executed
  <2> QED
    BY <1>1, <2>1, AddedRows DEF Executed
<1>2. CASE ~ Adds(s)
  BY <1>2 DEF Executed, Memory
<1> QED
  BY <1>1, <1>2

LEMMA MemoryInit == Init => Memory
<1> SUFFICES ASSUME Init PROVE Memory
  OBVIOUS
<1>1. "off" \in LoaderPCs
  BY DEF LoaderPCs
<1>2. lpc \in [Loaders -> LoaderPCs] /\ raw \in [Plan -> Nat]
  BY <1>1 DEF Init, LoaderInit
<1>3. files \in [Loaders -> BOOLEAN]
  BY DEF Init, LoaderInit
<1>4. left = [l \in Loaders |-> left[l]] /\ unit = [l \in Loaders |-> unit[l]]
      /\ missing = [l \in Loaders |-> missing[l]]
  BY DEF Init, LoaderInit
<1> QED
  BY <1>2, <1>3, <1>4 DEF Memory

-----------------------------------------------------------------------------
(* The stage: once it has a compaction manifest it keeps one *)

Compacting ==
    /\ cpc # "off" => snapshot # {}
    /\ cpc = "sync" => kept # {}

LEMMA CompactingInit == Init => Compacting
BY DEF Init, CompactionInit, Compacting

LEMMA CompactingStep == Compacting /\ [Next]_vars => Compacting' /\ (stage # {} => stage' # {})
<1> SUFFICES ASSUME Compacting, [Next]_vars
             PROVE  Compacting' /\ (stage # {} => stage' # {})
  OBVIOUS
<1> USE DEF Compacting
<1>1. CASE Extend /\ UNCHANGED <<compactionVars, loaderVars>>
  BY <1>1 DEF Extend, compactionVars
<1>2. CASE StartCompaction
  BY <1>2 DEF StartCompaction, Reusable, durable
<1>3. CASE TakeBatch \/ PublishChunk
  BY <1>3 DEF TakeBatch, PublishChunk, durable
<1>4. CASE RejectBatch \/ BuildFails \/ KillCompaction
  BY <1>4 DEF RejectBatch, BuildFails, KillCompaction, EndCompaction, durable
<1>5. CASE WriteCompactionManifest
  <2>1. built # {}
    <3> SUFFICES ASSUME built = {} PROVE FALSE
      OBVIOUS
    <3>1. Batches(built) = {}
      BY DEF Batches
    <3>2. Todo = snapshot
      BY <1>5, <3>1 DEF WriteCompactionManifest, Todo
    <3> QED
      BY <1>5, <3>2 DEF WriteCompactionManifest
  <2> QED
    BY <1>5, <2>1 DEF WriteCompactionManifest
<1>6. CASE SyncCompactionManifest \/ SyncFails
  BY <1>6 DEF SyncCompactionManifest, SyncFails, EndCompaction, durable
<1>7. CASE LoaderNext /\ UNCHANGED compactionVars
  <2>1. stage' = stage
    BY <1>7 DEF LoaderNext, LoaderStep, StartLoader, SkipBatch, TakeUnit, ReadCounts,
                InsertMissing, Recount, CopyBatch, MergeLoaded, RecordFailure, FinishLoader,
                StatementFails, ReadFails, KillLoader, LateStatement
  <2> QED
    BY <1>7, <2>1 DEF compactionVars
<1>8. CASE UNCHANGED vars
  BY <1>8 DEF vars, compactionVars
<1> QED
  BY <1>1, <1>2, <1>3, <1>4, <1>5, <1>6, <1>7, <1>8
     DEF Next, CompactionNext, CompactionStep

-----------------------------------------------------------------------------
(* The invariant *)

\* What holds of one loader.
OnPath(k) ==
    /\ lpc[k] \in {"counts", "insert", "recount"} => files[k]
    /\ lpc[k] = "copy" => ~ files[k] /\ \E b : unit[k] = {b}
    /\ lpc[k] # "off" /\ ~ files[k] => \A u \in left[k] : \E b : u = {b}
    /\ files[k] => stage # {}
RowsInHand(k) ==
    /\ lpc[k] = "merge" => \A b \in unit[k] \cap Plan : raw[b] > 0
    /\ lpc[k] = "insert" /\ ~ overlapped => \A b \in missing[k] \cap Plan : raw[b] = 0
Good(k) == OnPath(k) /\ RowsInHand(k)

\* What holds of a statement that lost its client.
Adrift(s) ==
    /\ s.does = "copy" => \E b : s.to = {b}
    /\ s.does = "merge" => \A b \in s.to \cap Plan : raw[b] > 0

\* As long as loads have not overlapped, one loader runs, or one statement that lost its
\* client and the MERGE of its failure; what it would add nobody else has loaded.
OneAtATime ==
    ~ overlapped =>
        /\ \A k, m \in Running : k = m
        /\ detached # {} => \A k \in Loaders : lpc[k] \in {"off", "fail"}
        /\ \A s, t \in detached : s.does # "fail" /\ t.does # "fail" => s = t
        /\ \A s \in detached : Adds(s) => \A b \in s.to \cap Plan : raw[b] = 0

\* And before the first compacted file is loaded, COPY's load metadata covers every row.
CopiedCovers ==
    ~ overlapped /\ (stage = {} \/ \E k \in Running : ~ files[k]) =>
        /\ \A s \in detached : s.does # "insert"
        /\ \A b \in Plan : raw[b] > 0 => b \in copied

Once == ~ overlapped => \A b \in Plan : raw[b] <= 1

Invariant ==
    /\ Memory /\ Compacting /\ \A k \in Loaders : Good(k)
    /\ \A s \in detached : Adrift(s)
    /\ OneAtATime /\ CopiedCovers /\ Once /\ LoadedHasRows

LEMMA InvariantInit == Init => Invariant
<1> SUFFICES ASSUME Init PROVE Invariant
  OBVIOUS
<1>1. \A k \in Loaders : lpc[k] = "off" /\ ~ files[k]
  BY DEF Init, LoaderInit
<1>2. \A b \in Plan : raw[b] = 0 /\ ledger[b] = "none"
  BY DEF Init, LoaderInit
<1>3. detached = {} /\ Running = {}
  BY <1>1 DEF Init, LoaderInit, Running
<1>4. \A k \in Loaders : Good(k)
  BY <1>1 DEF Good, OnPath, RowsInHand
<1>5. OneAtATime /\ CopiedCovers /\ Once /\ LoadedHasRows
  BY <1>1, <1>2, <1>3 DEF OneAtATime, CopiedCovers, Once, LoadedHasRows
<1> QED
  BY <1>3, <1>4, <1>5, MemoryInit, CompactingInit DEF Invariant

\* The other loaders do not notice a step that adds rows, unless loads overlap.
LEMMA OthersStayGood ==
    ASSUME Invariant, NEW l \in Loaders, Others(l), stage' = stage,
           overlapped => overlapped',
           \A b \in Plan : raw[b] > 0 => raw'[b] > 0,
           raw' = raw \/ lpc[l] # "off"
    PROVE  \A k \in Loaders \ {l} : Good(k)'
<1> SUFFICES ASSUME NEW k \in Loaders \ {l} PROVE Good(k)'
  OBVIOUS
<1>1. Good(k) /\ lpc'[k] = lpc[k] /\ (files'[k] <=> files[k]) /\ left'[k] = left[k]
      /\ unit'[k] = unit[k] /\ missing'[k] = missing[k]
  BY DEF Invariant, Others
<1>2. OnPath(k)'
  BY <1>1 DEF Good, OnPath
<1>3. ASSUME lpc[k] = "insert", ~ overlapped' PROVE raw' = raw
  <2>1. CASE lpc[l] # "off"
    <3>1. l \in Running /\ k \in Running /\ ~ overlapped
      BY <1>3, <2>1 DEF Running
    <3> QED
      BY <3>1 DEF Invariant, OneAtATime
  <2> QED
    BY <2>1
<1>4. RowsInHand(k)'
  BY <1>1, <1>3 DEF Good, RowsInHand
<1> QED
  BY <1>2, <1>4 DEF Good

-----------------------------------------------------------------------------
(* What steps of a loader do to the invariant *)

\* A step that leaves the rows alone.
LEMMA QuietStep ==
    ASSUME Invariant, Compacting', NEW l \in Loaders, lpc[l] # "off",
           Memory', Others(l), stage' = stage, overlapped' = overlapped,
           raw' = raw, copied' = copied, detached' = detached,
           lpc'[l] = "off" \/ (files'[l] <=> files[l]),
           lpc[l] = "fail" => lpc'[l] = "off",
           Good(l)', LoadedHasRows'
    PROVE  Invariant'
<1>1. \A k \in Loaders : Good(k)'
  BY OthersStayGood
<1>2. Running' \subseteq Running /\ l \in Running
  BY DEF Running, Others
<1>3. OneAtATime'
  <2> SUFFICES ASSUME ~ overlapped PROVE OneAtATime'
    BY DEF OneAtATime
  <2>1. \A k, m \in Running' : k = m
    BY <1>2 DEF Invariant, OneAtATime
  <2>2. ASSUME detached # {}, NEW k \in Loaders PROVE lpc'[k] \in {"off", "fail"}
    <3>1. lpc[k] \in {"off", "fail"} /\ lpc[l] \in {"off", "fail"}
      BY <2>2 DEF Invariant, OneAtATime
    <3> QED
      BY <3>1 DEF Others
  <2> QED
    BY <2>1, <2>2 DEF Invariant, OneAtATime, Adds
<1>4. CopiedCovers'
  <2>1. ASSUME NEW k \in Running', ~ files'[k] PROVE k \in Running /\ ~ files[k]
    BY <1>2, <2>1 DEF Running, Others
  <2> QED
    BY <2>1 DEF Invariant, CopiedCovers
<1>5. Once' /\ \A s \in detached' : Adrift(s)'
  BY DEF Invariant, Once, Adrift
<1> QED
  BY <1>1, <1>3, <1>4, <1>5 DEF Invariant

\* A step that ends the process of a loader and leaves the rows alone.
LEMMA EndStep ==
    ASSUME Invariant, Compacting', NEW l \in Loaders, lpc[l] # "off",
           NEW code, EndLoader(l, code), stage' = stage,
           raw' = raw, copied' = copied, detached' = detached, LoadedHasRows'
    PROVE  Invariant'
<1>1. Memory
  BY DEF Invariant
<1>2. Memory' /\ Others(l) /\ lpc'[l] = "off" /\ ~ files'[l] /\ overlapped' = overlapped
  BY <1>1, Ending
<1>3. Good(l)'
  BY <1>2 DEF Good, OnPath, RowsInHand
<1> QED
  BY <1>2, <1>3, QuietStep

\* An INSERT or a COPY adds its rows.
LEMMA RowsStep ==
    ASSUME Invariant, Compacting', NEW l \in Loaders, NEW bs, NEW pc \in LoaderPCs,
           Goto(l, pc), memory' = memory, raw' = Added(bs),
           stage' = stage, overlapped' = overlapped, detached' = detached,
           ledger' = ledger,
           \/ /\ lpc[l] = "insert" /\ bs = missing[l] /\ copied' = copied
              /\ pc \in {"recount", "fail"}
           \/ /\ lpc[l] = "copy" /\ bs = unit[l] /\ ~ (bs \subseteq copied)
              /\ copied' = copied \cup bs /\ pc \in {"merge", "fail"}
    PROVE  Invariant'
<1> USE DEF Invariant
<1>1. /\ raw' \in [Plan -> Nat]
      /\ \A b \in Plan : raw'[b] = IF b \in bs THEN raw[b] + 1 ELSE raw[b]
      /\ \A b \in Plan : raw[b] > 0 => raw'[b] > 0
  BY AddedRows
<1>2. files' = files /\ left' = left /\ unit' = unit /\ missing' = missing
  BY DEF memory
<1>3. Becomes(l, pc, left[l], unit[l], missing[l])
  BY <1>1, <1>2, Going
<1>4. Memory' /\ Others(l) /\ lpc'[l] = pc /\ (files'[l] <=> files[l]) /\ unit'[l] = unit[l]
  BY <1>3 DEF Becomes
<1>5. LoadedHasRows'
  BY <1>1 DEF LoadedHasRows
<1>6. Good(l)'
  <2>1. OnPath(l)'
    <3>1. OnPath(l) /\ left'[l] = left[l]
      BY <1>2 DEF Good
    <3> QED
      BY <1>4, <3>1 DEF OnPath
  <2>2. pc = "merge" => \A b \in unit'[l] \cap Plan : raw'[b] > 0
    <3> SUFFICES ASSUME pc = "merge", NEW b \in unit[l] \cap Plan PROVE raw'[b] > 0
      BY <1>4
    <3>1. raw'[b] = raw[b] + 1 /\ raw[b] \in Nat
      BY <1>1 DEF Memory
    <3> QED
      BY <3>1
  <2>3. RowsInHand(l)'
    BY <1>4, <2>2 DEF RowsInHand
  <2> QED
    BY <2>1, <2>3 DEF Good
<1>7. \A k \in Loaders : Good(k)'
  <2>1. lpc[l] # "off" /\ (overlapped => overlapped')
    OBVIOUS
  <2> QED
    BY <1>1, <1>4, <1>6, <2>1, OthersStayGood
<1>8. l \in Running /\ Running' = Running
  BY <1>4 DEF Running, Others
<1>9. ASSUME ~ overlapped
      PROVE  detached = {} /\ \A b \in bs \cap Plan : raw[b] = 0
  <2>1. detached = {}
    BY <1>9 DEF OneAtATime
  <2>2. CASE lpc[l] = "insert"
    BY <1>9, <2>1, <2>2 DEF Good, RowsInHand
  <2>3. CASE lpc[l] = "copy"
    <3>1. ~ files[l] /\ \E b : unit[l] = {b}
      BY <2>3 DEF Good, OnPath
    <3>2. \A b \in bs : b \notin copied
      BY <2>3, <3>1
    <3>3. \A b \in Plan : raw[b] > 0 => b \in copied
      BY <1>8, <1>9, <3>1 DEF CopiedCovers
    <3>4. \A b \in bs \cap Plan : ~ (raw[b] > 0) /\ raw[b] \in Nat
      BY <3>2, <3>3 DEF Memory
    <3> QED
      BY <2>1, <3>4
  <2> QED
    BY <2>1, <2>2, <2>3
<1>10. OneAtATime'
  <2> SUFFICES ASSUME ~ overlapped PROVE OneAtATime'
    BY DEF OneAtATime
  <2>1. detached' = {}
    BY <1>9
  <2> QED
    BY <1>8, <2>1 DEF OneAtATime
<1>11. CopiedCovers'
  <2> SUFFICES ASSUME ~ overlapped, stage = {} \/ \E k \in Running : ~ files[k]
               PROVE  detached' = {} /\ \A b \in Plan : raw'[b] > 0 => b \in copied'
    BY <1>2, <1>8 DEF CopiedCovers
  <2>1. detached = {} /\ \A b \in Plan : raw[b] > 0 => b \in copied
    BY <1>9 DEF CopiedCovers
  <2>2. ~ files[l]
    BY <1>8 DEF OneAtATime, Good, OnPath
  <2>3. copied' = copied \cup bs
    BY <2>2 DEF Good, OnPath
  <2> QED
    BY <1>1, <2>1, <2>3
<1>12. Once'
  <2> SUFFICES ASSUME ~ overlapped, NEW b \in Plan PROVE raw'[b] <= 1
    BY DEF Once
  <2>1. raw[b] \in Nat /\ raw[b] <= 1 /\ (b \in bs => raw[b] = 0)
    BY <1>9 DEF Memory, Once
  <2>2. raw'[b] = IF b \in bs THEN raw[b] + 1 ELSE raw[b]
    BY <1>1
  <2> QED
    BY <2>1, <2>2
<1>13. \A s \in detached' : Adrift(s)'
  BY <1>1 DEF Adrift
<1> QED
  BY <1>4, <1>5, <1>7, <1>10, <1>11, <1>12, <1>13

\* A statement loses its client.
LEMMA DetachStep ==
    ASSUME Invariant, Compacting', NEW l \in Loaders, lpc[l] \in Writes,
           Memory', Others(l), lpc'[l] \in {"off", "fail"},
           lpc[l] = "fail" => lpc'[l] = "off",
           lpc'[l] = "off" => ~ files'[l],
           lpc'[l] = "fail" => OnPath(l)' /\ (files'[l] <=> files[l]),
           stage' = stage, overlapped' = overlapped, raw' = raw, copied' = copied,
           ledger' = ledger, detached' = detached \cup {Statement(l)}
    PROVE  Invariant'
<1> USE DEF Invariant
<1>1. Good(l)'
  BY DEF Good, OnPath, RowsInHand
<1>2. \A k \in Loaders : Good(k)'
  <2>1. lpc[l] # "off"
    BY DEF Writes
  <2> QED
    BY <1>1, <2>1, OthersStayGood
<1>3. LoadedHasRows' /\ Once'
  BY DEF LoadedHasRows, Once
<1>4. Running' \subseteq Running /\ l \in Running
  BY DEF Running, Others, Writes
<1>5. /\ Statement(l).does = lpc[l]
      /\ lpc[l] = "insert" => Statement(l).to = missing[l]
      /\ lpc[l] \in {"copy", "merge"} => Statement(l).to = unit[l]
  BY DEF Statement
<1>6. \A s \in detached' : Adrift(s)'
  <2>1. Adrift(Statement(l))
    BY <1>5 DEF Adrift, Good, OnPath, RowsInHand
  <2> QED
    BY <2>1 DEF Adrift
<1>7. OneAtATime'
  <2> SUFFICES ASSUME ~ overlapped PROVE OneAtATime'
    BY DEF OneAtATime
  <2>1. \A k, m \in Running' : k = m
    BY <1>4 DEF OneAtATime
  <2>2. \A k \in Loaders : lpc'[k] \in {"off", "fail"}
    <3> SUFFICES ASSUME NEW k \in Loaders, k # l PROVE lpc'[k] = "off"
      OBVIOUS
    <3>1. k \notin Running
      BY <1>4 DEF OneAtATime
    <3> QED
      BY <3>1 DEF Running, Others
  <2>3. \A s, t \in detached' : s.does # "fail" /\ t.does # "fail" => s = t
    <3>1. lpc[l] # "fail" => detached = {}
      BY <1>4 DEF OneAtATime, Running
    <3>2. lpc[l] = "fail" => Statement(l).does = "fail"
      BY <1>5
    <3> QED
      BY <3>1, <3>2 DEF OneAtATime
  <2>4. Adds(Statement(l)) => \A b \in Statement(l).to \cap Plan : raw[b] = 0
    <3> SUFFICES ASSUME Adds(Statement(l)), NEW b \in Statement(l).to \cap Plan
                 PROVE  raw[b] = 0
      OBVIOUS
    <3>1. CASE lpc[l] = "insert"
      BY <1>5, <3>1 DEF Good, RowsInHand
    <3>2. CASE lpc[l] = "copy"
      <4>1. ~ files[l] /\ unit[l] = {b} /\ b \notin copied
        BY <1>5, <3>2 DEF Good, OnPath, Adds
      <4>2. raw[b] \in Nat /\ ~ (raw[b] > 0)
        BY <1>4, <4>1 DEF CopiedCovers, Memory
      <4> QED
        BY <4>2
    <3> QED
      BY <1>5, <3>1, <3>2 DEF Adds
  <2>5. \A s \in detached' : Adds(s)' => \A b \in s.to \cap Plan : raw'[b] = 0
    BY <2>4 DEF OneAtATime, Adds
  <2> QED
    BY <2>1, <2>2, <2>3, <2>5 DEF OneAtATime
<1>8. CopiedCovers'
  <2> SUFFICES ASSUME ~ overlapped, stage = {} \/ \E k \in Running' : ~ files'[k]
               PROVE  /\ \A s \in detached : s.does # "insert"
                      /\ lpc[l] # "insert"
                      /\ \A b \in Plan : raw[b] > 0 => b \in copied
    BY <1>5 DEF CopiedCovers
  <2>1. stage = {} \/ ~ files[l]
    <3>1. ASSUME NEW k \in Running', ~ files'[k] PROVE ~ files[l]
      <4>1. k = l
        BY <1>4 DEF OneAtATime
      <4> QED
        BY <3>1, <4>1 DEF Running
    <3> QED
      BY <3>1
  <2>2. lpc[l] # "insert"
    BY <2>1 DEF Good, OnPath
  <2> QED
    BY <1>4, <2>1, <2>2 DEF CopiedCovers
<1> QED
  BY <1>2, <1>3, <1>6, <1>7, <1>8

\* A process starts.
LEMMA StartStep ==
    ASSUME Invariant, Compacting', NEW l \in Loaders, StartLoader(l)
    PROVE  Invariant'
<1> USE DEF Invariant
<1>1. /\ lpc[l] = "off" /\ files' = [files EXCEPT ![l] = stage # {}]
      /\ left' = [left EXCEPT ![l] = Units] /\ Goto(l, "next")
      /\ stage' = stage /\ raw' = raw /\ copied' = copied /\ ledger' = ledger
      /\ detached' = detached /\ unit' = unit /\ missing' = missing
  BY DEF StartLoader, warehouse
<1>2. \/ Running = {} /\ detached = {} /\ overlapped' = overlapped
      \/ overlapped'
  BY DEF StartLoader
<1>3. lpc' = [lpc EXCEPT ![l] = "next"]
  BY <1>1 DEF Goto
<1>4. lpc' \in [Loaders -> LoaderPCs] /\ lpc'[l] = "next"
      /\ \A k \in Loaders \ {l} : lpc'[k] = lpc[k]
  BY <1>3 DEF Memory, LoaderPCs
<1>5. files' \in [Loaders -> BOOLEAN] /\ (files'[l] <=> stage # {})
  BY <1>1 DEF Memory
<1>6. \A k \in Loaders \ {l} : files'[k] <=> files[k]
  BY <1>1 DEF Memory
<1>7. left' = [k \in Loaders |-> left'[k]] /\ left'[l] = Units
      /\ \A k \in Loaders \ {l} : left'[k] = left[k]
  BY <1>1 DEF Memory
<1>8. Memory' /\ Others(l)
  BY <1>1, <1>4, <1>5, <1>6, <1>7 DEF Memory, Others
<1>9. Good(l)'
  <2>1. ~ files'[l] => \A u \in left'[l] : \E b : u = {b}
    BY <1>5, <1>7 DEF Units
  <2> QED
    BY <1>1, <1>4, <1>5, <2>1 DEF Good, OnPath, RowsInHand
<1>10. \A k \in Loaders : Good(k)'
  <2>1. overlapped => overlapped'
    BY <1>2
  <2> QED
    BY <1>1, <1>8, <1>9, <2>1, OthersStayGood
<1>11. LoadedHasRows' /\ Once' /\ \A s \in detached' : Adrift(s)'
  BY <1>1, <1>2 DEF LoadedHasRows, Once, Adrift
<1>12. CASE overlapped'
  BY <1>8, <1>10, <1>11, <1>12 DEF OneAtATime, CopiedCovers
<1>13. CASE Running = {} /\ detached = {} /\ overlapped' = overlapped
  <2>1. Running' \subseteq {l}
    BY <1>8, <1>13 DEF Running, Others
  <2>2. OneAtATime'
    BY <1>1, <1>13, <2>1 DEF OneAtATime
  <2>3. CopiedCovers'
    <3> SUFFICES ASSUME ~ overlapped, stage = {} \/ \E k \in Running' : ~ files'[k]
                 PROVE  \A b \in Plan : raw[b] > 0 => b \in copied
      BY <1>1, <1>13 DEF CopiedCovers
    <3>1. stage = {}
      BY <1>5, <2>1
    <3> QED
      BY <3>1 DEF CopiedCovers
  <2> QED
    BY <1>8, <1>10, <1>11, <2>2, <2>3
<1> QED
  BY <1>2, <1>12, <1>13

\* A detached statement completes.
LEMMA LateStep ==
    ASSUME Invariant, Compacting', LateStatement
    PROVE  Invariant'
<1> USE DEF Invariant
<1>1. PICK s \in detached : Executed(s) /\ detached' = detached \ {s}
  BY DEF LateStatement
<1>2. /\ stage' = stage /\ lpc' = lpc
      /\ files' = files /\ left' = left /\ unit' = unit /\ missing' = missing
      /\ overlapped' = overlapped
  BY DEF LateStatement, memory, history
<1>3. /\ raw' \in [Plan -> Nat]
      /\ \A b \in Plan : raw'[b] = IF Adds(s) /\ b \in s.to THEN raw[b] + 1 ELSE raw[b]
      /\ \A b \in Plan : raw[b] > 0 => raw'[b] > 0
      /\ copied' = IF s.does = "copy" THEN copied \cup s.to ELSE copied
  BY <1>1, ExecutedRows
<1>4. Memory'
  BY <1>2, <1>3 DEF Memory
<1>5. LoadedHasRows'
  <2> SUFFICES ASSUME NEW b \in Plan, ledger'[b] = "LOADED" PROVE raw'[b] > 0
    BY DEF LoadedHasRows
  <2>1. CASE s.does = "merge" /\ b \in s.to
    BY <1>3, <2>1 DEF Adrift
  <2>2. CASE ~ (s.does = "merge" /\ b \in s.to)
    <3>1. ledger[b] = "LOADED"
      BY <1>1, <2>2 DEF Executed, Merged
    <3> QED
      BY <1>3, <3>1 DEF LoadedHasRows
  <2> QED
    BY <2>1, <2>2
<1>6. ASSUME NEW k \in Loaders PROVE Good(k)'
  <2>1. OnPath(k)'
    BY <1>2 DEF Good, OnPath
  <2>2. lpc[k] = "insert" => overlapped
    BY <1>1 DEF OneAtATime
  <2>3. RowsInHand(k)'
    BY <1>2, <1>3, <2>2 DEF Good, RowsInHand
  <2> QED
    BY <2>1, <2>3 DEF Good
<1>7. \A t \in detached' : Adrift(t)'
  BY <1>1, <1>3 DEF Adrift
<1>8. CASE overlapped
  BY <1>2, <1>4, <1>5, <1>6, <1>7, <1>8 DEF OneAtATime, CopiedCovers, Once
<1>9. CASE ~ overlapped
  <2>1. Adds(s) => \A b \in s.to \cap Plan : raw[b] = 0
    BY <1>1, <1>9 DEF OneAtATime
  <2>2. ASSUME NEW t \in detached', Adds(t)', NEW b \in t.to \cap Plan PROVE raw'[b] = 0
    <3>1. t \in detached /\ t # s /\ t.does # "fail" /\ (s.does # "fail" => s = t)
      BY <1>1, <1>9, <2>2 DEF OneAtATime, Adds
    <3>2. s.does = "fail"
      BY <3>1
    <3>3. copied' = copied /\ ~ Adds(s)
      BY <1>3, <3>2 DEF Adds
    <3>4. Adds(t)
      BY <2>2, <3>3 DEF Adds
    <3>5. raw[b] = 0
      BY <1>9, <3>1, <3>4 DEF OneAtATime
    <3> QED
      BY <1>3, <3>3, <3>5
  <2>3. OneAtATime'
    <3>1. /\ \A k, m \in Running : k = m
          /\ \A k \in Loaders : lpc[k] \in {"off", "fail"}
          /\ \A t, u \in detached' : t.does # "fail" /\ u.does # "fail" => t = u
      BY <1>1, <1>9 DEF OneAtATime
    <3>2. Running' = Running
      BY <1>2 DEF Running
    <3> QED
      BY <1>2, <2>2, <3>1, <3>2 DEF OneAtATime
  <2>4. CopiedCovers'
    <3> SUFFICES ASSUME stage = {} \/ \E k \in Running : ~ files[k]
                 PROVE  /\ \A t \in detached' : t.does # "insert"
                        /\ \A b \in Plan : raw'[b] > 0 => b \in copied'
      BY <1>2 DEF CopiedCovers, Running
    <3>1. /\ \A t \in detached : t.does # "insert"
          /\ \A b \in Plan : raw[b] > 0 => b \in copied
      BY <1>9 DEF CopiedCovers
    <3>2. ASSUME NEW b \in Plan, raw'[b] > 0 PROVE b \in copied'
      <4>1. CASE Adds(s) /\ b \in s.to
        BY <1>1, <1>3, <3>1, <4>1 DEF Adds
      <4>2. CASE ~ (Adds(s) /\ b \in s.to)
        BY <1>3, <3>1, <3>2, <4>2
      <4> QED
        BY <4>1, <4>2
    <3> QED
      BY <1>1, <3>1, <3>2
  <2>5. Once'
    <3> SUFFICES ASSUME NEW b \in Plan PROVE raw'[b] <= 1
      BY DEF Once
    <3>1. raw[b] \in Nat /\ raw[b] <= 1 /\ (Adds(s) /\ b \in s.to => raw[b] = 0)
      BY <1>9, <2>1 DEF Memory, Once
    <3>2. raw'[b] = IF Adds(s) /\ b \in s.to THEN raw[b] + 1 ELSE raw[b]
      BY <1>3
    <3> QED
      BY <3>1, <3>2
  <2> QED
    BY <1>4, <1>5, <1>6, <1>7, <2>3, <2>4, <2>5
<1> QED
  BY <1>8, <1>9

\* The extraction and the compaction.
LEMMA StageStep ==
    ASSUME Invariant, Compacting', UNCHANGED loaderVars, stage # {} => stage' # {}
    PROVE  Invariant'
<1> USE DEF Invariant
<1>1. /\ raw' = raw /\ copied' = copied /\ ledger' = ledger /\ detached' = detached
      /\ lpc' = lpc /\ files' = files /\ left' = left /\ unit' = unit /\ missing' = missing
      /\ overlapped' = overlapped
  BY DEF loaderVars, warehouse, memory, history
<1>2. Memory'
  BY <1>1 DEF Memory
<1>3. \A k \in Loaders : Good(k)'
  BY <1>1 DEF Good, OnPath, RowsInHand
<1>4. OneAtATime' /\ Once' /\ LoadedHasRows' /\ \A s \in detached' : Adrift(s)'
  BY <1>1 DEF OneAtATime, Running, Adds, Adrift, Once, LoadedHasRows
<1>5. CopiedCovers'
  BY <1>1 DEF CopiedCovers, Running
<1> QED
  BY <1>2, <1>3, <1>4, <1>5

-----------------------------------------------------------------------------
(* The steps of a loader *)

\* A step that goes on without a statement that writes.
LEMMA GoingStep ==
    ASSUME Invariant, Compacting', NEW l \in Loaders, lpc[l] \notin {"off", "fail"},
           NEW pc \in LoaderPCs, Goto(l, pc), memory' = memory,
           warehouse' = warehouse, stage' = stage, overlapped' = overlapped,
           pc \in {"merge", "fail"},
           pc = "merge" => \A b \in unit[l] \cap Plan : raw[b] > 0
    PROVE  Invariant'
<1> USE DEF Invariant
<1>1. /\ raw' = raw /\ copied' = copied /\ ledger' = ledger /\ detached' = detached
      /\ files' = files /\ left' = left /\ unit' = unit /\ missing' = missing
  BY DEF memory, warehouse
<1>2. raw' \in [Plan -> Nat]
  BY <1>1 DEF Memory
<1>3. Becomes(l, pc, left[l], unit[l], missing[l])
  BY <1>1, <1>2, Going
<1>4. Memory' /\ Others(l) /\ lpc'[l] = pc /\ (files'[l] <=> files[l])
  BY <1>3 DEF Becomes
<1>5. OnPath(l)'
  BY <1>1, <1>4 DEF Good, OnPath
<1>6. RowsInHand(l)'
  BY <1>1, <1>4 DEF RowsInHand
<1>7. LoadedHasRows' /\ Good(l)'
  BY <1>1, <1>5, <1>6 DEF LoadedHasRows, Good
<1> QED
  BY <1>1, <1>4, <1>7, QuietStep

LEMMA SkipStep ==
    ASSUME Invariant, Compacting', NEW l \in Loaders, SkipBatch(l)
    PROVE  Invariant'
<1> USE DEF Invariant
<1>1. PICK u \in left[l] : left' = [left EXCEPT ![l] = @ \ {u}]
  BY DEF SkipBatch
<1>2. /\ lpc[l] = "next" /\ lpc' = lpc /\ files' = files /\ unit' = unit
      /\ missing' = missing /\ stage' = stage /\ overlapped' = overlapped
      /\ raw' = raw /\ copied' = copied /\ ledger' = ledger /\ detached' = detached
  BY DEF SkipBatch, warehouse, history
<1>3. left' = [k \in Loaders |-> left'[k]] /\ left'[l] = left[l] \ {u}
      /\ \A k \in Loaders \ {l} : left'[k] = left[k]
  BY <1>1 DEF Memory
<1>4. Memory' /\ Others(l)
  BY <1>2, <1>3 DEF Memory, Others
<1>5. Good(l)'
  BY <1>2, <1>3 DEF Good, OnPath, RowsInHand
<1>6. LoadedHasRows'
  BY <1>2 DEF LoadedHasRows
<1> QED
  BY <1>2, <1>4, <1>5, <1>6, QuietStep

LEMMA TakeStep ==
    ASSUME Invariant, Compacting', NEW l \in Loaders, TakeUnit(l)
    PROVE  Invariant'
<1> USE DEF Invariant
<1>1. PICK u \in left[l] : /\ left' = [left EXCEPT ![l] = @ \ {u}]
                           /\ unit' = [unit EXCEPT ![l] = u]
  BY DEF TakeUnit
<1>2. /\ lpc[l] = "next" /\ files' = files
      /\ missing' = missing /\ stage' = stage /\ overlapped' = overlapped
      /\ raw' = raw /\ copied' = copied /\ ledger' = ledger /\ detached' = detached
      /\ Goto(l, IF files[l] THEN "counts" ELSE "copy")
  BY DEF TakeUnit, warehouse, history
<1>3. PICK pc \in {"counts", "copy"} : /\ lpc' = [lpc EXCEPT ![l] = pc]
                                       /\ pc = "counts" <=> files[l]
  BY <1>2 DEF Goto
<1>4. lpc' \in [Loaders -> LoaderPCs] /\ lpc'[l] = pc
      /\ \A k \in Loaders \ {l} : lpc'[k] = lpc[k]
  BY <1>3 DEF Memory, LoaderPCs
<1>5. left' = [k \in Loaders |-> left'[k]] /\ left'[l] = left[l] \ {u}
      /\ \A k \in Loaders \ {l} : left'[k] = left[k]
  BY <1>1 DEF Memory
<1>6. unit' = [k \in Loaders |-> unit'[k]] /\ unit'[l] = u
      /\ \A k \in Loaders \ {l} : unit'[k] = unit[k]
  BY <1>1 DEF Memory
<1>7. Memory' /\ Others(l)
  BY <1>2, <1>4, <1>5, <1>6 DEF Memory, Others
<1>8. OnPath(l)'
  <2>1. OnPath(l)
    BY DEF Good
  <2>2. ~ files[l] => \E b : u = {b}
    BY <1>2, <2>1 DEF OnPath
  <2> QED
    BY <1>2, <1>3, <1>4, <1>5, <1>6, <2>1, <2>2 DEF OnPath
<1>9. RowsInHand(l)' /\ LoadedHasRows'
  BY <1>2, <1>4 DEF RowsInHand, LoadedHasRows
<1> QED
  BY <1>2, <1>7, <1>8, <1>9, QuietStep DEF Good

LEMMA ReadCountsStep ==
    ASSUME Invariant, Compacting', NEW l \in Loaders, ReadCounts(l)
    PROVE  Invariant'
<1> USE DEF Invariant
<1>1. /\ lpc[l] = "counts" /\ stage' = stage
      /\ raw' = raw /\ copied' = copied /\ ledger' = ledger /\ detached' = detached
  BY DEF ReadCounts, warehouse
<1>2. LoadedHasRows'
  BY <1>1 DEF LoadedHasRows
<1>3. CASE EndLoader(l, 1)
  BY <1>1, <1>2, <1>3, EndStep
<1>4. CASE /\ missing' = [missing EXCEPT ![l] = Missing(l)] /\ Goto(l, "insert")
           /\ UNCHANGED <<files, left, unit, history>>
  <2>1. lpc' = [lpc EXCEPT ![l] = "insert"]
    BY <1>4 DEF Goto
  <2>2. lpc' \in [Loaders -> LoaderPCs] /\ lpc'[l] = "insert"
        /\ \A k \in Loaders \ {l} : lpc'[k] = lpc[k]
    BY <2>1 DEF Memory, LoaderPCs
  <2>3. missing' = [k \in Loaders |-> missing'[k]] /\ missing'[l] = Missing(l)
        /\ \A k \in Loaders \ {l} : missing'[k] = missing[k]
    BY <1>4 DEF Memory
  <2>4. files' = files /\ left' = left /\ unit' = unit /\ overlapped' = overlapped
    BY <1>4 DEF history
  <2>5. Memory' /\ Others(l)
    BY <1>1, <2>2, <2>3, <2>4 DEF Memory, Others
  <2>6. OnPath(l)'
    BY <1>1, <2>2, <2>4 DEF Good, OnPath
  <2>7. RowsInHand(l)'
    BY <1>1, <2>2, <2>3 DEF RowsInHand, Missing
  <2> QED
    BY <1>1, <1>2, <2>4, <2>5, <2>6, <2>7, QuietStep DEF Good
<1> QED
  BY <1>3, <1>4 DEF ReadCounts

LEMMA MergeStep ==
    ASSUME Invariant, Compacting', NEW l \in Loaders, MergeLoaded(l)
    PROVE  Invariant'
<1> USE DEF Invariant
<1>1. /\ lpc[l] = "merge" /\ ledger' = Merged(unit[l], "LOADED")
      /\ unit' = [unit EXCEPT ![l] = {}] /\ missing' = [missing EXCEPT ![l] = {}]
      /\ Goto(l, "next") /\ files' = files /\ left' = left /\ stage' = stage
      /\ raw' = raw /\ copied' = copied /\ detached' = detached
      /\ overlapped' = overlapped
  BY DEF MergeLoaded, history
<1>2. lpc' = [lpc EXCEPT ![l] = "next"]
  BY <1>1 DEF Goto
<1>3. lpc' \in [Loaders -> LoaderPCs] /\ lpc'[l] = "next"
      /\ \A k \in Loaders \ {l} : lpc'[k] = lpc[k]
  BY <1>2 DEF Memory, LoaderPCs
<1>4. unit' = [k \in Loaders |-> unit'[k]] /\ \A k \in Loaders \ {l} : unit'[k] = unit[k]
  BY <1>1 DEF Memory
<1>5. missing' = [k \in Loaders |-> missing'[k]]
      /\ \A k \in Loaders \ {l} : missing'[k] = missing[k]
  BY <1>1 DEF Memory
<1>6. Memory' /\ Others(l)
  BY <1>1, <1>3, <1>4, <1>5 DEF Memory, Others
<1>7. Good(l)'
  BY <1>1, <1>3 DEF Good, OnPath, RowsInHand
<1>8. LoadedHasRows'
  BY <1>1 DEF Good, RowsInHand, LoadedHasRows, Merged
<1> QED
  BY <1>1, <1>6, <1>7, <1>8, QuietStep

LEMMA InsertStep ==
    ASSUME Invariant, Compacting', NEW l \in Loaders, InsertMissing(l)
    PROVE  Invariant'
<1>1. /\ lpc[l] = "insert" /\ raw' = Added(missing[l]) /\ Goto(l, "recount")
      /\ memory' = memory /\ stage' = stage /\ copied' = copied /\ ledger' = ledger
      /\ detached' = detached /\ overlapped' = overlapped
  BY DEF InsertMissing, history
<1>2. "recount" \in LoaderPCs
  BY DEF LoaderPCs
<1> QED
  BY <1>1, <1>2, RowsStep

LEMMA RecountStep ==
    ASSUME Invariant, Compacting', NEW l \in Loaders, Recount(l)
    PROVE  Invariant'
<1>1. /\ lpc[l] = "recount" /\ memory' = memory /\ warehouse' = warehouse
      /\ stage' = stage /\ overlapped' = overlapped
      /\ Goto(l, IF Reconciled(l) THEN "merge" ELSE "fail")
  BY DEF Recount, history
<1>2. PICK pc \in {"merge", "fail"} : Goto(l, pc) /\ (pc = "merge" => Reconciled(l))
  BY <1>1
<1>3. pc \in LoaderPCs
  BY DEF LoaderPCs
<1>4. pc = "merge" => \A b \in unit[l] \cap Plan : raw[b] > 0
  BY <1>2 DEF Reconciled
<1> QED
  BY <1>1, <1>2, <1>3, <1>4, GoingStep

LEMMA CopyStep ==
    ASSUME Invariant, Compacting', NEW l \in Loaders, CopyBatch(l)
    PROVE  Invariant'
<1>1. /\ lpc[l] = "copy" /\ memory' = memory /\ ledger' = ledger /\ detached' = detached
      /\ stage' = stage /\ overlapped' = overlapped
  BY DEF CopyBatch, history
<1>2. "merge" \in LoaderPCs /\ "fail" \in LoaderPCs
  BY DEF LoaderPCs
<1>3. CASE unit[l] \subseteq copied
  <2>1. Goto(l, "fail") /\ warehouse' = warehouse
    BY <1>1, <1>3 DEF CopyBatch, warehouse
  <2> QED
    BY <1>1, <1>2, <2>1, GoingStep
<1>4. CASE ~ (unit[l] \subseteq copied)
  <2>1. Goto(l, "merge") /\ raw' = Added(unit[l]) /\ copied' = copied \cup unit[l]
    BY <1>4 DEF CopyBatch
  <2> QED
    BY <1>1, <1>2, <1>4, <2>1, RowsStep
<1> QED
  BY <1>3, <1>4

\* A process ends while the server is still at its statement.
LEMMA EndDetachStep ==
    ASSUME Invariant, Compacting', NEW l \in Loaders, NEW code, EndLoader(l, code),
           Detaches(l), stage' = stage, raw' = raw, copied' = copied, ledger' = ledger
    PROVE  Invariant'
<1>1. Memory' /\ Others(l) /\ lpc'[l] = "off" /\ ~ files'[l] /\ overlapped' = overlapped
  BY Ending DEF Invariant
<1> QED
  BY <1>1, DetachStep DEF Detaches

LEMMA RecordFailureStep ==
    ASSUME Invariant, Compacting', NEW l \in Loaders, RecordFailure(l)
    PROVE  Invariant'
<1>1. /\ lpc[l] = "fail" /\ EndLoader(l, 1) /\ stage' = stage
      /\ raw' = raw /\ copied' = copied
      /\ \/ detached' = detached /\ (ledger' = Merged(Pending(l), "FAILED") \/ ledger' = ledger)
         \/ Detaches(l) /\ ledger' = ledger
  BY DEF RecordFailure
<1>2. CASE detached' = detached /\ (ledger' = Merged(Pending(l), "FAILED") \/ ledger' = ledger)
  <2>1. LoadedHasRows'
    BY <1>1, <1>2 DEF Invariant, LoadedHasRows, Merged
  <2> QED
    BY <1>1, <1>2, <2>1, EndStep
<1> QED
  BY <1>1, <1>2, EndDetachStep

LEMMA FinishStep ==
    ASSUME Invariant, Compacting', NEW l \in Loaders, ReadFails(l) \/ FinishLoader(l)
    PROVE  Invariant'
<1>1. /\ lpc[l] # "off" /\ (EndLoader(l, 0) \/ EndLoader(l, 1)) /\ stage' = stage
      /\ raw' = raw /\ copied' = copied /\ detached' = detached /\ ledger' = ledger
  BY DEF ReadFails, FinishLoader, warehouse
<1>2. LoadedHasRows'
  BY <1>1 DEF Invariant, LoadedHasRows
<1> QED
  BY <1>1, <1>2, EndStep

LEMMA KillStep ==
    ASSUME Invariant, Compacting', NEW l \in Loaders, KillLoader(l)
    PROVE  Invariant'
<1>1. /\ lpc[l] # "off" /\ EndLoader(l, 137) /\ stage' = stage
      /\ raw' = raw /\ copied' = copied /\ ledger' = ledger
      /\ detached' = detached \/ Detaches(l)
  BY DEF KillLoader
<1>2. LoadedHasRows'
  BY <1>1 DEF Invariant, LoadedHasRows
<1> QED
  BY <1>1, <1>2, EndStep, EndDetachStep

LEMMA StatementFailsStep ==
    ASSUME Invariant, Compacting', NEW l \in Loaders, StatementFails(l)
    PROVE  Invariant'
<1> USE DEF Invariant
<1>1. /\ Goto(l, "fail") /\ memory' = memory /\ stage' = stage /\ overlapped' = overlapped
      /\ lpc[l] \in {"insert", "recount", "copy", "merge"}
  BY DEF StatementFails, history
<1>2. "fail" \in LoaderPCs
  BY DEF LoaderPCs
<1>3. CASE warehouse' = warehouse
  BY <1>1, <1>2, <1>3, GoingStep
<1>4. CASE lpc[l] # "recount" /\ Executed(Statement(l)) /\ detached' = detached
  <2>1. lpc[l] \in {"insert", "copy", "merge"}
    BY <1>1, <1>4
  <2>2. CASE lpc[l] = "insert"
    BY <1>1, <1>2, <1>4, <2>1, <2>2, ExecutedStatement, RowsStep
  <2>3. CASE lpc[l] = "copy" /\ unit[l] \subseteq copied
    <3>1. warehouse' = warehouse
      BY <1>4, <2>1, <2>3, ExecutedStatement DEF warehouse
    <3> QED
      BY <1>1, <1>2, <3>1, GoingStep
  <2>4. CASE lpc[l] = "copy" /\ ~ (unit[l] \subseteq copied)
    BY <1>1, <1>2, <1>4, <2>1, <2>4, ExecutedStatement, RowsStep
  <2>5. CASE lpc[l] = "merge"
    <3>1. /\ raw' = raw /\ copied' = copied /\ detached' = detached
          /\ ledger' = Merged(unit[l], "LOADED")
      BY <1>4, <2>1, <2>5, ExecutedStatement
    <3>2. files' = files /\ left' = left /\ unit' = unit /\ missing' = missing
      BY <1>1 DEF memory
    <3>3. raw' \in [Plan -> Nat]
      BY <3>1 DEF Memory
    <3>4. Becomes(l, "fail", left[l], unit[l], missing[l])
      BY <1>1, <1>2, <3>2, <3>3, Going
    <3>5. Memory' /\ Others(l) /\ lpc'[l] = "fail" /\ (files'[l] <=> files[l])
      BY <3>4 DEF Becomes
    <3>6. Good(l)'
      BY <1>1, <2>5, <3>2, <3>5 DEF Good, OnPath, RowsInHand
    <3>7. LoadedHasRows'
      BY <2>5, <3>1 DEF Good, RowsInHand, LoadedHasRows, Merged
    <3> QED
      BY <1>1, <2>5, <3>1, <3>5, <3>6, <3>7, QuietStep
  <2> QED
    BY <2>1, <2>2, <2>3, <2>4, <2>5
<1>5. CASE Detaches(l) /\ raw' = raw /\ copied' = copied /\ ledger' = ledger
  <2>1. files' = files /\ left' = left /\ unit' = unit /\ missing' = missing
    BY <1>1 DEF memory
  <2>2. raw' \in [Plan -> Nat]
    BY <1>5 DEF Memory
  <2>3. Becomes(l, "fail", left[l], unit[l], missing[l])
    BY <1>1, <1>2, <2>1, <2>2, Going
  <2>4. Memory' /\ Others(l) /\ lpc'[l] = "fail" /\ (files'[l] <=> files[l])
    BY <2>3 DEF Becomes
  <2>5. OnPath(l)'
    BY <1>1, <2>1, <2>4 DEF Good, OnPath
  <2> QED
    BY <1>1, <1>5, <2>4, <2>5, DetachStep DEF Detaches
<1> QED
  BY <1>3, <1>4, <1>5 DEF StatementFails

-----------------------------------------------------------------------------
(* The theorems *)

LEMMA InvariantStep == Invariant /\ [Next]_vars => Invariant'
<1> SUFFICES ASSUME Invariant, [Next]_vars PROVE Invariant'
  OBVIOUS
<1>1. Compacting' /\ (stage # {} => stage' # {})
  BY CompactingStep DEF Invariant
<1>2. ASSUME NEW l \in Loaders, LoaderStep(l) PROVE Invariant'
  BY <1>1, <1>2, SkipStep, TakeStep, ReadCountsStep, InsertStep, RecountStep, CopyStep,
     MergeStep, RecordFailureStep, FinishStep DEF LoaderStep
<1>3. CASE LoaderNext
  BY <1>1, <1>2, <1>3, StartStep, StatementFailsStep, FinishStep, KillStep, LateStep
     DEF LoaderNext
<1>4. CASE UNCHANGED loaderVars
  BY <1>1, <1>4, StageStep
<1> QED
  BY <1>3, <1>4 DEF Next, vars

LEMMA InvariantAlways == Spec => []Invariant
<1> QED
  BY InvariantInit, InvariantStep, PTL DEF Spec

(* A ledger row LOADED is never ahead of the rows, for any number of loaders *)
(* that overlap, die or lose the answers of their statements (process_run,   *)
(* process_compacted_file).                                                  *)
THEOREM LoadedAlwaysHasRows == Spec => []LoadedHasRows
<1>1. Invariant => LoadedHasRows
  BY DEF Invariant
<1> QED
  BY <1>1, InvariantAlways, PTL

(* No batch is loaded twice unless two loads of the run overlapped in time,  *)
(* however often compactions and loads fail and are started again.           *)
THEOREM TwiceOnlyByOverlapAlways == Spec => []TwiceOnlyByOverlap
<1>1. Invariant => TwiceOnlyByOverlap
  <2> SUFFICES ASSUME Invariant, ~ overlapped, NEW b \in Plan PROVE ~ (raw[b] > 1)
    BY DEF TwiceOnlyByOverlap
  <2>1. raw[b] \in Nat /\ raw[b] <= 1
    BY DEF Invariant, Memory, Once
  <2> QED
    BY <2>1
<1> QED
  BY <1>1, InvariantAlways, PTL

-----------------------------------------------------------------------------
(* The compaction: what it has read is what it writes and publishes *)

ReadIsBuilt ==
    /\ cpc = "off" => open = {} /\ built = {}
    /\ cpc = "build" => open \subseteq snapshot /\ Batches(built) \subseteq snapshot
    /\ cpc = "sync"  => Batches(kept) = snapshot
    /\ OkIsStaged

LEMMA ReadIsBuiltInit == Init => ReadIsBuilt
BY DEF Init, CompactionInit, ReadIsBuilt, OkIsStaged

LEMMA ReadIsBuiltStep == ReadIsBuilt /\ [Next]_vars => ReadIsBuilt'
<1> SUFFICES ASSUME ReadIsBuilt, [Next]_vars PROVE ReadIsBuilt'
  OBVIOUS
<1> USE DEF ReadIsBuilt, OkIsStaged
<1>1. CASE UNCHANGED <<stage, compactionVars>>
  BY <1>1 DEF compactionVars, Batches
<1>2. CASE StartCompaction
  BY <1>2 DEF StartCompaction, Reusable, durable, Batches
<1>3. CASE TakeBatch
  <2>1. PICK b \in Todo : open' = open \cup {b}
    BY <1>3 DEF TakeBatch
  <2>2. b \in snapshot
    BY DEF Todo
  <2> QED
    BY <1>3, <2>1, <2>2 DEF TakeBatch, durable, Batches
<1>4. CASE PublishChunk
  <2>1. Chunk.batches = open
    BY DEF Chunk
  <2>2. Batches(built') = Batches(built) \cup open
    BY <1>4, <2>1 DEF PublishChunk, Batches
  <2> QED
    BY <1>4, <2>2 DEF PublishChunk
<1>5. CASE RejectBatch \/ BuildFails \/ KillCompaction \/ SyncFails
  BY <1>5 DEF RejectBatch, BuildFails, KillCompaction, SyncFails, EndCompaction
<1>6. CASE WriteCompactionManifest
  <2>1. Batches(kept') = Batches(built) /\ snapshot' = snapshot /\ cpc' = "sync"
    BY <1>6 DEF WriteCompactionManifest, Batches
  <2>2. snapshot \subseteq Batches(built)
    BY <1>6 DEF WriteCompactionManifest, Todo
  <2> QED
    BY <1>6, <2>1, <2>2 DEF WriteCompactionManifest
<1>7. CASE SyncCompactionManifest
  BY <1>7 DEF SyncCompactionManifest, EndCompaction, durable
<1>8. CASE LoaderNext /\ UNCHANGED compactionVars
  <2>1. stage' = stage
    BY <1>8 DEF LoaderNext, LoaderStep, StartLoader, SkipBatch, TakeUnit, ReadCounts,
                InsertMissing, Recount, CopyBatch, MergeLoaded, RecordFailure, FinishLoader,
                StatementFails, ReadFails, KillLoader, LateStatement
  <2> QED
    BY <1>1, <1>8, <2>1
<1>9. CASE Extend /\ UNCHANGED compactionVars
  BY <1>1, <1>9 DEF Extend
<1> QED
  BY <1>1, <1>2, <1>3, <1>4, <1>5, <1>6, <1>7, <1>8, <1>9
     DEF Next, CompactionNext, CompactionStep, vars

(* A compaction that exits 0 has put on the stage a manifest with exactly    *)
(* the batches it read, also when it only reused what an earlier, failed     *)
(* process had built (compact_run, 191-199).                                 *)
THEOREM OkAlwaysStaged == Spec => []OkIsStaged
<1>1. ReadIsBuilt => OkIsStaged
  BY DEF ReadIsBuilt
<1> QED
  BY <1>1, ReadIsBuiltInit, ReadIsBuiltStep, PTL DEF Spec

-----------------------------------------------------------------------------
(* Every manifest names batches of the plan *)

Planned ==
    /\ extracted \subseteq Plan /\ snapshot \subseteq Plan /\ open \subseteq Plan
    /\ Batches(built) \subseteq Plan /\ Batches(kept) \subseteq Plan
    /\ Batches(stage) \subseteq Plan

LEMMA PlannedInit == Init => Planned
BY DEF Init, CompactionInit, Planned, Batches

LEMMA PlannedStep == Planned /\ [Next]_vars => Planned'
<1> SUFFICES ASSUME Planned, [Next]_vars PROVE Planned'
  OBVIOUS
<1> USE DEF Planned
<1>1. CASE UNCHANGED <<extracted, stage, compactionVars>>
  BY <1>1 DEF compactionVars, Batches
<1>2. CASE Extend /\ UNCHANGED compactionVars
  <2>1. PICK i \in DOMAIN Waves : extracted' = extracted \cup Waves[i]
    BY <1>2 DEF Extend
  <2>2. Waves[i] \subseteq Plan
    BY <2>1 DEF Plan
  <2> QED
    BY <1>2, <2>1, <2>2 DEF Extend, compactionVars, Batches
<1>3. CASE StartCompaction
  BY <1>3 DEF StartCompaction, durable, Batches
<1>4. CASE TakeBatch
  <2>1. PICK b \in Todo : open' = open \cup {b}
    BY <1>4 DEF TakeBatch
  <2>2. b \in snapshot
    BY DEF Todo
  <2> QED
    BY <1>4, <2>1, <2>2 DEF TakeBatch, durable, Batches
<1>5. CASE PublishChunk
  <2>1. Chunk.batches = open
    BY DEF Chunk
  <2>2. Batches(built') = Batches(built) \cup open
    BY <1>5, <2>1 DEF PublishChunk, Batches
  <2> QED
    BY <1>5, <2>2 DEF PublishChunk, Batches
<1>6. CASE RejectBatch \/ BuildFails \/ KillCompaction
  BY <1>6 DEF RejectBatch, BuildFails, KillCompaction, EndCompaction, durable, Batches
<1>7. CASE WriteCompactionManifest
  BY <1>7 DEF WriteCompactionManifest, Batches
<1>8. CASE SyncCompactionManifest \/ SyncFails
  BY <1>8 DEF SyncCompactionManifest, SyncFails, EndCompaction, durable, Batches
<1>9. CASE LoaderNext /\ UNCHANGED compactionVars
  <2>1. stage' = stage /\ extracted' = extracted
    BY <1>9 DEF LoaderNext, LoaderStep, StartLoader, SkipBatch, TakeUnit, ReadCounts,
                InsertMissing, Recount, CopyBatch, MergeLoaded, RecordFailure, FinishLoader,
                StatementFails, ReadFails, KillLoader, LateStatement
  <2> QED
    BY <1>1, <1>9, <2>1
<1> QED
  BY <1>1, <1>2, <1>3, <1>4, <1>5, <1>6, <1>7, <1>8, <1>9
     DEF Next, CompactionNext, CompactionStep, vars

LEMMA UnitsArePlanned == Planned => UNION Units \subseteq Plan
BY DEF Planned, Units, Batches

-----------------------------------------------------------------------------
(* A load that ran alone is final: the invariant *)

\* COPY has loaded each row there is.
Exact == \A b \in Plan : raw[b] = IF b \in copied THEN 1 ELSE 0

\* A loader has nothing in hand between its units.
Rests(k) == lpc[k] \in {"off", "next"} => unit[k] = {} /\ missing[k] = {}

\* No loader will touch what was vouched for.
Spares(k) ==
    \A b \in vouched : b \notin missing[k] /\ (~ files[k] => b \notin unit[k])

\* A loader that has met nobody: what it was asked to load is to do or done.
Done(b) == raw[b] = 1 /\ ledger[b] = "LOADED"
Alone(k) ==
    asked[k] # {} =>
        /\ lpc[k] # "off" /\ \A m \in Loaders \ {k} : lpc[m] = "off"
        /\ detached # {} => lpc[k] = "fail"
        /\ lpc[k] = "insert" => \A b \in missing[k] \cap Plan : raw[b] = 0
        /\ lpc[k] = "merge" => \A b \in unit[k] \cap Plan : raw[b] = 1
        /\ lpc[k] # "fail" /\ ~ files[k] => Exact
        /\ asked[k] \subseteq Plan
        /\ lpc[k] # "fail" =>
             \A b \in asked[k] : b \in unit[k] \/ b \in UNION left[k] \/ Done(b)

BeforeFiles == stage = {} => (\A s \in detached : s.does # "insert") /\ Exact

\* Of the statements adrift, only a MERGE of status LOADED may be about b.
Untouched(b) == \A s \in detached : s.does # "merge" => b \notin s.to

Final ==
    /\ vouched \subseteq Plan
    /\ \A b \in vouched : Done(b) /\ Untouched(b)

Vouching ==
    /\ asked = [k \in Loaders |-> asked[k]]
    /\ \A k \in Loaders : Rests(k) /\ Spares(k) /\ Alone(k)
    /\ BeforeFiles /\ Final

LEMMA VouchingInit == Init => Vouching
<1> SUFFICES ASSUME Init PROVE Vouching
  OBVIOUS
<1>1. /\ asked = [k \in Loaders |-> {}] /\ vouched = {} /\ detached = {} /\ copied = {}
      /\ raw = [b \in Plan |-> 0]
      /\ \A k \in Loaders : unit[k] = {} /\ missing[k] = {}
  BY DEF Init, LoaderInit
<1>2. \A k \in Loaders : Rests(k) /\ Spares(k) /\ Alone(k)
  BY <1>1 DEF Rests, Spares, Alone
<1>3. BeforeFiles /\ Final
  BY <1>1 DEF BeforeFiles, Final, Exact
<1> QED
  BY <1>1, <1>2, <1>3 DEF Vouching

\* While a loader runs, no other loader is alone.
LEMMA AloneIsOnly ==
    ASSUME Vouching, NEW l \in Loaders, lpc[l] # "off"
    PROVE  \A m \in Loaders \ {l} : asked[m] = {}
BY DEF Vouching, Alone

\* What a step of a running loader has to keep.
LEMMA VouchingKept ==
    ASSUME Vouching, NEW l \in Loaders, lpc[l] # "off", Others(l),
           asked' = [k \in Loaders |-> asked'[k]],
           \A m \in Loaders \ {l} : asked'[m] = asked[m],
           stage' = stage, vouched' = vouched,
           Rests(l)', Spares(l)', Alone(l)', BeforeFiles',
           \A b \in vouched : Done(b)' /\ Untouched(b)'
    PROVE  Vouching'
<1>1. ASSUME NEW k \in Loaders \ {l} PROVE Rests(k)' /\ Spares(k)' /\ Alone(k)'
  <2>1. lpc'[k] = lpc[k] /\ (files'[k] <=> files[k]) /\ unit'[k] = unit[k]
        /\ missing'[k] = missing[k]
    BY DEF Others
  <2>2. asked'[k] = {}
    BY AloneIsOnly
  <2>3. Rests(k)' /\ Spares(k)'
    BY <2>1 DEF Vouching, Rests, Spares
  <2> QED
    BY <2>2, <2>3 DEF Alone
<1>2. Final'
  BY DEF Vouching, Final
<1> QED
  BY <1>1, <1>2 DEF Vouching

-----------------------------------------------------------------------------
(* A load that ran alone is final: the steps *)

LEMMA EndingMemory ==
    ASSUME Memory, Vouching, NEW l \in Loaders, NEW code, EndLoader(l, code)
    PROVE  /\ unit'[l] = {} /\ missing'[l] = {} /\ asked'[l] = {}
           /\ asked' = [k \in Loaders |-> asked'[k]]
           /\ \A m \in Loaders \ {l} : asked'[m] = asked[m]
           /\ vouched' = IF code = 0 THEN vouched \cup asked[l] ELSE vouched
<1>1. /\ unit' = [unit EXCEPT ![l] = {}] /\ missing' = [missing EXCEPT ![l] = {}]
      /\ asked' = [asked EXCEPT ![l] = {}]
      /\ vouched' = IF code = 0 THEN vouched \cup asked[l] ELSE vouched
  BY DEF EndLoader
<1>2. unit'[l] = {} /\ missing'[l] = {}
  BY <1>1 DEF Memory
<1>3. asked'[l] = {} /\ asked' = [k \in Loaders |-> asked'[k]]
      /\ \A m \in Loaders \ {l} : asked'[m] = asked[m]
  BY <1>1 DEF Vouching
<1> QED
  BY <1>1, <1>2, <1>3

\* The statement a loader may leave behind spares what was vouched for, and is no INSERT
\* before there are compacted files.
LEMMA DetachedSpares ==
    ASSUME Invariant, Vouching, NEW l \in Loaders, Detaches(l)
    PROVE  /\ detached' = detached \cup {Statement(l)}
           /\ stage = {} => Statement(l).does # "insert"
           /\ \A b \in vouched : Statement(l).does # "merge" => b \notin Statement(l).to
<1> USE DEF Invariant
<1>1. /\ detached' = detached \cup {Statement(l)} /\ Statement(l).does = lpc[l]
      /\ lpc[l] \in Writes
  BY DEF Detaches, Statement
<1>2. stage = {} => lpc[l] # "insert"
  BY DEF Good, OnPath
<1>3. ASSUME NEW b \in vouched, lpc[l] # "merge" PROVE b \notin Statement(l).to
  <2>1. b \notin missing[l] /\ (~ files[l] => b \notin unit[l])
    BY DEF Vouching, Spares
  <2>2. CASE lpc[l] = "insert"
    BY <2>1, <2>2 DEF Statement
  <2>3. CASE lpc[l] = "copy"
    BY <2>1, <2>3 DEF Statement, Good, OnPath
  <2>4. CASE lpc[l] = "fail"
    BY <2>1, <2>4 DEF Statement, Pending
  <2> QED
    BY <1>1, <1>3, <2>2, <2>3, <2>4 DEF Writes
<1> QED
  BY <1>1, <1>2, <1>3

\* A process ends other than with exit code 0.
LEMMA VouchingEnd ==
    ASSUME Invariant, Vouching, NEW l \in Loaders, lpc[l] # "off",
           NEW code, code # 0, EndLoader(l, code), stage' = stage, raw' = raw,
           copied' = copied,
           detached' = detached \/ Detaches(l),
           \A b \in vouched : ledger'[b] = "LOADED"
    PROVE  Vouching'
<1> USE DEF Invariant
<1>1. Memory' /\ Others(l) /\ lpc'[l] = "off" /\ ~ files'[l]
  BY Ending
<1>2. /\ unit'[l] = {} /\ missing'[l] = {} /\ asked'[l] = {} /\ vouched' = vouched
      /\ asked' = [k \in Loaders |-> asked'[k]]
      /\ \A m \in Loaders \ {l} : asked'[m] = asked[m]
  BY EndingMemory
<1>3. Rests(l)' /\ Spares(l)' /\ Alone(l)'
  BY <1>1, <1>2 DEF Rests, Spares, Alone
<1>4. BeforeFiles'
  BY DetachedSpares DEF Vouching, BeforeFiles, Exact
<1>5. \A b \in vouched : Done(b)' /\ Untouched(b)'
  BY DetachedSpares DEF Vouching, Final, Done, Untouched
<1> QED
  BY <1>1, <1>2, <1>3, <1>4, <1>5, VouchingKept

LEMMA VouchingFinish ==
    ASSUME Invariant, Vouching, NEW l \in Loaders, FinishLoader(l)
    PROVE  Vouching'
<1> USE DEF Invariant
<1>1. /\ lpc[l] = "next" /\ left[l] = {} /\ EndLoader(l, 0) /\ stage' = stage
      /\ raw' = raw /\ copied' = copied /\ ledger' = ledger /\ detached' = detached
  BY DEF FinishLoader, warehouse
<1>2. Memory' /\ Others(l) /\ lpc'[l] = "off" /\ ~ files'[l]
  BY <1>1, Ending
<1>3. /\ unit'[l] = {} /\ missing'[l] = {} /\ asked'[l] = {}
      /\ vouched' = vouched \cup asked[l]
      /\ asked' = [k \in Loaders |-> asked'[k]]
      /\ \A m \in Loaders \ {l} : asked'[m] = asked[m]
  BY <1>1, EndingMemory
<1>4. Rests(l)' /\ Spares(l)' /\ Alone(l)'
  BY <1>2, <1>3 DEF Rests, Spares, Alone
<1>5. ASSUME NEW b \in asked[l]
      PROVE  /\ b \in Plan /\ Done(b) /\ detached = {}
             /\ \A k \in Loaders \ {l} : lpc[k] = "off" /\ b \notin missing[k]
                                         /\ b \notin unit[k]
  BY <1>1 DEF Vouching, Alone, Rests
<1>6. ASSUME NEW k \in Loaders \ {l} PROVE Rests(k)' /\ Spares(k)' /\ Alone(k)'
  <2>1. lpc'[k] = lpc[k] /\ (files'[k] <=> files[k]) /\ unit'[k] = unit[k]
        /\ missing'[k] = missing[k]
    BY <1>2 DEF Others
  <2>2. asked'[k] = {}
    BY <1>1, <1>3, AloneIsOnly
  <2>3. Rests(k)' /\ Spares(k)'
    BY <1>3, <1>5, <2>1 DEF Vouching, Rests, Spares
  <2> QED
    BY <2>2, <2>3 DEF Alone
<1>7. Final'
  BY <1>1, <1>3, <1>5 DEF Vouching, Final, Done, Untouched
<1>8. BeforeFiles'
  BY <1>1 DEF Vouching, BeforeFiles, Exact
<1> QED
  BY <1>3, <1>4, <1>6, <1>7, <1>8 DEF Vouching

LEMMA VouchingStart ==
    ASSUME Invariant, Vouching, Planned, NEW l \in Loaders, StartLoader(l)
    PROVE  Vouching'
<1> USE DEF Invariant
<1>1. /\ lpc[l] = "off" /\ files' = [files EXCEPT ![l] = stage # {}]
      /\ left' = [left EXCEPT ![l] = Units] /\ lpc' = [lpc EXCEPT ![l] = "next"]
      /\ stage' = stage /\ raw' = raw /\ copied' = copied /\ ledger' = ledger
      /\ detached' = detached /\ unit' = unit /\ missing' = missing /\ vouched' = vouched
  BY DEF StartLoader, warehouse, Goto
<1>2. lpc'[l] = "next" /\ \A k \in Loaders \ {l} : lpc'[k] = lpc[k]
  BY <1>1 DEF Memory
<1>3. (files'[l] <=> stage # {}) /\ \A k \in Loaders \ {l} : files'[k] <=> files[k]
  BY <1>1 DEF Memory
<1>4. left'[l] = Units
  BY <1>1 DEF Memory
<1>5. \A k \in Loaders : Rests(k)' /\ Spares(k)'
  <2>1. unit[l] = {} /\ missing[l] = {}
    BY <1>1 DEF Vouching, Rests
  <2> QED
    BY <1>1, <1>2, <1>3, <2>1 DEF Vouching, Rests, Spares
<1>6. Final' /\ BeforeFiles'
  BY <1>1 DEF Vouching, Final, Done, Untouched, BeforeFiles, Exact
<1>7. CASE asked' = [k \in Loaders |-> {}]
  BY <1>5, <1>6, <1>7 DEF Vouching, Alone
<1>8. CASE Running = {} /\ detached = {} /\ asked' = [asked EXCEPT ![l] = UNION Units]
  <2>1. \A k \in Loaders : lpc[k] = "off" /\ asked[k] = {}
    BY <1>8 DEF Running, Vouching, Alone
  <2>2. asked' = [k \in Loaders |-> asked'[k]] /\ asked'[l] = UNION Units
        /\ \A k \in Loaders \ {l} : asked'[k] = {}
    BY <1>8, <2>1 DEF Vouching
  <2>3. Alone(l)'
    <3>1. \A m \in Loaders \ {l} : lpc'[m] = "off"
      BY <1>2, <2>1
    <3>2. ~ files'[l] => Exact'
      BY <1>1, <1>3 DEF Vouching, BeforeFiles, Exact
    <3>3. asked'[l] \subseteq Plan /\ asked'[l] \subseteq UNION left'[l]
      BY <1>4, <2>2, UnitsArePlanned
    <3> QED
      BY <1>1, <1>2, <1>8, <3>1, <3>2, <3>3 DEF Alone
  <2>4. \A k \in Loaders \ {l} : Alone(k)'
    BY <2>2 DEF Alone
  <2> QED
    BY <1>5, <1>6, <2>2, <2>3, <2>4 DEF Vouching
<1> QED
  BY <1>7, <1>8 DEF StartLoader

LEMMA VouchingLate ==
    ASSUME Invariant, Vouching, LateStatement
    PROVE  Vouching'
<1> USE DEF Invariant
<1>1. PICK s \in detached : Executed(s) /\ detached' = detached \ {s}
  BY DEF LateStatement
<1>2. /\ lpc' = lpc /\ files' = files /\ left' = left /\ unit' = unit /\ missing' = missing
      /\ stage' = stage /\ asked' = asked /\ vouched' = vouched
  BY DEF LateStatement, memory, history
<1>3. /\ \A b \in Plan : raw'[b] = IF Adds(s) /\ b \in s.to THEN raw[b] + 1 ELSE raw[b]
      /\ copied' = IF s.does = "copy" THEN copied \cup s.to ELSE copied
  BY <1>1, ExecutedRows
<1>4. \A k \in Loaders : Rests(k)' /\ Spares(k)'
  BY <1>2 DEF Vouching, Rests, Spares
<1>5. ASSUME NEW k \in Loaders PROVE Alone(k)'
  <2>1. asked[k] # {} => lpc[k] = "fail"
    BY <1>1 DEF Vouching, Alone
  <2> QED
    BY <1>2, <2>1 DEF Vouching, Alone
<1>6. BeforeFiles'
  <2> SUFFICES ASSUME stage = {} PROVE (\A t \in detached' : t.does # "insert") /\ Exact'
    BY <1>2 DEF BeforeFiles
  <2>1. (\A t \in detached : t.does # "insert") /\ Exact
    BY DEF Vouching, BeforeFiles
  <2>2. Exact'
    <3> SUFFICES ASSUME NEW b \in Plan PROVE raw'[b] = IF b \in copied' THEN 1 ELSE 0
      BY DEF Exact
    <3>1. raw[b] = IF b \in copied THEN 1 ELSE 0
      BY <2>1 DEF Exact
    <3>2. s.does # "insert" /\ (s.does = "copy" => \E c : s.to = {c})
      BY <2>1 DEF Adrift
    <3>3. CASE Adds(s) /\ b \in s.to
      <4>1. b \notin copied /\ b \in copied'
        BY <1>3, <3>2, <3>3 DEF Adds
      <4> QED
        BY <1>3, <3>1, <3>3, <4>1
    <3>4. CASE ~ (Adds(s) /\ b \in s.to)
      <4>1. b \in copied' <=> b \in copied
        BY <1>3, <3>4 DEF Adds
      <4> QED
        BY <1>3, <3>1, <3>4, <4>1
    <3> QED
      BY <3>3, <3>4
  <2> QED
    BY <1>1, <2>1, <2>2
<1>7. ASSUME NEW b \in vouched PROVE Done(b)' /\ Untouched(b)'
  <2>1. b \in Plan /\ Done(b) /\ Untouched(b) /\ (s.does # "merge" => b \notin s.to)
    BY DEF Vouching, Final, Untouched
  <2>2. raw'[b] = raw[b]
    <3>1. ~ (Adds(s) /\ b \in s.to)
      BY <2>1 DEF Adds
    <3> QED
      BY <1>3, <2>1, <3>1
  <2>3. ledger'[b] = "LOADED"
    BY <1>1, <2>1 DEF Executed, Merged, Done
  <2> QED
    BY <1>1, <2>1, <2>2, <2>3 DEF Done, Untouched
<1>8. Final'
  BY <1>2, <1>7 DEF Vouching, Final
<1> QED
  BY <1>2, <1>4, <1>5, <1>6, <1>8 DEF Vouching

LEMMA VouchingStage ==
    ASSUME Vouching, UNCHANGED loaderVars, stage # {} => stage' # {}
    PROVE  Vouching'
<1>1. /\ raw' = raw /\ copied' = copied /\ ledger' = ledger /\ detached' = detached
      /\ lpc' = lpc /\ files' = files /\ left' = left /\ unit' = unit /\ missing' = missing
      /\ asked' = asked /\ vouched' = vouched
  BY DEF loaderVars, warehouse, memory, history
<1>2. \A k \in Loaders : Rests(k)' /\ Spares(k)'
  BY <1>1 DEF Vouching, Rests, Spares
<1>3. \A k \in Loaders : Alone(k)'
  BY <1>1 DEF Vouching, Alone, Exact, Done
<1>4. BeforeFiles' /\ Final'
  BY <1>1 DEF Vouching, BeforeFiles, Final, Exact, Done, Untouched
<1> QED
  BY <1>1, <1>2, <1>3, <1>4 DEF Vouching

LEMMA VouchingSkip ==
    ASSUME Invariant, Vouching, NEW l \in Loaders, SkipBatch(l)
    PROVE  Vouching'
<1> USE DEF Invariant
<1>1. PICK u \in left[l] : /\ left' = [left EXCEPT ![l] = @ \ {u}]
                           /\ \A b \in u : ledger[b] = "LOADED"
  BY DEF SkipBatch
<1>2. /\ lpc[l] = "next" /\ ~ files[l] /\ lpc' = lpc /\ files' = files /\ unit' = unit
      /\ missing' = missing /\ stage' = stage /\ asked' = asked /\ vouched' = vouched
      /\ raw' = raw /\ copied' = copied /\ ledger' = ledger /\ detached' = detached
  BY DEF SkipBatch, warehouse, history
<1>3. left'[l] = left[l] \ {u} /\ \A k \in Loaders \ {l} : left'[k] = left[k]
  BY <1>1 DEF Memory
<1>4. Others(l)
  BY <1>2, <1>3 DEF Others
<1>5. Rests(l)' /\ Spares(l)' /\ BeforeFiles' /\ \A b \in vouched : Done(b)'
  BY <1>2 DEF Vouching, Rests, Spares, BeforeFiles, Final, Exact, Done
<1>6. Alone(l)'
  <2> SUFFICES ASSUME asked[l] # {} PROVE Alone(l)'
    BY <1>2 DEF Alone
  <2>1. Exact' /\ asked[l] \subseteq Plan
    BY <1>2 DEF Vouching, Alone, Exact
  <2>2. ASSUME NEW b \in asked[l] PROVE b \in unit'[l] \/ b \in UNION left'[l] \/ Done(b)'
    <3>1. b \in unit[l] \/ b \in UNION left[l] \/ Done(b)
      BY <1>2 DEF Vouching, Alone
    <3>2. CASE b \in u
      <4>1. raw[b] > 0 /\ raw[b] \in {0, 1}
        BY <1>1, <1>2, <2>1, <3>2 DEF LoadedHasRows, Exact
      <4> QED
        BY <1>1, <1>2, <3>2, <4>1 DEF Done
    <3> QED
      BY <1>2, <1>3, <3>1, <3>2 DEF Done
  <2> QED
    BY <1>2, <2>1, <2>2 DEF Vouching, Alone
<1> QED
  BY <1>2, <1>4, <1>5, <1>6, VouchingKept
     DEF Vouching, Final, Untouched

LEMMA VouchingTake ==
    ASSUME Invariant, Vouching, NEW l \in Loaders, TakeUnit(l)
    PROVE  Vouching'
<1> USE DEF Invariant
<1>1. PICK u \in left[l] : /\ left' = [left EXCEPT ![l] = @ \ {u}]
                           /\ unit' = [unit EXCEPT ![l] = u]
                           /\ files[l] \/ \E b \in u : ledger[b] # "LOADED"
  BY DEF TakeUnit
<1>2. /\ lpc[l] = "next" /\ files' = files
      /\ missing' = missing /\ stage' = stage /\ asked' = asked /\ vouched' = vouched
      /\ raw' = raw /\ copied' = copied /\ ledger' = ledger /\ detached' = detached
      /\ lpc' = [lpc EXCEPT ![l] = IF files[l] THEN "counts" ELSE "copy"]
  BY DEF TakeUnit, warehouse, history, Goto
<1>3. lpc'[l] \in {"counts", "copy"} /\ \A k \in Loaders \ {l} : lpc'[k] = lpc[k]
  BY <1>2 DEF Memory
<1>4. left'[l] = left[l] \ {u} /\ \A k \in Loaders \ {l} : left'[k] = left[k]
  BY <1>1 DEF Memory
<1>5. unit'[l] = u /\ \A k \in Loaders \ {l} : unit'[k] = unit[k]
  BY <1>1 DEF Memory
<1>6. Others(l)
  BY <1>2, <1>3, <1>4, <1>5 DEF Others
<1>7. Spares(l)'
  <2>1. ~ files[l] => \E c : u = {c} /\ ledger[c] # "LOADED"
    BY <1>1, <1>2 DEF Good, OnPath
  <2>2. \A b \in vouched : ledger[b] = "LOADED" /\ b \notin missing[l]
    BY DEF Vouching, Final, Done, Spares
  <2> QED
    BY <1>2, <1>5, <2>1, <2>2 DEF Spares
<1>8. Rests(l)' /\ BeforeFiles' /\ \A b \in vouched : Done(b)'
  BY <1>2, <1>3 DEF Vouching, Rests, BeforeFiles, Final, Exact, Done
<1>9. Alone(l)'
  <2> SUFFICES ASSUME asked[l] # {} PROVE Alone(l)'
    BY <1>2 DEF Alone
  <2>1. unit[l] = {}
    BY <1>2 DEF Vouching, Rests
  <2>2. \A b \in asked[l] : b \in unit'[l] \/ b \in UNION left'[l] \/ Done(b)'
    BY <1>2, <1>4, <1>5, <2>1 DEF Vouching, Alone, Done
  <2>3. \A m \in Loaders \ {l} : lpc'[m] = "off"
    BY <1>3 DEF Vouching, Alone
  <2> QED
    BY <1>2, <1>3, <2>2, <2>3 DEF Vouching, Alone, Exact
<1> QED
  BY <1>2, <1>6, <1>7, <1>8, <1>9, VouchingKept
     DEF Vouching, Final, Untouched

LEMMA VouchingCounts ==
    ASSUME Invariant, Vouching, NEW l \in Loaders, ReadCounts(l)
    PROVE  Vouching'
<1> USE DEF Invariant
<1>1. /\ lpc[l] = "counts" /\ stage' = stage
      /\ raw' = raw /\ copied' = copied /\ ledger' = ledger /\ detached' = detached
  BY DEF ReadCounts, warehouse
<1>2. \A b \in vouched : ledger'[b] = "LOADED"
  BY <1>1 DEF Vouching, Final, Done
<1>3. CASE EndLoader(l, 1)
  BY <1>1, <1>2, <1>3, VouchingEnd
<1>4. CASE /\ missing' = [missing EXCEPT ![l] = Missing(l)] /\ Goto(l, "insert")
           /\ UNCHANGED <<files, left, unit, history>>
  <2>1. lpc' = [lpc EXCEPT ![l] = "insert"] /\ files' = files /\ left' = left
        /\ unit' = unit /\ asked' = asked /\ vouched' = vouched
    BY <1>4 DEF Goto, history
  <2>2. lpc'[l] = "insert" /\ \A k \in Loaders \ {l} : lpc'[k] = lpc[k]
    BY <2>1 DEF Memory
  <2>3. missing'[l] = Missing(l) /\ \A k \in Loaders \ {l} : missing'[k] = missing[k]
    BY <1>4 DEF Memory
  <2>4. Others(l)
    BY <2>1, <2>2, <2>3 DEF Others
  <2>5. Spares(l)'
    <3>1. \A b \in vouched : raw[b] = 1 /\ (~ files[l] => b \notin unit[l])
      BY DEF Vouching, Final, Done, Spares
    <3> QED
      BY <2>1, <2>3, <3>1 DEF Spares, Missing
  <2>6. Rests(l)' /\ BeforeFiles' /\ \A b \in vouched : Done(b)'
    BY <1>1, <2>1, <2>2 DEF Vouching, Rests, BeforeFiles, Final, Exact, Done
  <2>7. Alone(l)'
    <3>1. files[l] /\ \A b \in missing'[l] : raw[b] = 0
      BY <1>1, <2>3 DEF Good, OnPath, Missing
    <3> QED
      BY <1>1, <2>1, <2>2, <3>1 DEF Vouching, Alone, Done
  <2> QED
    BY <1>1, <2>1, <2>4, <2>5, <2>6, <2>7, VouchingKept
     DEF Vouching, Final, Untouched
<1> QED
  BY <1>3, <1>4 DEF ReadCounts

\* A step that goes on, or fails, without a statement that writes.
LEMMA VouchingGo ==
    ASSUME Invariant, Vouching, NEW l \in Loaders, lpc[l] \notin {"off", "fail"},
           NEW pc \in {"merge", "fail"}, Goto(l, pc), memory' = memory,
           warehouse' = warehouse, stage' = stage, asked' = asked, vouched' = vouched,
           pc = "merge" => files[l] /\ \A b \in unit[l] \cap Plan : raw[b] = 1
    PROVE  Vouching'
<1> USE DEF Invariant
<1>1. /\ raw' = raw /\ copied' = copied /\ ledger' = ledger /\ detached' = detached
      /\ files' = files /\ left' = left /\ unit' = unit /\ missing' = missing
      /\ lpc' = [lpc EXCEPT ![l] = pc]
  BY DEF memory, warehouse, Goto
<1>2. lpc'[l] = pc /\ \A k \in Loaders \ {l} : lpc'[k] = lpc[k]
  BY <1>1 DEF Memory
<1>3. Others(l)
  BY <1>1, <1>2 DEF Others
<1>4. Rests(l)' /\ Spares(l)' /\ BeforeFiles' /\ \A b \in vouched : Done(b)'
  BY <1>1, <1>2 DEF Vouching, Rests, Spares, BeforeFiles, Final, Exact, Done
<1>5. Alone(l)'
  BY <1>1, <1>2 DEF Vouching, Alone, Exact, Done
<1> QED
  BY <1>1, <1>3, <1>4, <1>5, VouchingKept
     DEF Vouching, Final, Untouched

\* An INSERT or a COPY adds its rows.
LEMMA VouchingRows ==
    ASSUME Invariant, Vouching, NEW l \in Loaders, NEW bs, NEW pc,
           Goto(l, pc), memory' = memory, raw' = Added(bs), stage' = stage,
           detached' = detached, ledger' = ledger, asked' = asked, vouched' = vouched,
           \/ /\ lpc[l] = "insert" /\ bs = missing[l] /\ copied' = copied
              /\ pc \in {"recount", "fail"}
           \/ /\ lpc[l] = "copy" /\ bs = unit[l] /\ ~ (bs \subseteq copied)
              /\ copied' = copied \cup bs /\ pc \in {"merge", "fail"}
    PROVE  Vouching'
<1> USE DEF Invariant
<1>1. \A b \in Plan : raw'[b] = IF b \in bs THEN raw[b] + 1 ELSE raw[b]
  BY AddedRows
<1>2. /\ files' = files /\ left' = left /\ unit' = unit /\ missing' = missing
      /\ lpc' = [lpc EXCEPT ![l] = pc]
  BY DEF memory, Goto
<1>3. lpc'[l] = pc /\ \A k \in Loaders \ {l} : lpc'[k] = lpc[k]
  BY <1>2 DEF Memory
<1>4. Others(l)
  BY <1>2, <1>3 DEF Others
<1>5. lpc[l] = "insert" => files[l] /\ stage # {}
  BY DEF Good, OnPath
<1>6. lpc[l] = "copy" => ~ files[l] /\ \A b \in bs : b \notin copied
  BY DEF Good, OnPath
<1>7. ASSUME Exact, lpc[l] = "copy" PROVE Exact' /\ \A b \in bs \cap Plan : raw'[b] = 1
  <2> SUFFICES ASSUME NEW b \in Plan
               PROVE  /\ raw'[b] = IF b \in copied' THEN 1 ELSE 0
                      /\ b \in bs => raw'[b] = 1
    BY DEF Exact
  <2>1. raw[b] = IF b \in copied THEN 1 ELSE 0
    BY <1>7 DEF Exact
  <2>2. CASE b \in bs
    <3>1. raw[b] = 0 /\ b \in copied'
      BY <1>6, <1>7, <2>1, <2>2
    <3> QED
      BY <1>1, <2>2, <3>1
  <2>3. CASE b \notin bs
    BY <1>1, <1>7, <2>1, <2>3
  <2> QED
    BY <2>2, <2>3
<1>8. \A b \in vouched : b \notin bs /\ Done(b)' /\ Untouched(b)'
  <2> SUFFICES ASSUME NEW b \in vouched
               PROVE  b \notin bs /\ Done(b)' /\ Untouched(b)'
    OBVIOUS
  <2>1. b \notin bs
    BY <1>6 DEF Vouching, Spares
  <2>2. b \in Plan /\ Done(b) /\ Untouched(b)
    BY DEF Vouching, Final
  <2> QED
    BY <1>1, <2>1, <2>2 DEF Done, Untouched
<1>9. Rests(l)' /\ Spares(l)'
  BY <1>2, <1>3 DEF Vouching, Rests, Spares
<1>10. BeforeFiles'
  BY <1>5, <1>7 DEF Vouching, BeforeFiles
<1>11. Alone(l)'
  <2> SUFFICES ASSUME asked[l] # {} PROVE Alone(l)'
    BY DEF Alone
  <2>1. /\ \A m \in Loaders \ {l} : lpc[m] = "off"
        /\ detached = {} /\ asked[l] \subseteq Plan
        /\ ~ files[l] => Exact
        /\ \A b \in asked[l] : b \in unit[l] \/ b \in UNION left[l] \/ Done(b)
        /\ lpc[l] = "insert" => \A b \in missing[l] \cap Plan : raw[b] = 0
    BY DEF Vouching, Alone
  <2>2. \A m \in Loaders \ {l} : lpc'[m] = "off"
    BY <1>3, <2>1
  <2>3. ASSUME NEW b \in asked[l] PROVE b \in unit[l] \/ b \in UNION left[l] \/ Done(b)'
    <3>1. CASE Done(b)
      <4>1. b \in bs => b \in unit[l]
        BY <2>1, <3>1 DEF Done
      <4> QED
        BY <1>1, <2>1, <3>1, <4>1 DEF Done
    <3> QED
      BY <2>1, <3>1
  <2>4. pc = "merge" => \A b \in unit'[l] \cap Plan : raw'[b] = 1
    BY <1>2, <1>6, <1>7, <2>1
  <2>5. ~ files'[l] => Exact'
    BY <1>2, <1>5, <1>7, <2>1
  <2> QED
    BY <1>2, <1>3, <2>1, <2>2, <2>3, <2>4, <2>5 DEF Alone
<1> QED
  BY <1>4, <1>8, <1>9, <1>10, <1>11, VouchingKept DEF Vouching

\* The MERGE of status LOADED, with an answer or without.
LEMMA VouchingMerge ==
    ASSUME Invariant, Vouching, NEW l \in Loaders, lpc[l] = "merge",
           ledger' = Merged(unit[l], "LOADED"),
           \/ MergeLoaded(l)
           \/ Goto(l, "fail") /\ memory' = memory,
           raw' = raw, copied' = copied, detached' = detached,
           stage' = stage, asked' = asked, vouched' = vouched
    PROVE  Vouching'
<1> USE DEF Invariant
<1>1. \A b \in Plan : /\ b \in unit[l] => ledger'[b] = "LOADED"
                      /\ ledger[b] = "LOADED" => ledger'[b] = "LOADED"
  BY DEF Merged
<1>2. BeforeFiles' /\ \A b \in vouched : Done(b)'
  BY <1>1 DEF Vouching, BeforeFiles, Final, Exact, Done
<1>3. CASE MergeLoaded(l)
  <2>1. /\ lpc' = [lpc EXCEPT ![l] = "next"] /\ files' = files /\ left' = left
        /\ unit' = [unit EXCEPT ![l] = {}] /\ missing' = [missing EXCEPT ![l] = {}]
    BY <1>3 DEF MergeLoaded, Goto
  <2>2. lpc'[l] = "next" /\ \A k \in Loaders \ {l} : lpc'[k] = lpc[k]
    BY <2>1 DEF Memory
  <2>3. unit'[l] = {} /\ \A k \in Loaders \ {l} : unit'[k] = unit[k]
    BY <2>1 DEF Memory
  <2>4. missing'[l] = {} /\ \A k \in Loaders \ {l} : missing'[k] = missing[k]
    BY <2>1 DEF Memory
  <2>5. Others(l)
    BY <2>1, <2>2, <2>3, <2>4 DEF Others
  <2>6. Rests(l)' /\ Spares(l)'
    BY <2>2, <2>3, <2>4 DEF Rests, Spares
  <2>7. Alone(l)'
    <3> SUFFICES ASSUME asked[l] # {} PROVE Alone(l)'
      BY DEF Alone
    <3>1. /\ \A m \in Loaders \ {l} : lpc[m] = "off"
          /\ detached = {} /\ asked[l] \subseteq Plan
          /\ ~ files[l] => Exact
          /\ \A b \in asked[l] : b \in unit[l] \/ b \in UNION left[l] \/ Done(b)
          /\ \A b \in unit[l] \cap Plan : raw[b] = 1
      BY DEF Vouching, Alone
    <3>2. \A b \in asked[l] : b \in UNION left'[l] \/ Done(b)'
      BY <1>1, <2>1, <3>1 DEF Done
    <3>3. \A m \in Loaders \ {l} : lpc'[m] = "off"
      BY <2>2, <3>1
    <3> QED
      BY <2>1, <2>2, <3>1, <3>2, <3>3 DEF Alone, Exact
  <2> QED
    BY <1>2, <2>5, <2>6, <2>7, VouchingKept
     DEF Vouching, Final, Untouched
<1>4. CASE Goto(l, "fail") /\ memory' = memory
  <2>1. /\ lpc' = [lpc EXCEPT ![l] = "fail"] /\ files' = files /\ left' = left
        /\ unit' = unit /\ missing' = missing
    BY <1>4 DEF memory, Goto
  <2>2. lpc'[l] = "fail" /\ \A k \in Loaders \ {l} : lpc'[k] = lpc[k]
    BY <2>1 DEF Memory
  <2>3. Others(l)
    BY <2>1, <2>2 DEF Others
  <2>4. Rests(l)' /\ Spares(l)' /\ Alone(l)'
    BY <2>1, <2>2 DEF Vouching, Rests, Spares, Alone
  <2> QED
    BY <1>2, <2>3, <2>4, VouchingKept
     DEF Vouching, Final, Untouched
<1> QED
  BY <1>3, <1>4

\* A statement loses its client, who goes on.
LEMMA VouchingDetach ==
    ASSUME Invariant, Vouching, NEW l \in Loaders, Detaches(l),
           Goto(l, "fail"), memory' = memory,
           raw' = raw, copied' = copied, ledger' = ledger,
           stage' = stage, asked' = asked, vouched' = vouched
    PROVE  Vouching'
<1> USE DEF Invariant
<1>1. /\ lpc' = [lpc EXCEPT ![l] = "fail"] /\ files' = files /\ left' = left
      /\ unit' = unit /\ missing' = missing
  BY DEF memory, Goto
<1>2. lpc'[l] = "fail" /\ \A k \in Loaders \ {l} : lpc'[k] = lpc[k]
  BY <1>1 DEF Memory
<1>3. Others(l) /\ lpc[l] # "off"
  BY <1>1, <1>2 DEF Others, Detaches, Writes
<1>4. Rests(l)' /\ Spares(l)'
  BY <1>1, <1>2 DEF Vouching, Rests, Spares
<1>5. Alone(l)'
  BY <1>1, <1>2 DEF Vouching, Alone
<1>6. BeforeFiles'
  BY DetachedSpares DEF Vouching, BeforeFiles, Exact
<1>7. \A b \in vouched : Done(b)' /\ Untouched(b)'
  BY DetachedSpares DEF Vouching, Final, Done, Untouched
<1> QED
  BY <1>3, <1>4, <1>5, <1>6, <1>7, VouchingKept DEF Vouching

LEMMA VouchingFails ==
    ASSUME Invariant, Vouching, NEW l \in Loaders, StatementFails(l)
    PROVE  Vouching'
<1>1. /\ Goto(l, "fail") /\ memory' = memory /\ stage' = stage /\ asked' = asked
      /\ vouched' = vouched /\ lpc[l] \in {"insert", "recount", "copy", "merge"}
  BY DEF StatementFails, history
<1>2. CASE warehouse' = warehouse
  BY <1>1, <1>2, VouchingGo
<1>3. CASE lpc[l] # "recount" /\ Executed(Statement(l)) /\ detached' = detached
  <2>1. lpc[l] \in {"insert", "copy", "merge"}
    BY <1>1, <1>3
  <2>2. CASE lpc[l] = "insert"
    BY <1>1, <1>3, <2>1, <2>2, ExecutedStatement, VouchingRows
  <2>3. CASE lpc[l] = "copy" /\ unit[l] \subseteq copied
    <3>1. warehouse' = warehouse
      BY <1>3, <2>1, <2>3, ExecutedStatement DEF warehouse
    <3> QED
      BY <1>1, <3>1, VouchingGo
  <2>4. CASE lpc[l] = "copy" /\ ~ (unit[l] \subseteq copied)
    BY <1>1, <1>3, <2>1, <2>4, ExecutedStatement, VouchingRows
  <2>5. CASE lpc[l] = "merge"
    BY <1>1, <1>3, <2>1, <2>5, ExecutedStatement, VouchingMerge
  <2> QED
    BY <2>1, <2>2, <2>3, <2>4, <2>5
<1>4. CASE Detaches(l) /\ raw' = raw /\ copied' = copied /\ ledger' = ledger
  BY <1>1, <1>4, VouchingDetach
<1> QED
  BY <1>2, <1>3, <1>4 DEF StatementFails

LEMMA VouchingLoaderStep ==
    ASSUME Invariant, Vouching, NEW l \in Loaders, LoaderStep(l)
    PROVE  Vouching'
<1> USE DEF Invariant
<1>1. CASE SkipBatch(l) \/ TakeUnit(l) \/ ReadCounts(l) \/ FinishLoader(l)
  BY <1>1, VouchingSkip, VouchingTake, VouchingCounts, VouchingFinish
<1>2. CASE InsertMissing(l)
  <2>1. /\ lpc[l] = "insert" /\ raw' = Added(missing[l]) /\ Goto(l, "recount")
        /\ memory' = memory /\ stage' = stage /\ copied' = copied /\ ledger' = ledger
        /\ detached' = detached /\ asked' = asked /\ vouched' = vouched
    BY <1>2 DEF InsertMissing, history
  <2> QED
    BY <2>1, VouchingRows
<1>3. CASE Recount(l)
  <2>1. /\ lpc[l] = "recount" /\ memory' = memory /\ warehouse' = warehouse
        /\ stage' = stage /\ asked' = asked /\ vouched' = vouched
        /\ Goto(l, IF Reconciled(l) THEN "merge" ELSE "fail")
    BY <1>3 DEF Recount, history
  <2>2. PICK pc \in {"merge", "fail"} : Goto(l, pc) /\ (pc = "merge" => Reconciled(l))
    BY <2>1
  <2>3. pc = "merge" => files[l] /\ \A b \in unit[l] \cap Plan : raw[b] = 1
    BY <2>1, <2>2 DEF Reconciled, Good, OnPath
  <2> QED
    BY <2>1, <2>2, <2>3, VouchingGo
<1>4. CASE CopyBatch(l)
  <2>1. /\ lpc[l] = "copy" /\ memory' = memory /\ ledger' = ledger /\ detached' = detached
        /\ stage' = stage /\ asked' = asked /\ vouched' = vouched
    BY <1>4 DEF CopyBatch, history
  <2>2. CASE unit[l] \subseteq copied
    <3>1. Goto(l, "fail") /\ warehouse' = warehouse
      BY <1>4, <2>1, <2>2 DEF CopyBatch, warehouse
    <3> QED
      BY <2>1, <3>1, VouchingGo
  <2>3. CASE ~ (unit[l] \subseteq copied)
    <3>1. Goto(l, "merge") /\ raw' = Added(unit[l]) /\ copied' = copied \cup unit[l]
      BY <1>4, <2>3 DEF CopyBatch
    <3> QED
      BY <2>1, <2>3, <3>1, VouchingRows
  <2> QED
    BY <2>2, <2>3
<1>5. CASE MergeLoaded(l)
  <2>1. /\ lpc[l] = "merge" /\ ledger' = Merged(unit[l], "LOADED") /\ raw' = raw
        /\ copied' = copied /\ detached' = detached /\ stage' = stage
        /\ asked' = asked /\ vouched' = vouched
    BY <1>5 DEF MergeLoaded, history
  <2> QED
    BY <1>5, <2>1, VouchingMerge
<1>6. CASE RecordFailure(l)
  <2>1. /\ lpc[l] = "fail" /\ EndLoader(l, 1) /\ stage' = stage
        /\ raw' = raw /\ copied' = copied /\ (detached' = detached \/ Detaches(l))
        /\ ledger' = Merged(Pending(l), "FAILED") \/ ledger' = ledger
    BY <1>6 DEF RecordFailure
  <2>2. \A b \in vouched : b \in Plan /\ ledger[b] = "LOADED" /\ b \notin Pending(l)
    BY DEF Vouching, Final, Done, Spares, Pending
  <2>3. \A b \in vouched : ledger'[b] = "LOADED"
    BY <2>1, <2>2 DEF Merged
  <2> QED
    BY <2>1, <2>3, VouchingEnd
<1> QED
  BY <1>1, <1>2, <1>3, <1>4, <1>5, <1>6 DEF LoaderStep

LEMMA VouchingStep == Invariant /\ Planned /\ Vouching /\ [Next]_vars => Vouching'
<1> SUFFICES ASSUME Invariant, Planned, Vouching, [Next]_vars PROVE Vouching'
  OBVIOUS
<1>1. stage # {} => stage' # {}
  BY CompactingStep DEF Invariant
<1>2. ASSUME NEW l \in Loaders, ReadFails(l) \/ KillLoader(l) PROVE Vouching'
  <2>1. /\ lpc[l] # "off" /\ (EndLoader(l, 1) \/ EndLoader(l, 137)) /\ stage' = stage
        /\ raw' = raw /\ copied' = copied /\ ledger' = ledger
        /\ detached' = detached \/ Detaches(l)
    BY <1>2 DEF ReadFails, KillLoader, warehouse
  <2>2. \A b \in vouched : ledger'[b] = "LOADED"
    BY <2>1 DEF Vouching, Final, Done
  <2> QED
    BY <2>1, <2>2, VouchingEnd
<1>3. CASE LoaderNext
  BY <1>2, <1>3, VouchingStart, VouchingLoaderStep, VouchingFails, VouchingLate
     DEF LoaderNext
<1>4. CASE UNCHANGED loaderVars
  BY <1>1, <1>4, VouchingStage
<1> QED
  BY <1>3, <1>4 DEF Next, vars

(* A loader that exits 0 and ran alone leaves every batch of its manifest in *)
(* RAW exactly once with a LOADED ledger row, and nothing that runs later    *)
(* disturbs it (process_run, process_compacted_file).                        *)
THEOREM OkAloneAlwaysFinal == Spec => []OkAloneIsFinal
<1>1. Vouching => OkAloneIsFinal
  BY DEF Vouching, Final, Done, OkAloneIsFinal
<1> QED
  BY <1>1, InvariantInit, InvariantStep, PlannedInit, PlannedStep, VouchingInit,
     VouchingStep, PTL DEF Spec

=============================================================================
