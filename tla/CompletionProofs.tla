---------------------------- MODULE CompletionProofs ----------------------------
(***************************************************************************)
(* What COMPLETED means and when it is reached: the second half of the     *)
(* inductive invariant of Extraction, on top of what ExtractionProofs      *)
(* shows of the durable things.  It is about totals: where a worker's      *)
(* total comes from, what the API has, and how far artifacts may lie ahead *)
(* of a checkpoint.                                                        *)
(***************************************************************************)
EXTENDS ExtractionProofs

-----------------------------------------------------------------------------
(* Layer 1: the steps of a worker, by what they do to its own numbers *)

\* A step of the worker of s leaves the other states' workers alone.
LEMMA WorkerFrame ==
    ASSUME Typed, NEW s \in States, WorkerStep(s)
    PROVE  /\ UNCHANGED apiTotal
           /\ \A t \in States \ {s} : UNCHANGED <<cp[t], local[t], page[t], pc[t]>>
<1>1. Functions
  BY TypedIsFits
<1>2. UNCHANGED apiTotal
  BY DEF WorkerStep, Skip, Begin, StopOnShutdown, Recover, RejectArtifact, Request,
     FetchFails, FetchPage, FindOrphan, Publish, PublishFails, AppendManifest,
     AppendUnsynced, AppendTorn, SaveCheckpoint, Settle, WorkerRaises, HandleRaised
<1>3. \A t \in States \ {s} : cp'[t] = cp[t]
  BY <1>1 DEF Functions, WorkerStep, Skip, Begin, StopOnShutdown, Recover,
     RejectArtifact, Request, FetchFails, FetchPage, FindOrphan, Publish, PublishFails,
     AppendManifest, AppendUnsynced, AppendTorn, SaveCheckpoint, Settle, WorkerRaises,
     HandleRaised, Fail, MarkFailed
<1>4. \A t \in States \ {s} : local'[t] = local[t] /\ page'[t] = page[t]
  BY <1>1 DEF Functions, WorkerStep, Skip, Begin, StopOnShutdown, Recover,
     RejectArtifact, Request, FetchFails, FetchPage, FindOrphan, Publish, PublishFails,
     AppendManifest, AppendUnsynced, AppendTorn, SaveCheckpoint, Settle, WorkerRaises,
     HandleRaised
<1>5. \A t \in States \ {s} : pc'[t] = pc[t]
  BY <1>1 DEF Functions, WorkerStep, Skip, Begin, StopOnShutdown, Recover,
     RejectArtifact, Request, FetchFails, FetchPage, FindOrphan, Publish, PublishFails,
     AppendManifest, AppendUnsynced, AppendTorn, SaveCheckpoint, Settle, WorkerRaises,
     HandleRaised, Fail, Goto
<1>6. QED
  BY <1>2, <1>3, <1>4, <1>5

\* The steps that move a worker and change none of its numbers.
Stays(s) ==
    \/ Skip(s) \/ Request(s) \/ AppendManifest(s) \/ AppendUnsynced(s)
    \/ AppendTorn(s) \/ WorkerRaises(s)

\* The steps with which a worker gives up.
Fails(s) ==
    \/ StopOnShutdown(s) \/ RejectArtifact(s) \/ FetchFails(s) \/ FindOrphan(s)
    \/ PublishFails(s)

LEMMA WorkerSteps ==
    ASSUME NEW s \in States, WorkerStep(s)
    PROVE  \/ Stays(s) \/ Fails(s) \/ Begin(s) \/ Recover(s) \/ FetchPage(s)
           \/ Publish(s) \/ SaveCheckpoint(s) \/ Settle(s) \/ HandleRaised(s)
BY DEF WorkerStep, Stays, Fails

\* Two checkpoints with the same numbers.
SameNumbers(c, d) == c.total = d.total /\ c.written = d.written /\ c.offset = d.offset

LEMMA StaysEffect ==
    ASSUME Typed, NEW s \in States, Stays(s)
    PROVE  /\ cp'[s] = cp[s] /\ local'[s] = local[s] /\ page'[s] = page[s]
           /\ artifacts' = artifacts
           /\ \/ pc[s] = "queued" /\ pc'[s] = "done" /\ cp[s].status = "COMPLETED"
              \/ pc[s] = "loop" /\ pc'[s] = "fetch" /\ Persisted(s, local[s].offset) = {}
              \/ pc[s] = "append" /\ pc'[s] = "save"
              \/ pc'[s] = "raised" /\ Fault /\ cp[s].status # "COMPLETED"
<1>1. Functions /\ Fits(s, cp[s], local[s], page[s], pc[s], artifacts)
  BY TypedIsFits
<1>2. UNCHANGED <<cp, local, page, artifacts>>
  BY DEF Stays, Skip, Request, AppendManifest, AppendUnsynced, AppendTorn, WorkerRaises
<1>3. \/ pc[s] = "queued" /\ pc'[s] = "done" /\ cp[s].status = "COMPLETED"
      \/ pc[s] = "loop" /\ pc'[s] = "fetch" /\ Persisted(s, local[s].offset) = {}
      \/ pc[s] = "append" /\ pc'[s] = "save"
      \/ pc'[s] = "raised" /\ Fault /\ cp[s].status # "COMPLETED"
  BY <1>1 DEF Functions, Stays, Skip, Request, AppendManifest, AppendUnsynced, AppendTorn,
     WorkerRaises, PickedUp, AtWork, Goto, AlreadyDone, Fits, Working, PCs
<1>4. QED
  BY <1>2, <1>3

LEMMA FailsEffect ==
    ASSUME Typed, NEW s \in States, Fails(s)
    PROVE  /\ cp'[s].status = "FAILED" /\ SameNumbers(cp'[s], cp[s])
           /\ local'[s] = local[s] /\ page'[s] = page[s]
           /\ pc[s] \in Working /\ pc'[s] = "done"
           /\ \/ artifacts' = artifacts
              \/ /\ pc[s] = "persist"
                 /\ artifacts' = artifacts \cup {[state |-> s, offset |-> local[s].offset,
                                                  count |-> page[s].count]}
<1>1. Functions
  BY TypedIsFits
<1>2. Fail(s) /\ UNCHANGED <<local, page>>
  BY DEF Fails, StopOnShutdown, RejectArtifact, FetchFails, FindOrphan, PublishFails
<1>3. cp'[s] = [cp[s] EXCEPT !.status = "FAILED"] /\ pc'[s] = "done"
  BY <1>1, <1>2 DEF Fail, MarkFailed, Goto, Functions
<1>4. cp[s] \in Checkpoints
  BY <1>1 DEF Functions
<1>5. cp'[s].status = "FAILED" /\ SameNumbers(cp'[s], cp[s])
  BY <1>3, <1>4 DEF Checkpoints, SameNumbers
<1>6. pc[s] \in Working
  BY DEF Fails, StopOnShutdown, RejectArtifact, FetchFails, FindOrphan, PublishFails,
     AtWork, Working, PCs
<1>7. \/ artifacts' = artifacts
      \/ /\ pc[s] = "persist"
         /\ artifacts' = artifacts \cup {[state |-> s, offset |-> local[s].offset,
                                          count |-> page[s].count]}
  BY DEF Fails, StopOnShutdown, RejectArtifact, FetchFails, FindOrphan, PublishFails, AtWork
<1>8. QED
  BY <1>2, <1>3, <1>5, <1>6, <1>7

\* A checkpoint that was read, or the default where that cost a fault.
ReadBack(s) ==
    \/ SameNumbers(cp'[s], cp[s]) /\ cp[s].status # "COMPLETED" /\ faults' = faults
    \/ SameNumbers(cp'[s], DefaultCheckpoint) /\ faults' = faults + 1

LEMMA LoadableEffect ==
    ASSUME Typed, NEW s \in States, NEW l \in Loadable(s), Costs(l.cost),
           NEW f \in Statuses, cp' = [cp EXCEPT ![s] = [l.c EXCEPT !.status = f]],
           l.c = cp[s] => cp[s].status # "COMPLETED"
    PROVE  ReadBack(s) /\ cp'[s].status = f /\ SameNumbers(cp'[s], l.c)
<1>1. Functions /\ faults \in Nat
  BY TypedIsFits DEF Surroundings
<1>2. l.c \in Checkpoints
  BY <1>1, DefaultTyped DEF Loadable, Functions
<1>3. cp'[s] = [l.c EXCEPT !.status = f]
  BY <1>1 DEF Functions
<1>4. cp'[s].status = f /\ SameNumbers(cp'[s], l.c)
  BY <1>2, <1>3 DEF Checkpoints, SameNumbers
<1>5. \/ l.c = cp[s] /\ l.cost = 0
      \/ l.c = DefaultCheckpoint /\ l.cost = 1
  BY DEF Loadable
<1>6. ReadBack(s)
  BY <1>1, <1>4, <1>5 DEF ReadBack, Costs
<1>7. QED
  BY <1>4, <1>6

LEMMA BeginEffect ==
    ASSUME Typed, NEW s \in States, Begin(s)
    PROVE  /\ ReadBack(s) /\ cp'[s].status = "IN_PROGRESS"
           /\ local'[s].total = cp'[s].total
           /\ pc[s] = "queued" /\ pc'[s] = "loop" /\ artifacts' = artifacts
<1>1. Functions
  BY TypedIsFits
<1>2. PICK l \in Loadable(s) :
        /\ Costs(l.cost) /\ ~AlreadyDone(l.c)
        /\ local' = [local EXCEPT ![s] =
             [offset |-> l.c.offset, written |-> l.c.written, total |-> l.c.total]]
        /\ cp' = [cp EXCEPT ![s] = [l.c EXCEPT !.status = "IN_PROGRESS"]]
  BY DEF Begin
<1>3. ReadBack(s) /\ cp'[s].status = "IN_PROGRESS" /\ SameNumbers(cp'[s], l.c)
  <2>1. "IN_PROGRESS" \in Statuses /\ (l.c = cp[s] => cp[s].status # "COMPLETED")
    BY <1>2 DEF AlreadyDone, Statuses
  <2>2. QED
    BY <1>2, <2>1, LoadableEffect
<1>4. local'[s].total = l.c.total
  BY <1>1, <1>2 DEF Functions
<1>5. pc[s] = "queued" /\ pc'[s] = "loop" /\ artifacts' = artifacts
  BY <1>1 DEF Begin, PickedUp, AtWork, Goto, Functions
<1>6. QED
  BY <1>3, <1>4, <1>5 DEF SameNumbers

LEMMA HandleRaisedEffect ==
    ASSUME Typed, NEW s \in States, HandleRaised(s)
    PROVE  /\ ReadBack(s) /\ cp'[s].status = "FAILED"
           /\ local'[s] = local[s] /\ page'[s] = page[s]
           /\ pc[s] = "raised" /\ pc'[s] = "done" /\ artifacts' = artifacts
<1>1. Functions /\ Fits(s, cp[s], local[s], page[s], pc[s], artifacts)
  BY TypedIsFits
<1>2. PICK l \in Loadable(s) :
        Costs(l.cost) /\ cp' = [cp EXCEPT ![s] = [l.c EXCEPT !.status = "FAILED"]]
  BY DEF HandleRaised
<1>3. pc[s] = "raised" /\ pc'[s] = "done" /\ UNCHANGED <<local, page, artifacts>>
  BY <1>1 DEF HandleRaised, AtWork, Goto, Functions
<1>4. cp[s].status # "COMPLETED"
  BY <1>1, <1>3 DEF Fits
<1>5. ReadBack(s) /\ cp'[s].status = "FAILED"
  BY <1>2, <1>4, LoadableEffect DEF Statuses
<1>6. QED
  BY <1>3, <1>5

LEMMA RecoverEffect ==
    ASSUME Typed, NEW s \in States, Recover(s)
    PROVE  /\ \E b \in artifacts : /\ b.state = s /\ b.offset = cp[s].offset
                                   /\ cp'[s].offset = EndOf(b)
           /\ local'[s].total = local[s].total /\ local'[s].written = cp'[s].offset
           /\ cp'[s].total = local[s].total /\ cp'[s].status = "IN_PROGRESS"
           /\ page'[s] = page[s] /\ artifacts' = artifacts /\ faults' = faults
           /\ pc[s] = "loop"
           /\ \/ pc'[s] = "loop"
              \/ pc'[s] = "settle" /\ ReachedEnd(local'[s].total, local'[s].written, BatchSize)
<1>1. Functions /\ Fits(s, cp[s], local[s], page[s], pc[s], artifacts)
      /\ artifacts \subseteq Batches
  BY TypedIsFits DEF Surroundings
<1>2. PICK b \in Persisted(s, local[s].offset) :
        /\ Valid(b)
        /\ local' = [local EXCEPT ![s] = Advanced(local[s], b.count)]
        /\ cp' = [cp EXCEPT ![s] = Checkpoint(Advanced(local[s], b.count), "IN_PROGRESS")]
        /\ pc' = [pc EXCEPT ![s] =
             IF ReachedEnd(Advanced(local[s], b.count).total,
                           Advanced(local[s], b.count).written, BatchSize)
             THEN "settle" ELSE "loop"]
  BY DEF Recover, Goto
<1> DEFINE l == Advanced(local[s], b.count)
<1>3. pc[s] = "loop" /\ UNCHANGED <<page, artifacts, faults>>
  BY DEF Recover, AtWork, NoFault
<1>4. local'[s] = l /\ cp'[s] = Checkpoint(l, "IN_PROGRESS")
      /\ pc'[s] = IF ReachedEnd(l.total, l.written, BatchSize) THEN "settle" ELSE "loop"
  BY <1>1, <1>2 DEF Functions
<1>5. /\ local[s].offset = cp[s].offset /\ local[s].written = local[s].offset
  BY <1>1, <1>3 DEF Fits, Working, PCs
<1>6. b \in artifacts /\ b.state = s /\ b.offset = cp[s].offset
  BY <1>2, <1>5 DEF Valid, Persisted
<1>7. l.total = local[s].total /\ l.written = EndOf(b) /\ l.offset = EndOf(b)
  BY <1>5, <1>6 DEF Advanced, EndOf
<1> HIDE DEF l
<1>8. /\ cp'[s].offset = EndOf(b) /\ cp'[s].total = local[s].total
      /\ cp'[s].status = "IN_PROGRESS"
  BY <1>4, <1>7 DEF Checkpoint
<1>9. QED
  BY <1>3, <1>4, <1>6, <1>7, <1>8

LEMMA FetchPageEffect ==
    ASSUME Typed, NEW s \in States, FetchPage(s)
    PROVE  /\ cp' = cp /\ artifacts' = artifacts /\ faults' = faults
           /\ local'[s].offset = local[s].offset /\ local'[s].written = local[s].written
           /\ local'[s].total = Captured(local[s].total, apiTotal[s])
           /\ page'[s].count \in 0..BatchSize
           /\ page'[s].count = 0 \/ local[s].offset + page'[s].count <= apiTotal[s]
           /\ Acceptable(local[s].offset, page'[s].count, apiTotal[s])
           /\ pc[s] = "fetch" /\ pc'[s] = AfterPage(page'[s].count)
<1>1. Functions
  BY TypedIsFits
<1>2. PICK count \in 0..BatchSize :
        /\ count = 0 \/ local[s].offset + count <= apiTotal[s]
        /\ Acceptable(local[s].offset, count, apiTotal[s])
        /\ page' = [page EXCEPT ![s] = [count |-> count, total |-> apiTotal[s]]]
        /\ pc' = [pc EXCEPT ![s] = AfterPage(count)]
  BY DEF FetchPage, Goto
<1>3. page'[s].count = count /\ pc'[s] = AfterPage(count)
  BY <1>1, <1>2 DEF Functions
<1>4. /\ pc[s] = "fetch" /\ UNCHANGED <<cp, artifacts, faults>>
      /\ local' = [local EXCEPT ![s].total = Captured(@, apiTotal[s])]
  BY DEF FetchPage, AtWork, NoFault
<1>5. /\ local'[s].offset = local[s].offset /\ local'[s].written = local[s].written
      /\ local'[s].total = Captured(local[s].total, apiTotal[s])
  BY <1>1, <1>4 DEF Functions, Locals
<1>6. QED
  BY <1>2, <1>3, <1>4, <1>5

LEMMA PublishEffect ==
    ASSUME Typed, NEW s \in States, Publish(s)
    PROVE  /\ cp' = cp /\ page' = page /\ faults' = faults
           /\ artifacts' = artifacts \cup {[state |-> s, offset |-> local[s].offset,
                                            count |-> page[s].count]}
           /\ local'[s].offset = local[s].offset + page[s].count
           /\ local'[s].total = local[s].total
           /\ ~Taken(s, local[s].offset)
           /\ pc[s] = "persist" /\ pc'[s] = "append"
<1>1. Functions
  BY TypedIsFits
<1>2. local'[s] = Advanced(local[s], page[s].count) /\ pc'[s] = "append"
  BY <1>1 DEF Functions, Publish, Goto
<1>3. /\ local'[s].offset = local[s].offset + page[s].count
      /\ local'[s].total = local[s].total
  BY <1>2 DEF Advanced
<1>4. QED
  BY <1>2, <1>3 DEF Publish, AtWork, NoFault

LEMMA SaveCheckpointEffect ==
    ASSUME Typed, NEW s \in States, SaveCheckpoint(s)
    PROVE  /\ cp'[s].offset = local[s].offset /\ cp'[s].total = local[s].total
           /\ cp'[s].status = "IN_PROGRESS"
           /\ local'[s] = local[s] /\ page'[s] = page[s]
           /\ artifacts' = artifacts /\ faults' = faults
           /\ pc[s] = "save"
           /\ \/ pc'[s] = "loop"
              \/ /\ pc'[s] = "settle"
                 /\ ReachedEnd(local[s].total, local[s].written, page[s].count)
<1>1. Functions
  BY TypedIsFits
<1>2. pc[s] = "save" /\ UNCHANGED <<local, page, artifacts, faults>>
  BY DEF SaveCheckpoint, AtWork, NoFault
<1>3. cp'[s] = Checkpoint(local[s], "IN_PROGRESS")
  BY <1>1 DEF Functions, SaveCheckpoint
<1>4. \/ pc'[s] = "loop"
      \/ /\ pc'[s] = "settle"
         /\ ReachedEnd(local[s].total, local[s].written, page[s].count)
  BY <1>1 DEF Functions, SaveCheckpoint, Goto
<1>5. QED
  BY <1>2, <1>3, <1>4 DEF Checkpoint

LEMMA SettleEffect ==
    ASSUME Typed, NEW s \in States, Settle(s)
    PROVE  /\ cp'[s].offset = local[s].offset /\ cp'[s].total = local[s].total
           /\ cp'[s].status = IF Reconciles(local[s].total, local[s].written)
                              THEN "COMPLETED" ELSE "FAILED"
           /\ local'[s] = local[s] /\ page'[s] = page[s]
           /\ artifacts' = artifacts /\ faults' = faults
           /\ pc[s] = "settle" /\ pc'[s] = "done"
<1>1. Functions
  BY TypedIsFits
<1>2. cp'[s] = Checkpoint(local[s], IF Reconciles(local[s].total, local[s].written)
                                    THEN "COMPLETED" ELSE "FAILED")
  BY <1>1 DEF Functions, Settle
<1>3. pc'[s] = "done"
  BY <1>1 DEF Functions, Settle, Goto
<1>4. pc[s] = "settle" /\ UNCHANGED <<local, page, artifacts, faults>>
  BY DEF Settle, AtWork, NoFault
<1>5. QED
  BY <1>2, <1>3, <1>4 DEF Checkpoint

-----------------------------------------------------------------------------
(* Layer 2: where a worker's total comes from, and that progress is kept *)

TotalInStep(s) ==
    /\ pc[s] \in {"loop", "fetch"} => local[s].total = cp[s].total
    /\ pc[s] \in Working /\ cp[s].total # NoTotal => local[s].total = cp[s].total
    /\ pc[s] \in {"persist", "append", "save"} => local[s].total # NoTotal

LEMMA WorkerTotal ==
    ASSUME Typed, NEW s \in States, TotalInStep(s), WorkerStep(s)
    PROVE  TotalInStep(s)'
<1> USE DEF TotalInStep, Working, PCs
<1>1. CASE Stays(s)
  BY <1>1, StaysEffect
<1>2. CASE Fails(s)
  BY <1>2, FailsEffect
<1>3. CASE Begin(s)
  BY <1>3, BeginEffect
<1>4. CASE Recover(s)
  BY <1>4, RecoverEffect
<1>5. CASE FetchPage(s)
  <2>1. apiTotal[s] # NoTotal
    BY AtWorker, NoTotalAssumption
  <2>2. pc'[s] \in {"settle", "persist"}
    BY <1>5, FetchPageEffect DEF AfterPage
  <2>3. /\ pc[s] = "fetch" /\ cp'[s] = cp[s]
        /\ local'[s].total # NoTotal
        /\ local[s].total # NoTotal => local'[s].total = local[s].total
    BY <1>5, <2>1, FetchPageEffect DEF Captured
  <2>4. QED
    BY <2>2, <2>3
<1>6. CASE Publish(s)
  <2>1. /\ cp'[s] = cp[s] /\ local'[s].total = local[s].total
        /\ pc[s] = "persist" /\ pc'[s] = "append"
    BY <1>6, PublishEffect
  <2>2. QED
    BY <2>1
<1>7. CASE SaveCheckpoint(s)
  BY <1>7, SaveCheckpointEffect
<1>8. CASE Settle(s)
  BY <1>8, SettleEffect
<1>9. CASE HandleRaised(s)
  BY <1>9, HandleRaisedEffect
<1>10. QED
  BY <1>1, <1>2, <1>3, <1>4, <1>5, <1>6, <1>7, <1>8, <1>9, WorkerSteps

\* The end of a process leaves every worker where it waits to be picked up.
LEMMA EndsEffect ==
    ASSUME NEW how, Ends(how), NEW s \in States
    PROVE  pc'[s] = "queued" /\ local'[s] = Fresh /\ page'[s] = NoPage
BY DEF Ends

LEMMA NextTotals ==
    ASSUME Typed, TotalsInStep, [Next]_vars
    PROVE  TotalsInStep'
<1> SUFFICES ASSUME NEW t \in States PROVE TotalInStep(t)'
  BY DEF TotalsInStep, TotalInStep
<1>1. TotalInStep(t)
  BY DEF TotalsInStep, TotalInStep
<1>2. ASSUME NEW s \in States, WorkerStep(s) PROVE TotalInStep(t)'
  <2>1. CASE t = s
    BY <1>1, <1>2, <2>1, WorkerTotal
  <2>2. CASE t # s
    BY <1>1, <1>2, <2>2, WorkerFrame DEF TotalInStep
  <2>3. QED
    BY <2>1, <2>2
<1>3. ASSUME NEW how, Ends(how) PROVE TotalInStep(t)'
  BY <1>3, EndsEffect DEF TotalInStep, Working, PCs
<1>4. CASE UNCHANGED <<cp, local, pc>>
  BY <1>1, <1>4 DEF TotalInStep
<1>5. QED
  BY <1>2, <1>3, <1>4 DEF Next, vars, Abort, ApiChange, Finish, FinishUnsynced,
     FinishUnwritten, Crash, RequestShutdown, Restart

LEMMA InitTotals == Init => TotalsInStep
BY DEF Init, TotalsInStep, Working, PCs

\* What ProgressIsKept asks of the checkpoint of s.
Progress(s) ==
    \/ /\ cp'[s].offset >= cp[s].offset
       /\ cp[s].total # NoTotal => cp'[s].total = cp[s].total
       /\ cp[s].status = "COMPLETED" => cp'[s].status = "COMPLETED"
    \/ /\ faults' > faults
       /\ cp'[s] = [DefaultCheckpoint EXCEPT !.status = cp'[s].status]

LEMMA SameIsProgress ==
    ASSUME Typed, NEW s \in States, cp'[s] = cp[s]
    PROVE  Progress(s)
<1>1. cp[s].offset \in Nat
  BY AtWorker DEF Fits, Checkpoints
<1>2. QED
  BY <1>1 DEF Progress

LEMMA WorkerProgress ==
    ASSUME Typed, NEW s \in States, TotalInStep(s), WorkerStep(s)
    PROVE  Progress(s)
<1>1. /\ Fits(s, cp[s], local[s], page[s], pc[s], artifacts)
      /\ cp[s].offset \in Nat /\ faults \in Nat
  BY AtWorker DEF Fits, Checkpoints, Surroundings
<1>2. cp'[s] \in Checkpoints
  BY WorkerTyped DEF Typed, TypeOK
<1>3. pc[s] \in Working => cp[s].status # "COMPLETED"
  BY <1>1 DEF Fits
<1>4. CASE Stays(s)
  BY <1>4, StaysEffect, SameIsProgress
<1>5. CASE Fails(s)
  BY <1>1, <1>3, <1>5, FailsEffect DEF SameNumbers, Progress
<1>6. ASSUME ReadBack(s) PROVE Progress(s)
  <2>1. CASE SameNumbers(cp'[s], cp[s]) /\ cp[s].status # "COMPLETED"
    BY <1>1, <2>1 DEF SameNumbers, Progress
  <2>2. CASE SameNumbers(cp'[s], DefaultCheckpoint) /\ faults' = faults + 1
    <3>1. cp'[s] = [status |-> cp'[s].status, total |-> cp'[s].total,
                    written |-> cp'[s].written, offset |-> cp'[s].offset]
      BY <1>2 DEF Checkpoints
    <3>2. cp'[s] = [DefaultCheckpoint EXCEPT !.status = cp'[s].status]
      BY <2>2, <3>1 DEF SameNumbers, DefaultCheckpoint
    <3>3. QED
      BY <1>1, <2>2, <3>2 DEF Progress
  <2>3. QED
    BY <1>6, <2>1, <2>2 DEF ReadBack
<1>7. CASE Begin(s)
  BY <1>6, <1>7, BeginEffect
<1>8. CASE HandleRaised(s)
  BY <1>6, <1>8, HandleRaisedEffect
<1>9. CASE Recover(s)
  <2>1. PICK b \in artifacts : /\ b.state = s /\ b.offset = cp[s].offset
                               /\ cp'[s].offset = EndOf(b)
    BY <1>9, RecoverEffect
  <2>2. cp'[s].offset >= cp[s].offset
    BY <2>1 DEF EndOf, Typed, TypeOK, Batches
  <2>3. pc[s] = "loop" /\ cp'[s].total = local[s].total
    BY <1>9, RecoverEffect
  <2>4. QED
    BY <1>3, <2>2, <2>3 DEF TotalInStep, Progress, Working, PCs
<1>10. CASE FetchPage(s) \/ Publish(s)
  BY <1>10, FetchPageEffect, PublishEffect, SameIsProgress
<1>11. CASE SaveCheckpoint(s)
  <2>1. /\ pc[s] = "save" /\ cp'[s].total = local[s].total
        /\ cp'[s].offset = local[s].offset
    BY <1>11, SaveCheckpointEffect
  <2>2. local[s].offset = cp[s].offset + page[s].count /\ page[s].count \in Nat
    BY <1>1, <2>1 DEF Fits, Pages
  <2>3. QED
    BY <1>1, <1>3, <2>1, <2>2 DEF TotalInStep, Progress, Working, PCs
<1>12. CASE Settle(s)
  <2>1. /\ pc[s] = "settle" /\ cp'[s].total = local[s].total
        /\ cp'[s].offset = local[s].offset
    BY <1>12, SettleEffect
  <2>2. local[s].offset = cp[s].offset
    BY <1>1, <2>1 DEF Fits
  <2>3. QED
    BY <1>1, <1>3, <2>1, <2>2 DEF TotalInStep, Progress, Working, PCs
<1>13. QED
  BY <1>4, <1>5, <1>7, <1>8, <1>9, <1>10, <1>11, <1>12, WorkerSteps

\* A checkpoint never goes back and never changes its total, except that one which
\* could not be read starts over from nothing: for any number of states and faults.
THEOREM ProgressAlwaysKept == Spec => ProgressIsKept
<1>1. ASSUME Typed, TotalsInStep, [Next]_vars, NEW t \in States
      PROVE  Progress(t)
  <2>1. ASSUME NEW s \in States, WorkerStep(s) PROVE Progress(t)
    <3>1. CASE t = s
      BY <1>1, <2>1, <3>1, WorkerProgress DEF TotalsInStep, TotalInStep
    <3>2. CASE t # s
      BY <1>1, <2>1, <3>2, WorkerFrame, SameIsProgress
    <3>3. QED
      BY <3>1, <3>2
  <2>2. CASE UNCHANGED cp
    BY <1>1, <2>2, SameIsProgress
  <2>3. QED
    BY <1>1, <2>1, <2>2 DEF Next, vars, Abort, ApiChange, Finish, FinishUnsynced,
       FinishUnwritten, Crash, RequestShutdown, Restart
<1>2. Typed /\ TotalsInStep /\ [Next]_vars => [\A s \in States : Progress(s)]_vars
  BY <1>1
<1>3. QED
  BY <1>2, InitTyped, NextTyped, InitTotals, NextTotals, PTL
  DEF Spec, ProgressIsKept, Progress

-----------------------------------------------------------------------------
(* Layer 3: nothing exceeds what the API has, unless records are withdrawn *)

\* WithinApi, for one state.
WithinAt(s) ==
    /\ AllBefore(s, apiTotal[s])
    /\ cp[s].total # NoTotal => cp[s].total <= apiTotal[s]
    /\ local[s].total # NoTotal => local[s].total <= apiTotal[s]
    /\ pc[s] = "persist" =>
         /\ local[s].offset + page[s].count <= apiTotal[s]
         /\ page[s].count < BatchSize => local[s].offset + page[s].count >= local[s].total
    /\ pc[s] \in {"append", "save"} /\ page[s].count < BatchSize
         => local[s].offset >= local[s].total

LEMMA WithinIsAt ==
    ASSUME artifacts \subseteq Batches
    PROVE  WithinApi <=> \A s \in States : WithinAt(s)
BY DEF WithinApi, WithinAt, AllBefore, Batches

LEMMA WithinIsAtNext ==
    ASSUME artifacts' \subseteq Batches
    PROVE  WithinApi' <=> \A s \in States : WithinAt(s)'
BY DEF WithinApi, WithinAt, AllBefore, Batches

\* The only artifact a worker adds is the page it holds.
LEMMA WorkerArtifacts ==
    ASSUME Typed, NEW s \in States, WorkerStep(s)
    PROVE  \/ artifacts' = artifacts
           \/ /\ pc[s] = "persist"
              /\ artifacts' = artifacts \cup {[state |-> s, offset |-> local[s].offset,
                                               count |-> page[s].count]}
BY WorkerSteps, StaysEffect, FailsEffect, BeginEffect, RecoverEffect, FetchPageEffect,
   PublishEffect, SaveCheckpointEffect, SettleEffect, HandleRaisedEffect

\* A state's artifacts as a bound sees them: a step of another worker changes nothing,
\* one of its own keeps a bound that the page in hand respects.
LEMMA BoundsKept ==
    ASSUME Typed, NEW s \in States, WorkerStep(s), NEW t \in States, NEW p \in Nat,
           AllBefore(t, p),
           t = s /\ pc[s] = "persist" => local[s].offset + page[s].count <= p
    PROVE  \A a \in artifacts' : a.state = t => EndOf(a) <= p
<1>1. CASE artifacts' = artifacts
  BY <1>1 DEF AllBefore
<1>2. CASE /\ pc[s] = "persist"
           /\ artifacts' = artifacts \cup {[state |-> s, offset |-> local[s].offset,
                                            count |-> page[s].count]}
  BY <1>2 DEF AllBefore, EndOf
<1>3. QED
  BY <1>1, <1>2, WorkerArtifacts

LEMMA ApiTotalNat ==
    ASSUME Typed, NEW s \in States
    PROVE  apiTotal[s] \in Nat /\ apiTotal[s] # NoTotal
BY AtWorker, NoTotalAssumption

LEMMA WorkerWithin ==
    ASSUME Typed, NEW s \in States, WithinAt(s), WorkerStep(s)
    PROVE  WithinAt(s)'
<1>1. /\ Fits(s, cp[s], local[s], page[s], pc[s], artifacts)
      /\ apiTotal[s] \in Nat /\ apiTotal[s] # NoTotal /\ apiTotal'[s] = apiTotal[s]
      /\ local[s].offset \in Nat /\ page[s].count \in Nat
      /\ local[s].total \in Totals
  BY AtWorker, ApiTotalNat, WorkerFrame DEF Fits, Locals, Pages
<1>2. AllBefore(s, apiTotal[s])'
  <2>1. \A a \in artifacts' : a.state = s => EndOf(a) <= apiTotal[s]
    BY <1>1, BoundsKept DEF WithinAt
  <2>2. QED
    BY <1>1, <2>1 DEF AllBefore, EndOf
<1> DEFINE Rest ==
      /\ cp'[s].total # NoTotal => cp'[s].total <= apiTotal[s]
      /\ local'[s].total # NoTotal => local'[s].total <= apiTotal[s]
      /\ pc'[s] = "persist" =>
           /\ local'[s].offset + page'[s].count <= apiTotal[s]
           /\ page'[s].count < BatchSize
                => local'[s].offset + page'[s].count >= local'[s].total
      /\ pc'[s] \in {"append", "save"} /\ page'[s].count < BatchSize
           => local'[s].offset >= local'[s].total
<1> SUFFICES Rest
  BY <1>1, <1>2 DEF WithinAt
<1>3. CASE Stays(s)
  BY <1>3, StaysEffect DEF WithinAt
<1>4. CASE Fails(s)
  BY <1>4, FailsEffect DEF WithinAt, SameNumbers
<1>5. CASE Begin(s)
  BY <1>5, BeginEffect DEF WithinAt, ReadBack, SameNumbers, DefaultCheckpoint
<1>6. CASE HandleRaised(s)
  BY <1>6, HandleRaisedEffect DEF WithinAt, ReadBack, SameNumbers, DefaultCheckpoint
<1>7. CASE Recover(s)
  BY <1>7, RecoverEffect DEF WithinAt
<1>8. CASE FetchPage(s)
  <2>1. /\ cp'[s] = cp[s] /\ local'[s].offset = local[s].offset
        /\ page'[s].count \in 0..BatchSize
        /\ page'[s].count = 0 \/ local[s].offset + page'[s].count <= apiTotal[s]
        /\ pc'[s] = AfterPage(page'[s].count)
    BY <1>8, FetchPageEffect
  <2>2. page'[s].count >= BatchSize \/ local[s].offset + page'[s].count >= apiTotal[s]
    BY <1>8, FetchPageEffect DEF Acceptable
  <2>3. local'[s].total \in Nat /\ local'[s].total <= apiTotal[s]
    BY <1>1, <1>8, FetchPageEffect DEF Captured, WithinAt, Totals
  <2>4. QED
    BY <1>1, <2>1, <2>2, <2>3, SizesAssumption DEF AfterPage, WithinAt
<1>9. CASE Publish(s)
  BY <1>1, <1>9, PublishEffect DEF WithinAt
<1>10. CASE SaveCheckpoint(s)
  BY <1>10, SaveCheckpointEffect DEF WithinAt
<1>11. CASE Settle(s)
  BY <1>11, SettleEffect DEF WithinAt
<1>12. QED
  BY <1>3, <1>4, <1>5, <1>6, <1>7, <1>8, <1>9, <1>10, <1>11, WorkerSteps

\* A total that grows, or nothing at all happening to a state, keeps the bounds.
LEMMA GrowthWithin ==
    ASSUME Typed, NEW t \in States, WithinAt(t), apiTotal'[t] \in Nat,
           apiTotal'[t] >= apiTotal[t], UNCHANGED <<cp[t], local[t], page[t], pc[t]>>,
           \A a \in artifacts' : a.state = t => a \in artifacts
    PROVE  WithinAt(t)'
<1>1. /\ Fits(t, cp[t], local[t], page[t], pc[t], artifacts)
      /\ apiTotal[t] \in Nat /\ artifacts \subseteq Batches
  BY AtWorker, ApiTotalNat DEF Surroundings
<1>2. \A a \in artifacts' : a.state = t => EndOf(a) <= apiTotal'[t]
  BY <1>1 DEF WithinAt, AllBefore, EndOf, Batches
<1>3. AllBefore(t, apiTotal[t])'
  BY <1>2 DEF AllBefore, EndOf
<1>4. /\ cp'[t].total # NoTotal => cp'[t].total <= apiTotal'[t]
      /\ local'[t].total # NoTotal => local'[t].total <= apiTotal'[t]
      /\ pc'[t] = "persist" => local'[t].offset + page'[t].count <= apiTotal'[t]
  BY <1>1 DEF WithinAt, Fits, Checkpoints, Locals, Pages, Totals
<1>5. QED
  BY <1>3, <1>4 DEF WithinAt

LEMMA NextWithin ==
    ASSUME NeverShrinks, Typed, WithinApi, [Next]_vars
    PROVE  WithinApi'
<1>1. artifacts \subseteq Batches /\ artifacts' \subseteq Batches
      /\ apiTotal \in [States -> 0..MaxTotal]
  BY NextTyped DEF Typed, TypeOK
<1> SUFFICES ASSUME NEW t \in States PROVE WithinAt(t)'
  BY <1>1, WithinIsAtNext
<1>2. WithinAt(t) /\ apiTotal[t] \in Nat
  BY <1>1, WithinIsAt, BoundsAssumption
<1>3. ASSUME NEW s \in States, WorkerStep(s) PROVE WithinAt(t)'
  <2>1. CASE t = s
    BY <1>2, <1>3, <2>1, WorkerWithin
  <2>2. CASE t # s
    <3>1. \A a \in artifacts' : a.state = t => a \in artifacts
      BY <1>3, <2>2, WorkerArtifacts
    <3>2. /\ apiTotal'[t] = apiTotal[t]
          /\ UNCHANGED <<cp[t], local[t], page[t], pc[t]>>
      BY <1>3, <2>2, WorkerFrame
    <3>3. QED
      BY <1>2, <3>1, <3>2, GrowthWithin
  <2>3. QED
    BY <2>1, <2>2
<1>4. ASSUME NEW how, Ends(how), UNCHANGED <<apiTotal, cp, artifacts>>
      PROVE  WithinAt(t)'
  <2>1. pc'[t] = "queued" /\ local'[t].total = NoTotal
    BY <1>4, EndsEffect DEF Fresh
  <2>2. AllBefore(t, apiTotal[t])'
    BY <1>2, <1>4 DEF WithinAt, AllBefore
  <2>3. QED
    BY <1>2, <1>4, <2>1, <2>2 DEF WithinAt
<1>5. ASSUME NEW s \in States, ApiChange(s) PROVE WithinAt(t)'
  <2>1. apiTotal'[t] \in Nat /\ apiTotal'[t] >= apiTotal[t]
    BY <1>1, <1>2, <1>5, BoundsAssumption DEF ApiChange, NeverShrinks
  <2>2. UNCHANGED <<cp, local, page, pc, artifacts>>
    BY <1>5 DEF ApiChange
  <2>3. QED
    BY <1>2, <2>1, <2>2, GrowthWithin
<1>6. CASE UNCHANGED <<apiTotal, cp, local, page, pc, artifacts>>
  BY <1>2, <1>6, GrowthWithin
<1>7. QED
  BY <1>3, <1>4, <1>5, <1>6 DEF Next, vars, Abort, Finish, FinishUnsynced,
     FinishUnwritten, Crash, RequestShutdown, Restart

LEMMA InitWithin == Init => WithinApi
BY DEF Init, WithinApi, DefaultCheckpoint, Fresh

-----------------------------------------------------------------------------
(* Layer 4: how far artifacts lie ahead of a checkpoint *)

\* NothingBeyond, for one state: no artifact begins beyond p.
NoneAfter(s, p) == \A a \in artifacts : a.state = s => a.offset <= p

BeyondAt(s) ==
    /\ cp[s].total # NoTotal => NoneAfter(s, cp[s].offset)
    /\ pc[s] \in {"append", "save"} => AllBefore(s, local[s].offset)
    /\ pc[s] = "settle" =>
         AllBefore(s, cp[s].offset) /\ Reconciles(local[s].total, local[s].written)
    /\ cp[s].status = "COMPLETED" => AllBefore(s, cp[s].offset)

LEMMA BeyondIsAt == NothingBeyond <=> \A s \in States : BeyondAt(s)
BY DEF NothingBeyond, BeyondAt, NoneAfter

LEMMA BeyondIsAtNext == NothingBeyond' <=> \A s \in States : BeyondAt(s)'
BY DEF NothingBeyond, BeyondAt, NoneAfter

LEMMA EndNotBefore ==
    ASSUME artifacts \subseteq Batches, NEW s, NEW p \in Nat, AllBefore(s, p)
    PROVE  NoneAfter(s, p)
BY DEF AllBefore, NoneAfter, EndOf, Batches

\* A batch none begins after is the last one: tiling leaves no other place.
LEMMA LastBatch ==
    ASSUME artifacts \subseteq Batches, ArtifactsTile, NEW s, NEW b \in artifacts,
           b.state = s, NoneAfter(s, b.offset)
    PROVE  AllBefore(s, EndOf(b))
<1> SUFFICES ASSUME NEW a \in artifacts, a.state = s PROVE EndOf(a) <= EndOf(b)
  BY DEF AllBefore
<1>1. a \in Batches /\ b \in Batches /\ a.offset <= b.offset
  BY DEF NoneAfter
<1>2. a = b \/ EndOf(a) <= b.offset \/ EndOf(b) <= a.offset
  BY DEF ArtifactsTile
<1>3. /\ a.offset \in Nat /\ a.count \in Nat \ {0}
      /\ b.offset \in Nat /\ b.count \in Nat \ {0}
  BY <1>1 DEF Batches
<1>4. QED
  BY <1>1, <1>2, <1>3 DEF EndOf

\* Where a worker holds a page whose name is free, its checkpoint is the frontier.
LEMMA FreeIsFrontier ==
    ASSUME Typed, Tiling, NEW s \in States, ~Taken(s, cp[s].offset),
           cp[s].offset <= MaxTotal
    PROVE  AllBefore(s, cp[s].offset)
<1>1. cp[s].offset \in 0..MaxTotal
  BY BoundsAssumption DEF Typed, TypeOK, Checkpoints
<1>2. Boundary(s, cp[s].offset)
  BY DEF Tiling, CheckpointsAtBoundary
<1>3. QED
  BY <1>1, <1>2 DEF Tiling, Frontier, AllBefore

LEMMA WorkerBeyond ==
    ASSUME Typed, Tiling, NEW s \in States, WithinAt(s), TotalInStep(s), BeyondAt(s),
           WorkerStep(s)
    PROVE  BeyondAt(s)'
<1>1. /\ Fits(s, cp[s], local[s], page[s], pc[s], artifacts)
      /\ apiTotal[s] \in Nat /\ apiTotal[s] # NoTotal
      /\ cp[s].offset \in Nat /\ local[s].offset \in Nat /\ page[s].count \in Nat
      /\ local[s].total \in Totals /\ artifacts \subseteq Batches
  BY AtWorker, ApiTotalNat DEF Fits, Checkpoints, Locals, Pages, Surroundings
<1> DEFINE Begun(p) == \A a \in artifacts' : a.state = s => a.offset <= p
           Ended(p) == \A a \in artifacts' : a.state = s => EndOf(a) <= p
           Goal ==
             /\ cp'[s].total # NoTotal => Begun(cp'[s].offset)
             /\ pc'[s] \in {"append", "save"} => Ended(local'[s].offset)
             /\ pc'[s] = "settle" => /\ Ended(cp'[s].offset)
                                     /\ Reconciles(local'[s].total, local'[s].written)
             /\ cp'[s].status = "COMPLETED" => Ended(cp'[s].offset)
<1> SUFFICES Goal
  BY DEF BeyondAt, AllBefore, NoneAfter, EndOf
<1>2. CASE Stays(s)
  BY <1>2, StaysEffect DEF BeyondAt, AllBefore, NoneAfter
<1>3. CASE Fails(s)
  <2>1. cp'[s].status = "FAILED" /\ pc'[s] = "done" /\ SameNumbers(cp'[s], cp[s])
    BY <1>3, FailsEffect
  <2>2. cp[s].total # NoTotal => Begun(cp[s].offset)
    <3>1. CASE artifacts' = artifacts
      BY <3>1 DEF BeyondAt, NoneAfter
    <3>2. CASE /\ pc[s] = "persist"
               /\ artifacts' = artifacts \cup {[state |-> s, offset |-> local[s].offset,
                                                count |-> page[s].count]}
      BY <1>1, <3>2 DEF BeyondAt, NoneAfter, Fits
    <3>3. QED
      BY <1>3, <3>1, <3>2, FailsEffect
  <2>3. QED
    BY <2>1, <2>2 DEF SameNumbers
<1>4. ASSUME ReadBack(s), artifacts' = artifacts, cp'[s].status # "COMPLETED",
             pc'[s] \in {"loop", "done"}
      PROVE  Goal
  BY <1>4 DEF ReadBack, SameNumbers, DefaultCheckpoint, BeyondAt, NoneAfter
<1>5. CASE Begin(s)
  BY <1>4, <1>5, BeginEffect
<1>6. CASE HandleRaised(s)
  BY <1>4, <1>6, HandleRaisedEffect
<1>7. CASE Recover(s)
  <2>1. PICK b \in artifacts : /\ b.state = s /\ b.offset = cp[s].offset
                               /\ cp'[s].offset = EndOf(b)
    BY <1>7, RecoverEffect
  <2>2. /\ pc[s] = "loop" /\ artifacts' = artifacts /\ cp'[s].status = "IN_PROGRESS"
        /\ local'[s].total = local[s].total /\ cp'[s].total = local[s].total
        /\ local'[s].written = cp'[s].offset /\ pc'[s] \in {"loop", "settle"}
        /\ pc'[s] = "settle" => ReachedEnd(local'[s].total, local'[s].written, BatchSize)
    BY <1>7, RecoverEffect
  <2>3. local[s].total # NoTotal => NoneAfter(s, b.offset)
    BY <2>1, <2>2 DEF TotalInStep, BeyondAt
  <2>4. local[s].total # NoTotal => AllBefore(s, EndOf(b))
    BY <1>1, <2>1, <2>3, LastBatch DEF Tiling
  <2>5. EndOf(b) \in Nat
    BY <1>1, <2>1 DEF Batches, EndOf
  <2>6. local[s].total # NoTotal => NoneAfter(s, EndOf(b))
    BY <1>1, <2>4, <2>5, EndNotBefore
  <2>7. pc'[s] = "settle" => Reconciles(local'[s].total, local'[s].written)
                             /\ local[s].total # NoTotal
    BY <2>2, SizesAssumption DEF ReachedEnd, Reconciles
  <2>8. QED
    BY <2>1, <2>2, <2>4, <2>6, <2>7 DEF AllBefore, NoneAfter
<1>8. CASE FetchPage(s)
  <2>1. /\ cp'[s] = cp[s] /\ artifacts' = artifacts
        /\ pc[s] = "fetch" /\ pc'[s] = AfterPage(page'[s].count)
        /\ local'[s].written = local[s].written
        /\ local'[s].total = Captured(local[s].total, apiTotal[s])
        /\ Acceptable(local[s].offset, page'[s].count, apiTotal[s])
    BY <1>8, FetchPageEffect
  <2>2. /\ local[s].offset = cp[s].offset /\ local[s].written = local[s].offset
        /\ cp[s].status # "COMPLETED"
    BY <1>1, <2>1 DEF Fits, Working, PCs
  <2>3. CASE page'[s].count = 0
    <3>1. local[s].offset >= apiTotal[s]
      BY <1>1, <2>1, <2>3, SizesAssumption DEF Acceptable
    <3>2. AllBefore(s, cp[s].offset)
      BY <1>1, <2>2, <3>1 DEF WithinAt, AllBefore, EndOf, Batches
    <3>3. Reconciles(local'[s].total, local'[s].written)
      BY <1>1, <2>1, <2>2, <3>1 DEF WithinAt, Captured, Reconciles, Totals
    <3>4. QED
      BY <2>1, <2>2, <2>3, <3>2, <3>3 DEF AfterPage, BeyondAt, AllBefore, NoneAfter
  <2>4. CASE page'[s].count # 0
    BY <2>1, <2>2, <2>4 DEF AfterPage, BeyondAt, NoneAfter
  <2>5. QED
    BY <2>3, <2>4
<1>9. CASE Publish(s)
  <2>1. /\ cp'[s] = cp[s] /\ ~Taken(s, local[s].offset)
        /\ local'[s].offset = local[s].offset + page[s].count
        /\ pc[s] = "persist" /\ pc'[s] = "append"
    BY <1>9, PublishEffect
  <2>2. artifacts' = artifacts \cup {[state |-> s, offset |-> local[s].offset,
                                      count |-> page[s].count]}
    BY <1>9, PublishEffect
  <2>3. /\ local[s].offset = cp[s].offset /\ cp[s].status # "COMPLETED"
        /\ cp[s].offset <= MaxTotal
    BY <1>1, <2>1, BoundsAssumption DEF Fits, Working, PCs
  <2>4. AllBefore(s, cp[s].offset)
    BY <2>1, <2>3, FreeIsFrontier
  <2>5. \A a \in artifacts : EndOf(a) \in Nat /\ a.offset <= EndOf(a) /\ a.offset \in Nat
    BY <1>1 DEF Batches, EndOf
  <2>6. Ended(local'[s].offset) /\ Begun(cp[s].offset)
    <3>1. ASSUME NEW a \in artifacts, a.state = s
          PROVE  EndOf(a) <= local'[s].offset /\ a.offset <= cp[s].offset
      BY <1>1, <2>1, <2>3, <2>4, <2>5, <3>1 DEF AllBefore
    <3>2. ASSUME NEW a, a = [state |-> s, offset |-> local[s].offset, count |-> page[s].count]
          PROVE  EndOf(a) <= local'[s].offset /\ a.offset <= cp[s].offset
      BY <1>1, <2>1, <2>3, <3>2 DEF EndOf
    <3>3. QED
      BY <2>2, <3>1, <3>2
  <2>7. QED
    BY <2>1, <2>3, <2>6
<1>10. CASE SaveCheckpoint(s)
  <2>1. /\ cp'[s].offset = local[s].offset /\ cp'[s].status = "IN_PROGRESS"
        /\ local'[s] = local[s] /\ artifacts' = artifacts /\ pc[s] = "save"
        /\ pc'[s] \in {"loop", "settle"}
        /\ pc'[s] = "settle" => ReachedEnd(local[s].total, local[s].written, page[s].count)
    BY <1>10, SaveCheckpointEffect
  <2>2. AllBefore(s, local[s].offset)
    BY <2>1 DEF BeyondAt
  <2>3. NoneAfter(s, local[s].offset)
    BY <1>1, <2>2, EndNotBefore
  <2>4. local[s].written = local[s].offset
    BY <1>1, <2>1 DEF Fits, Working, PCs
  <2>5. pc'[s] = "settle" => Reconciles(local[s].total, local[s].written)
    BY <2>1, <2>4 DEF ReachedEnd, Reconciles, WithinAt
  <2>6. QED
    BY <2>1, <2>2, <2>3, <2>5 DEF AllBefore, NoneAfter
<1>11. CASE Settle(s)
  <2>1. /\ cp'[s].offset = local[s].offset /\ artifacts' = artifacts
        /\ pc[s] = "settle" /\ pc'[s] = "done"
    BY <1>11, SettleEffect
  <2>2. AllBefore(s, cp[s].offset) /\ local[s].offset = cp[s].offset
    BY <1>1, <2>1 DEF BeyondAt, Fits
  <2>3. NoneAfter(s, cp[s].offset)
    BY <1>1, <2>2, EndNotBefore
  <2>4. QED
    BY <2>1, <2>2, <2>3 DEF AllBefore, NoneAfter
<1>12. QED
  BY <1>2, <1>3, <1>5, <1>6, <1>7, <1>8, <1>9, <1>10, <1>11, WorkerSteps

LEMMA NextBeyond ==
    ASSUME Typed, Tiling, WithinApi, TotalsInStep, NothingBeyond, [Next]_vars
    PROVE  NothingBeyond'
<1> SUFFICES ASSUME NEW t \in States PROVE BeyondAt(t)'
  BY BeyondIsAtNext
<1>1. BeyondAt(t) /\ WithinAt(t) /\ TotalInStep(t)
  BY BeyondIsAt, WithinIsAt DEF Typed, TypeOK, TotalsInStep, TotalInStep
<1>2. ASSUME NEW s \in States, WorkerStep(s) PROVE BeyondAt(t)'
  <2>1. CASE t = s
    BY <1>1, <1>2, <2>1, WorkerBeyond
  <2>2. CASE t # s
    <3>1. \A a \in artifacts' : a.state = t => a \in artifacts
      BY <1>2, <2>2, WorkerArtifacts
    <3>2. UNCHANGED <<cp[t], local[t], page[t], pc[t]>>
      BY <1>2, <2>2, WorkerFrame
    <3>3. QED
      BY <1>1, <3>1, <3>2 DEF BeyondAt, AllBefore, NoneAfter, EndOf
  <2>3. QED
    BY <2>1, <2>2
<1>3. ASSUME NEW how, Ends(how), UNCHANGED <<cp, artifacts>> PROVE BeyondAt(t)'
  <2>1. pc'[t] = "queued"
    BY <1>3, EndsEffect
  <2>2. QED
    BY <1>1, <1>3, <2>1 DEF BeyondAt, AllBefore, NoneAfter
<1>4. CASE UNCHANGED <<cp, local, pc, artifacts>>
  BY <1>1, <1>4 DEF BeyondAt, AllBefore, NoneAfter
<1>5. QED
  BY <1>2, <1>3, <1>4 DEF Next, vars, Abort, ApiChange, Finish, FinishUnsynced,
     FinishUnwritten, Crash, RequestShutdown, Restart

LEMMA InitBeyond == Init => NothingBeyond
BY DEF Init, NothingBeyond, AllBefore, DefaultCheckpoint

-----------------------------------------------------------------------------
(* Layer 5: without a fault *)

UnprovokedAt(s) ==
    /\ cp[s].status # "FAILED" /\ pc[s] # "raised"
    /\ pc[s] = "done" => cp[s].status = "COMPLETED"
    /\ pc[s] \in {"fetch", "persist"} => ~Taken(s, local[s].offset)
    /\ \A a \in artifacts \ manifest : a.state = s => pc[s] = "append" /\ a = InHand(s)

LEMMA UnprovokedIsAt ==
    ASSUME artifacts \subseteq Batches
    PROVE  Unprovoked <=> /\ ~shutdown /\ ~torn /\ exit # "failed"
                          /\ \A s \in States : UnprovokedAt(s)
BY DEF Unprovoked, UnprovokedAt, Batches

LEMMA UnprovokedIsAtNext ==
    ASSUME artifacts' \subseteq Batches
    PROVE  Unprovoked' <=> /\ ~shutdown' /\ ~torn' /\ exit' # "failed"
                           /\ \A s \in States : UnprovokedAt(s)'
BY DEF Unprovoked, UnprovokedAt, Batches

\* A step that is no fault, where none happened before, is one of these.
LEMMA FaultlessSteps ==
    ASSUME Typed, manifest \subseteq artifacts, ~shutdown, NEW s \in States,
           UnprovokedAt(s), WorkerStep(s), faults = 0, faults' = 0
    PROVE  \/ Skip(s) \/ Begin(s) \/ Recover(s) \/ Request(s) \/ FetchPage(s) \/ Publish(s)
           \/ AppendManifest(s) \/ SaveCheckpoint(s) \/ Settle(s)
<1>1. ~Fault
  BY DEF Fault
<1>2. ~StopOnShutdown(s)
  BY DEF StopOnShutdown
<1>3. ~RejectArtifact(s)
  BY <1>1 DEF RejectArtifact, Persisted, Valid
<1>4. ~FetchFails(s)
  BY <1>1 DEF FetchFails
<1>5. ~FindOrphan(s)
  BY DEF FindOrphan, AtWork, UnprovokedAt
<1>6. ~PublishFails(s) /\ ~AppendUnsynced(s) /\ ~AppendTorn(s) /\ ~WorkerRaises(s)
  BY <1>1 DEF PublishFails, AppendUnsynced, AppendTorn, WorkerRaises
<1>7. ~HandleRaised(s)
  BY DEF HandleRaised, AtWork, UnprovokedAt
<1>8. QED
  BY <1>2, <1>3, <1>4, <1>5, <1>6, <1>7 DEF WorkerStep

LEMMA WorkerUnprovoked ==
    ASSUME Typed, manifest \subseteq artifacts, ~shutdown, ~torn, NEW s \in States,
           BeyondAt(s), UnprovokedAt(s), WorkerStep(s), faults = 0, faults' = 0
    PROVE  UnprovokedAt(s)' /\ ~torn'
<1>1. /\ Functions /\ Fits(s, cp[s], local[s], page[s], pc[s], artifacts)
      /\ artifacts \subseteq Batches
  BY TypedIsFits DEF Surroundings
<1> DEFINE Free(p) == \A a \in artifacts' : a.state = s => a.offset # p
           Goal ==
             /\ cp'[s].status # "FAILED" /\ pc'[s] # "raised"
             /\ pc'[s] = "done" => cp'[s].status = "COMPLETED"
             /\ pc'[s] \in {"fetch", "persist"} => Free(local'[s].offset)
             /\ \A a \in artifacts' \ manifest' : a.state = s =>
                  /\ pc'[s] = "append"
                  /\ a = [state |-> s, offset |-> local'[s].offset - page'[s].count,
                          count |-> page'[s].count]
<1>2. Goal => UnprovokedAt(s)'
  BY DEF UnprovokedAt, Taken, InHand
<1>3. CASE Skip(s)
  <2>1. Stays(s) /\ manifest' = manifest /\ torn' = torn /\ pc'[s] = "done"
    BY <1>1, <1>3 DEF Stays, Skip, Goto, Functions, manifestVars
  <2>2. /\ pc[s] = "queued" /\ cp[s].status = "COMPLETED"
        /\ cp'[s] = cp[s] /\ artifacts' = artifacts
    BY <1>3, <2>1, StaysEffect DEF Skip, PickedUp, AtWork, AlreadyDone
  <2>3. QED
    BY <1>2, <2>1, <2>2 DEF UnprovokedAt
<1>4. CASE Begin(s)
  <2>1. manifest' = manifest /\ torn' = torn
    BY <1>4 DEF Begin, manifestVars
  <2>2. QED
    BY <1>2, <1>4, <2>1, BeginEffect DEF UnprovokedAt
<1>5. CASE Recover(s)
  <2>1. manifest' = manifest /\ torn' = torn
    BY <1>5 DEF Recover, manifestVars
  <2>2. /\ pc[s] = "loop" /\ pc'[s] \in {"loop", "settle"} /\ artifacts' = artifacts
        /\ cp'[s].status = "IN_PROGRESS"
    BY <1>5, RecoverEffect
  <2>3. QED
    BY <1>2, <2>1, <2>2 DEF UnprovokedAt
<1>6. CASE Request(s)
  <2>1. Stays(s) /\ manifest' = manifest /\ torn' = torn /\ pc'[s] = "fetch"
        /\ Persisted(s, local[s].offset) = {}
    BY <1>1, <1>6 DEF Stays, Request, Goto, Functions, manifestVars
  <2>2. /\ pc[s] = "loop" /\ cp'[s] = cp[s] /\ artifacts' = artifacts
        /\ local'[s] = local[s]
    BY <1>6, <2>1, StaysEffect DEF Request, AtWork
  <2>3. Free(local[s].offset)
    BY <2>1, <2>2 DEF Persisted, UnprovokedAt
  <2>4. QED
    BY <1>2, <2>1, <2>2, <2>3 DEF UnprovokedAt
<1>7. CASE FetchPage(s)
  <2>1. manifest' = manifest /\ torn' = torn
    BY <1>7 DEF FetchPage, manifestVars
  <2>2. /\ pc[s] = "fetch" /\ pc'[s] \in {"settle", "persist"} /\ artifacts' = artifacts
        /\ cp'[s] = cp[s] /\ local'[s].offset = local[s].offset
    BY <1>7, FetchPageEffect DEF AfterPage
  <2>3. QED
    BY <1>2, <2>1, <2>2 DEF UnprovokedAt, Taken
<1>8. CASE Publish(s)
  <2>1. manifest' = manifest /\ torn' = torn
    BY <1>8 DEF Publish, manifestVars
  <2>2. /\ pc[s] = "persist" /\ pc'[s] = "append" /\ cp'[s] = cp[s] /\ page'[s] = page[s]
        /\ local'[s].offset = local[s].offset + page[s].count
    BY <1>8, PublishEffect
  <2>3. artifacts' = artifacts \cup {[state |-> s, offset |-> local[s].offset,
                                      count |-> page[s].count]}
    BY <1>8, PublishEffect
  <2>4. local[s].offset = local'[s].offset - page'[s].count
    BY <1>1, <2>2 DEF Fits, Locals, Pages
  <2>5. ASSUME NEW a \in artifacts' \ manifest', a.state = s
        PROVE  a = [state |-> s, offset |-> local'[s].offset - page'[s].count,
                    count |-> page'[s].count]
    BY <2>1, <2>2, <2>3, <2>4, <2>5 DEF UnprovokedAt
  <2>6. QED
    BY <1>2, <2>1, <2>2, <2>5 DEF UnprovokedAt
<1>9. CASE AppendManifest(s)
  <2>1. manifest' = manifest \cup {InHand(s)} /\ torn' = FALSE
    BY <1>9 DEF AppendManifest, AppendLine
  <2>2. Stays(s) /\ pc[s] = "append" /\ pc'[s] = "save"
    BY <1>1, <1>9 DEF Stays, AppendManifest, AtWork, Goto, Functions
  <2>3. cp'[s] = cp[s] /\ artifacts' = artifacts
    BY <2>2, StaysEffect
  <2>4. QED
    BY <1>2, <2>1, <2>2, <2>3 DEF UnprovokedAt
<1>10. CASE SaveCheckpoint(s)
  <2>1. manifest' = manifest /\ torn' = torn
    BY <1>10 DEF SaveCheckpoint, manifestVars
  <2>2. /\ pc[s] = "save" /\ pc'[s] \in {"loop", "settle"} /\ artifacts' = artifacts
        /\ cp'[s].status = "IN_PROGRESS"
    BY <1>10, SaveCheckpointEffect
  <2>3. QED
    BY <1>2, <2>1, <2>2 DEF UnprovokedAt
<1>11. CASE Settle(s)
  <2>1. manifest' = manifest /\ torn' = torn
    BY <1>11 DEF Settle, manifestVars
  <2>2. /\ pc[s] = "settle" /\ pc'[s] = "done" /\ artifacts' = artifacts
        /\ cp'[s].status = "COMPLETED"
    BY <1>11, SettleEffect DEF BeyondAt
  <2>3. QED
    BY <1>2, <2>1, <2>2 DEF UnprovokedAt
<1>12. QED
  BY <1>3, <1>4, <1>5, <1>6, <1>7, <1>8, <1>9, <1>10, <1>11, FaultlessSteps

\* A line and an artifact of another worker are nothing to this one.
LEMMA OtherUnprovoked ==
    ASSUME NEW t \in States, UnprovokedAt(t), UNCHANGED <<cp[t], local[t], page[t], pc[t]>>,
           \A a \in artifacts' : a.state = t => a \in artifacts,
           \A b \in manifest : b.state = t => b \in manifest'
    PROVE  UnprovokedAt(t)'
BY DEF UnprovokedAt, Taken, InHand

LEMMA NextUnprovoked ==
    ASSUME NeverShrinks, Durable, NothingBeyond, faults = 0 => Unprovoked, [Next]_vars,
           faults' = 0
    PROVE  Unprovoked'
<1>1. /\ Typed /\ PersistenceOrder /\ CompletedIsReconciled
      /\ artifacts \subseteq Batches /\ artifacts' \subseteq Batches /\ faults \in Nat
  BY NextDurable DEF Durable, Typed, TypeOK
<1>2. faults = 0 /\ faults' # faults + 1
  BY <1>1 DEF Next, vars, WorkerStep, Skip, Begin, StopOnShutdown, Recover, RejectArtifact,
     Request, FetchFails, FetchPage, FindOrphan, Publish, PublishFails, AppendManifest,
     AppendUnsynced, AppendTorn, SaveCheckpoint, Settle, WorkerRaises, HandleRaised, Abort,
     ApiChange, Finish, FinishUnsynced, FinishUnwritten, Crash, RequestShutdown, Restart,
     Fault, NoFault, Costs, Loadable
<1>3. /\ ~shutdown /\ ~torn /\ exit # "failed"
      /\ \A s \in States : UnprovokedAt(s)
  BY <1>1, <1>2, UnprovokedIsAt
<1>4. ASSUME NEW s \in States, WorkerStep(s) PROVE Unprovoked'
  <2>1. UNCHANGED <<shutdown, exit>>
    BY <1>4 DEF processVars, WorkerStep, Skip, Begin, StopOnShutdown, Recover,
       RejectArtifact, Request, FetchFails, FetchPage, FindOrphan, Publish,
       PublishFails, AppendManifest, AppendUnsynced, AppendTorn, SaveCheckpoint,
       Settle, WorkerRaises, HandleRaised
  <2>2. UnprovokedAt(s)' /\ ~torn'
    BY <1>1, <1>2, <1>3, <1>4, BeyondIsAt, WorkerUnprovoked DEF PersistenceOrder
  <2>3. manifest \subseteq manifest'
    BY <1>1, <1>2, <1>3, <1>4, FaultlessSteps
    DEF PersistenceOrder, Skip, Begin, Recover, Request, FetchPage, Publish, AppendManifest,
        AppendLine, SaveCheckpoint, Settle, manifestVars
  <2>4. ASSUME NEW t \in States \ {s} PROVE UnprovokedAt(t)'
    <3>1. \A a \in artifacts' : a.state = t => a \in artifacts
      BY <1>1, <1>4, WorkerArtifacts
    <3>2. UNCHANGED <<cp[t], local[t], page[t], pc[t]>>
      BY <1>1, <1>4, WorkerFrame
    <3>3. QED
      BY <1>3, <2>3, <3>1, <3>2, OtherUnprovoked
  <2>5. QED
    BY <1>1, <1>3, <2>1, <2>2, <2>4, UnprovokedIsAtNext
<1>5. CASE Finish
  <2>1. \A s \in States : pc[s] = "done"
    BY <1>5 DEF Finish
  <2>2. RunReconciles
    BY <1>1, <1>3, <2>1 DEF RunReconciles, UnprovokedAt, CompletedIsReconciled
  <2>3. /\ exit' = "ok" /\ shutdown' = FALSE /\ UNCHANGED <<cp, artifacts, manifest, torn>>
        /\ \A s \in States : pc'[s] = "queued"
    BY <1>5, <2>2 DEF Finish, Ends, manifestVars
  <2>4. \A s \in States : UnprovokedAt(s)'
    BY <1>3, <2>1, <2>3 DEF UnprovokedAt
  <2>5. QED
    BY <1>1, <1>3, <2>3, <2>4, UnprovokedIsAtNext
<1>6. CASE UNCHANGED <<cp, artifacts, manifest, torn, pc, local, page>>
           /\ ~shutdown' /\ exit' \in {exit, "none"}
  <2>1. \A s \in States : UnprovokedAt(s)'
    BY <1>3, <1>6, OtherUnprovoked
  <2>2. QED
    BY <1>1, <1>3, <1>6, <2>1, UnprovokedIsAtNext
<1>7. ASSUME NEW s \in States, ApiChange(s) PROVE Unprovoked'
  BY <1>3, <1>6, <1>7 DEF ApiChange, manifestVars, processVars
<1>8. CASE Restart \/ UNCHANGED vars
  BY <1>3, <1>6, <1>8 DEF Restart, vars, manifestVars, processVars
<1>9. ~\E s \in States : Abort(s)
  BY <1>3 DEF Abort, AtWork, UnprovokedAt
<1>10. ~(FinishUnsynced \/ FinishUnwritten \/ Crash \/ RequestShutdown)
  BY <1>2 DEF FinishUnsynced, FinishUnwritten, Crash, RequestShutdown, Fault
<1>11. QED
  BY <1>4, <1>5, <1>7, <1>8, <1>9, <1>10 DEF Next

LEMMA InitUnprovoked == Init => Unprovoked
BY DEF Init, Unprovoked, DefaultCheckpoint

-----------------------------------------------------------------------------
(* The whole inductive invariant and what it implies *)

LEMMA NextInductive == Inductive /\ [Next]_vars => Inductive'
<1> SUFFICES ASSUME Inductive, [Next]_vars PROVE Inductive'
  OBVIOUS
<1>1. Durable /\ Typed /\ Tiling /\ TotalsInStep
  BY DEF Inductive, Durable, Typed, Tiling
<1>2. Durable' /\ TotalsInStep'
  BY <1>1, NextDurable, NextTotals
<1>3. ASSUME NeverShrinks
      PROVE  WithinApi' /\ NothingBeyond' /\ (faults' = 0 => Unprovoked')
  <2>1. WithinApi /\ NothingBeyond /\ (faults = 0 => Unprovoked)
    BY <1>3 DEF Inductive
  <2>2. QED
    BY <1>1, <1>3, <2>1, NextWithin, NextBeyond, NextUnprovoked
<1>4. QED
  BY <1>2, <1>3 DEF Inductive, NeverShrinks

\* The invariant holds in every reachable state, for any number of states, of
\* threads and of faults, any batch size and either storage backend.
THEOREM InductiveAlways == Spec => []Inductive
<1>1. Init => Inductive
  BY InitDurable, InitTotals, InitWithin, InitBeyond, InitUnprovoked DEF Inductive
<1>2. QED
  BY <1>1, NextInductive, PTL DEF Spec

\* While no record is withdrawn, a COMPLETED state counts everything it ever
\* published: no artifact of an interrupted attempt lies beyond its checkpoint.
THEOREM CountsAllAlways == Spec => []CompletedCountsAll
<1>1. Inductive => CompletedCountsAll
  BY DEF Inductive, CompletedCountsAll, NothingBeyond, AllBefore
<1>2. QED
  BY <1>1, InductiveAlways, PTL

\* While no record is withdrawn, COMPLETED means at least the records the API had
\* when the total was captured and at most those it has now.
THEOREM ExactAlways == Spec => []CompletedIsExact
<1>1. Inductive => CompletedIsExact
  <2> SUFFICES ASSUME Inductive, NeverShrinks, NEW s \in States,
                      cp[s].status = "COMPLETED"
               PROVE  cp[s].written \in cp[s].total..apiTotal[s]
    BY DEF CompletedIsExact
  <2>1. cp[s].total # NoTotal /\ cp[s].written >= cp[s].total
    BY DEF Inductive, Durable, CompletedIsReconciled
  <2>2. /\ cp[s].total \in Nat /\ cp[s].written \in Nat /\ apiTotal[s] \in Nat
        /\ cp[s].written = cp[s].offset
    BY <2>1, BoundsAssumption
    DEF Inductive, Durable, TypeOK, WorkersInStep, Checkpoints, Totals
  <2>3. cp[s].offset <= apiTotal[s]
    <3>1. Boundary(s, cp[s].offset)
      BY DEF Inductive, Durable, CheckpointsAtBoundary
    <3>2. \A a \in artifacts : EndOf(a) <= apiTotal[a.state]
      BY DEF Inductive, WithinApi
    <3>3. QED
      BY <2>2, <3>1, <3>2 DEF Boundary
  <2>4. QED
    BY <2>1, <2>2, <2>3
<1>2. QED
  BY <1>1, InductiveAlways, PTL

\* Without an error, a kill or a signal no state and no run fails, however many
\* records are added meanwhile.
THEOREM UnprovokedAlways == Spec => []NeverFailsUnprovoked
<1>1. Inductive => NeverFailsUnprovoked
  BY DEF Inductive, NeverFailsUnprovoked, Unprovoked
<1>2. QED
  BY <1>1, InductiveAlways, PTL

-----------------------------------------------------------------------------
(* The manifest, as the steps after the extraction read it *)

\* Each new line is of a batch behind all the batches of its state with a line.
LinesAtEnd ==
    \A b \in manifest' \ manifest :
        \A c \in manifest : c.state = b.state => EndOf(c) <= b.offset

\* A batch that waits for its line is the last of its state, whatever the totals do.
AppendsLast(s) == pc[s] = "append" => AllBefore(s, local[s].offset)
AllAppendLast  == \A s \in States : AppendsLast(s)

LEMMA WorkerAppendsLast ==
    ASSUME Typed, Tiling, NEW s \in States, WorkerStep(s)
    PROVE  AppendsLast(s)'
<1> SUFFICES ASSUME pc'[s] = "append" PROVE AllBefore(s, local[s].offset)'
  BY DEF AppendsLast
<1>1. /\ Fits(s, cp[s], local[s], page[s], pc[s], artifacts) /\ artifacts \subseteq Batches
      /\ cp[s].offset \in Nat /\ page[s].count \in Nat
  BY AtWorker DEF Fits, Surroundings, Checkpoints, Pages
<1>2. Publish(s)
  <2>1. Stays(s) => pc'[s] # "append"
    BY StaysEffect
  <2>2. Fails(s) => pc'[s] # "append"
    BY FailsEffect
  <2>3. /\ Begin(s) => pc'[s] # "append"
        /\ HandleRaised(s) => pc'[s] # "append"
        /\ Settle(s) => pc'[s] # "append"
    BY BeginEffect, HandleRaisedEffect, SettleEffect
  <2>4. /\ Recover(s) => pc'[s] # "append"
        /\ SaveCheckpoint(s) => pc'[s] # "append"
        /\ FetchPage(s) => pc'[s] # "append"
    BY RecoverEffect, SaveCheckpointEffect, FetchPageEffect DEF AfterPage
  <2>5. QED
    BY <2>1, <2>2, <2>3, <2>4, WorkerSteps
<1>3. /\ artifacts' = artifacts \cup {[state |-> s, offset |-> local[s].offset,
                                       count |-> page[s].count]}
      /\ local'[s].offset = local[s].offset + page[s].count
      /\ ~Taken(s, local[s].offset) /\ pc[s] = "persist"
  BY <1>2, PublishEffect
<1>4. local[s].offset = cp[s].offset /\ cp[s].offset <= MaxTotal
  BY <1>1, <1>3, BoundsAssumption DEF Fits
<1>5. AllBefore(s, cp[s].offset)
  BY <1>3, <1>4, FreeIsFrontier
<1>6. \A a \in artifacts' : a.state = s => EndOf(a) <= local'[s].offset
  BY <1>1, <1>3, <1>4, <1>5 DEF AllBefore, EndOf, Batches
<1>7. QED
  BY <1>6 DEF AllBefore, EndOf

LEMMA NextAppendsLast ==
    ASSUME Typed, Tiling, AllAppendLast, [Next]_vars
    PROVE  AllAppendLast'
<1> SUFFICES ASSUME NEW t \in States PROVE AppendsLast(t)'
  BY DEF AllAppendLast
<1>1. AppendsLast(t)
  BY DEF AllAppendLast
<1>2. ASSUME NEW s \in States, WorkerStep(s) PROVE AppendsLast(t)'
  <2>1. CASE t = s
    BY <1>2, <2>1, WorkerAppendsLast
  <2>2. CASE t # s
    <3>1. \A a \in artifacts' : a.state = t => a \in artifacts
      BY <1>2, <2>2, WorkerArtifacts
    <3>2. UNCHANGED <<local[t], pc[t]>>
      BY <1>2, <2>2, WorkerFrame
    <3>3. QED
      BY <1>1, <3>1, <3>2 DEF AppendsLast, AllBefore, EndOf
  <2>3. QED
    BY <2>1, <2>2
<1>3. ASSUME NEW how, Ends(how) PROVE AppendsLast(t)'
  BY <1>3, EndsEffect DEF AppendsLast
<1>4. CASE UNCHANGED <<local, pc, artifacts>>
  BY <1>1, <1>4 DEF AppendsLast, AllBefore
<1>5. QED
  BY <1>2, <1>3, <1>4 DEF Next, vars, Abort, ApiChange, Finish, FinishUnsynced,
     FinishUnwritten, Crash, RequestShutdown, Restart

LEMMA StepLinesAtEnd ==
    ASSUME Typed, Tiling, PersistenceOrder, AllAppendLast, [Next]_vars
    PROVE  LinesAtEnd
<1>1. ASSUME NEW s \in States, AppendManifest(s) \/ AppendUnsynced(s) \/ AppendTorn(s)
      PROVE  LinesAtEnd
  <2>1. /\ pc[s] = "append" /\ manifest' \subseteq manifest \cup {InHand(s)}
        /\ local[s].offset \in Nat /\ page[s].count \in Nat \ {0}
        /\ InHand(s) = [state |-> s, offset |-> local[s].offset - page[s].count,
                        count |-> page[s].count]
        /\ InHand(s) \in artifacts /\ artifacts \subseteq Batches
    BY <1>1, AtWorker
    DEF AppendManifest, AppendUnsynced, AppendTorn, AppendLine, AtWork, InHand, Fits,
        Locals, Pages, Surroundings
  <2>2. SUFFICES ASSUME NEW c \in manifest, c.state = s, c # InHand(s)
                 PROVE  EndOf(c) <= InHand(s).offset
    BY <2>1 DEF LinesAtEnd
  <2>3. c \in artifacts /\ EndOf(c) <= local[s].offset
    BY <2>1, <2>2 DEF PersistenceOrder, AllAppendLast, AppendsLast, AllBefore
  <2>4. EndOf(c) <= InHand(s).offset \/ EndOf(InHand(s)) <= c.offset
    BY <2>1, <2>2, <2>3 DEF Tiling, ArtifactsTile
  <2>5. c.offset \in Nat /\ c.count \in Nat \ {0}
    BY <2>1, <2>3 DEF Batches
  <2>6. EndOf(InHand(s)) = local[s].offset
    BY <2>1 DEF EndOf
  <2>7. c.offset < EndOf(c) /\ EndOf(c) \in Nat
    BY <2>5 DEF EndOf
  <2>8. QED
    BY <2>1, <2>3, <2>4, <2>5, <2>6, <2>7
<1>2. CASE UNCHANGED manifest
  BY <1>2 DEF LinesAtEnd
<1>3. QED
  BY <1>1, <1>2 DEF Next, vars, WorkerStep, Skip, Begin, StopOnShutdown, Recover,
     RejectArtifact, Request, FetchFails, FetchPage, FindOrphan, Publish, PublishFails,
     SaveCheckpoint, Settle, WorkerRaises, HandleRaised, manifestVars, Abort, ApiChange,
     Finish, FinishUnsynced, FinishUnwritten, Crash, RequestShutdown, Restart

\* The lines of a state are written in the order of its batches, also when checkpoints
\* are lost, totals shrink and batches are replayed: what a run grows by lies behind what
\* it had (Staging assumes it of the attempts of the extraction).
THEOREM LinesAddedAtEnd == Spec => [][LinesAtEnd]_vars
<1>1. Init => AllAppendLast
  BY DEF Init, AllAppendLast, AppendsLast
<1>2. Durable => Typed /\ Tiling /\ PersistenceOrder
  BY DEF Durable, Typed, Tiling
<1>3. Durable /\ AllAppendLast /\ [Next]_vars => AllAppendLast'
  BY <1>2, NextAppendsLast
<1>4. Durable /\ AllAppendLast /\ [Next]_vars => [LinesAtEnd]_vars
  BY <1>2, StepLinesAtEnd
<1>5. QED
  BY <1>1, <1>3, <1>4, DurableAlways, PTL DEF Spec

=============================================================================
