--------------------------- MODULE ExtractionProofs ---------------------------
(***************************************************************************)
(* Proofs about Extraction: the parts of its inductive invariant, one      *)
(* layer on top of the other, and the safety properties they imply.        *)
(***************************************************************************)
EXTENDS Extraction, TLAPS

-----------------------------------------------------------------------------
(* Layer 1: types, and a worker's numbers against its checkpoint *)

Typed == TypeOK /\ WorkersInStep /\ PagesInHand

Locals == [offset : Nat, written : Nat, total : Totals]
Pages  == [count : Nat, total : Totals]

\* What Typed says of one worker, as a relation between its checkpoint, its
\* variables, its page, its place and the artifacts.
Fits(s, c, l, p, k, arts) ==
    /\ c \in Checkpoints /\ l \in Locals /\ p \in Pages /\ k \in PCs
    /\ c.written = c.offset
    /\ k \in {"loop", "fetch", "persist", "settle"} => l.offset = c.offset
    /\ k \in {"append", "save"} =>
         /\ l.offset = c.offset + p.count
         /\ [state |-> s, offset |-> l.offset - p.count, count |-> p.count] \in arts
    /\ k \in Working => l.written = l.offset
    /\ k \in Working \cup {"raised"} => c.status # "COMPLETED"
    /\ k \in {"persist", "append", "save"} => p.count > 0
    /\ k = "persist" => l.offset + p.count <= MaxTotal

\* What it says of everything else.
Surroundings ==
    /\ apiTotal \in [States -> 0..MaxTotal]
    /\ artifacts \subseteq Batches /\ manifest \subseteq Batches /\ tail \subseteq Batches
    /\ torn \in BOOLEAN /\ garbled \subseteq Batches
    /\ summary \in Summaries
    /\ exit \in {"none", "ok", "failed", "crashed"}
    /\ up \in BOOLEAN /\ shutdown \in BOOLEAN /\ faults \in Nat

Functions ==
    /\ cp \in [States -> Checkpoints] /\ local \in [States -> Locals]
    /\ page \in [States -> Pages] /\ pc \in [States -> PCs]

LEMMA TypedIsFits ==
    Typed <=> /\ Surroundings /\ Functions
              /\ \A s \in States : Fits(s, cp[s], local[s], page[s], pc[s], artifacts)
<1>1. TypeOK <=> Surroundings /\ Functions
  BY DEF TypeOK, Surroundings, Functions, Locals, Pages
<1>2. ASSUME Functions
      PROVE  WorkersInStep /\ PagesInHand <=>
               \A s \in States : Fits(s, cp[s], local[s], page[s], pc[s], artifacts)
  BY <1>2 DEF WorkersInStep, PagesInHand, Fits, Functions, InHand
<1>3. QED
  BY <1>1, <1>2 DEF Typed

\* The two are the same in the next state.
LEMMA TypedIsFitsNext ==
    Typed' <=> /\ Surroundings' /\ Functions'
               /\ \A s \in States :
                    Fits(s, cp'[s], local'[s], page'[s], pc'[s], artifacts')
<1>1. TypeOK' <=> Surroundings' /\ Functions'
  BY DEF TypeOK, Surroundings, Functions, Locals, Pages
<1>2. ASSUME Functions'
      PROVE  WorkersInStep' /\ PagesInHand' <=>
               \A s \in States :
                 Fits(s, cp'[s], local'[s], page'[s], pc'[s], artifacts')
  BY <1>2 DEF WorkersInStep, PagesInHand, Fits, Functions, InHand
<1>3. QED
  BY <1>1, <1>2 DEF Typed

LEMMA DefaultTyped ==
    /\ DefaultCheckpoint \in Checkpoints
    /\ Fresh \in Locals
    /\ NoPage \in Pages
    /\ [status |-> "none", totals |-> [s \in States |-> NoTotal]] \in Summaries
BY DEF DefaultCheckpoint, Fresh, NoPage, Checkpoints, Statuses, Totals, Locals, Pages,
   Summaries

LEMMA InitTyped == Init => Typed
<1> SUFFICES ASSUME Init PROVE Typed
  OBVIOUS
<1>1. Surroundings /\ Functions
  BY DefaultTyped, BoundsAssumption DEF Init, Surroundings, Functions, PCs
<1>2. ASSUME NEW s \in States
      PROVE  Fits(s, DefaultCheckpoint, Fresh, NoPage, "queued", artifacts)
  BY DefaultTyped DEF Fits, DefaultCheckpoint, PCs, Working
<1>3. QED
  BY <1>1, <1>2, TypedIsFits DEF Init

\* A step that changes the worker of s alone keeps Typed when that worker fits.
LEMMA OneWorker ==
    ASSUME Typed, NEW s \in States, NEW c, NEW l, NEW p, NEW k,
           cp' = [cp EXCEPT ![s] = c], local' = [local EXCEPT ![s] = l],
           page' = [page EXCEPT ![s] = p], pc' = [pc EXCEPT ![s] = k],
           artifacts \subseteq artifacts', Surroundings',
           Fits(s, c, l, p, k, artifacts')
    PROVE  Typed'
<1>1. /\ Functions
      /\ \A t \in States : Fits(t, cp[t], local[t], page[t], pc[t], artifacts)
  BY TypedIsFits
<1>2. c \in Checkpoints /\ l \in Locals /\ p \in Pages /\ k \in PCs
  BY DEF Fits
<1>3. Functions'
  BY <1>1, <1>2 DEF Functions
<1>4. ASSUME NEW t \in States
      PROVE  Fits(t, cp'[t], local'[t], page'[t], pc'[t], artifacts')
  <2>1. CASE t = s
    BY <1>1, <2>1 DEF Functions
  <2>2. CASE t # s
    <3>1. /\ cp'[t] = cp[t] /\ local'[t] = local[t]
          /\ page'[t] = page[t] /\ pc'[t] = pc[t]
      BY <1>1, <2>2 DEF Functions
    <3>2. Fits(t, cp[t], local[t], page[t], pc[t], artifacts')
      BY <1>1 DEF Fits
    <3>3. QED
      BY <3>1, <3>2
  <2>3. QED
    BY <2>1, <2>2
<1>5. QED
  BY <1>3, <1>4, TypedIsFitsNext

\* What Typed gives a step of the worker of s to start from.
LEMMA AtWorker ==
    ASSUME Typed, NEW s \in States
    PROVE  /\ Surroundings
           /\ Fits(s, cp[s], local[s], page[s], pc[s], artifacts)
           /\ cp = [cp EXCEPT ![s] = cp[s]]
           /\ local = [local EXCEPT ![s] = local[s]]
           /\ page = [page EXCEPT ![s] = page[s]]
           /\ apiTotal[s] \in 0..MaxTotal
<1>1. Surroundings /\ Functions /\ Fits(s, cp[s], local[s], page[s], pc[s], artifacts)
  BY TypedIsFits
<1>2. QED
  BY <1>1 DEF Functions, Surroundings

LEMMA SurroundingsKept ==
    ASSUME Surroundings, UNCHANGED <<apiTotal, artifacts, manifestVars, processVars>>,
           faults' \in {faults, faults + 1}
    PROVE  Surroundings'
BY DEF Surroundings, manifestVars, processVars

\* Where the checkpoint of s only changes its status to FAILED and the worker
\* returns, nothing else needs a look.
LEMMA FailTyped ==
    ASSUME Typed, NEW s \in States, Fail(s), UNCHANGED <<local, page>>,
           artifacts \subseteq artifacts', Surroundings'
    PROVE  Typed'
<1>1. Fits(s, cp[s], local[s], page[s], pc[s], artifacts)
  BY AtWorker
<1> DEFINE c == [cp[s] EXCEPT !.status = "FAILED"]
<1>2. c \in Checkpoints /\ c.written = c.offset
  BY <1>1 DEF Fits, Checkpoints, Statuses
<1>3. cp' = [cp EXCEPT ![s] = c] /\ pc' = [pc EXCEPT ![s] = "done"]
  BY DEF Fail, MarkFailed, Goto
<1> HIDE DEF c
<1>4. Fits(s, c, local[s], page[s], "done", artifacts')
  BY <1>1, <1>2 DEF Fits, PCs, Working
<1>5. QED
  BY <1>3, <1>4, AtWorker, OneWorker

\* A step that moves the worker of s to another place and leaves its numbers alone.
LEMMA MoveTyped ==
    ASSUME Typed, NEW s \in States, NEW k, Goto(s, k), UNCHANGED <<cp, local, page>>,
           artifacts \subseteq artifacts', Surroundings',
           Fits(s, cp[s], local[s], page[s], k, artifacts')
    PROVE  Typed'
<1>1. /\ cp' = [cp EXCEPT ![s] = cp[s]] /\ local' = [local EXCEPT ![s] = local[s]]
      /\ page' = [page EXCEPT ![s] = page[s]] /\ pc' = [pc EXCEPT ![s] = k]
  BY AtWorker DEF Goto
<1>2. QED
  BY <1>1, OneWorker

\* A step of the worker of s keeps the types and the numbers in step.
LEMMA WorkerTyped ==
    ASSUME Typed, NEW s \in States, WorkerStep(s)
    PROVE  Typed'
<1>1. /\ Surroundings
      /\ Fits(s, cp[s], local[s], page[s], pc[s], artifacts)
      /\ apiTotal[s] \in 0..MaxTotal
  BY AtWorker
<1> USE DEF NoFault, Fault, Costs, AtWork, PickedUp, AlreadyDone, Goto
<1>2. CASE Skip(s)
  <2>1. Fits(s, cp[s], local[s], page[s], "done", artifacts')
    BY <1>1, <1>2 DEF Skip, Fits, PCs, Working
  <2>2. Surroundings'
    BY <1>1, <1>2, SurroundingsKept DEF Skip
  <2>3. QED
    BY <1>2, <2>1, <2>2, MoveTyped DEF Skip
<1>3. CASE Begin(s)
  <2>1. PICK l \in Loadable(s) :
          /\ faults' = faults + l.cost /\ l.c.status # "COMPLETED"
          /\ local' = [local EXCEPT ![s] =
               [offset |-> l.c.offset, written |-> l.c.written, total |-> l.c.total]]
          /\ cp' = [cp EXCEPT ![s] = [l.c EXCEPT !.status = "IN_PROGRESS"]]
    BY <1>3 DEF Begin
  <2> DEFINE c == [l.c EXCEPT !.status = "IN_PROGRESS"]
             v == [offset |-> l.c.offset, written |-> l.c.written, total |-> l.c.total]
  <2>2. l.c \in Checkpoints /\ l.c.written = l.c.offset /\ l.cost \in Nat
    BY <1>1, DefaultTyped DEF Loadable, DefaultCheckpoint, Fits
  <2>3. /\ c \in Checkpoints /\ c.written = c.offset /\ c.status = "IN_PROGRESS"
        /\ v \in Locals /\ v.offset = c.offset /\ v.written = v.offset
    BY <2>2 DEF Checkpoints, Statuses, Locals
  <2>4. cp' = [cp EXCEPT ![s] = c] /\ local' = [local EXCEPT ![s] = v]
    BY <2>1
  <2> HIDE DEF c, v
  <2>5. Fits(s, c, v, page[s], "loop", artifacts')
    BY <1>1, <2>3 DEF Fits, PCs, Working
  <2>6. faults' \in {faults, faults + 1}
    BY <1>1, <2>1 DEF Loadable, Surroundings
  <2>7. Surroundings'
    BY <1>1, <1>3, <2>6, SurroundingsKept DEF Begin
  <2>8. /\ page' = [page EXCEPT ![s] = page[s]] /\ pc' = [pc EXCEPT ![s] = "loop"]
        /\ artifacts \subseteq artifacts'
    BY <1>3, AtWorker DEF Begin
  <2>9. QED
    BY <2>4, <2>5, <2>7, <2>8, OneWorker
<1>4. CASE StopOnShutdown(s)
  <2>1. Surroundings'
    BY <1>1, <1>4, SurroundingsKept DEF StopOnShutdown
  <2>2. QED
    BY <1>4, <2>1, FailTyped DEF StopOnShutdown
<1>5. CASE Recover(s)
  <2>1. PICK b \in Persisted(s, local[s].offset) :
          LET l == Advanced(local[s], b.count)
          IN /\ local' = [local EXCEPT ![s] = l]
             /\ cp' = [cp EXCEPT ![s] = Checkpoint(l, "IN_PROGRESS")]
             /\ pc' = [pc EXCEPT ![s] =
                         IF ReachedEnd(l.total, l.written, BatchSize)
                         THEN "settle" ELSE "loop"]
    BY <1>5 DEF Recover
  <2> DEFINE l == Advanced(local[s], b.count)
             c == Checkpoint(l, "IN_PROGRESS")
             k == IF ReachedEnd(l.total, l.written, BatchSize) THEN "settle" ELSE "loop"
  <2>2. b.count \in Nat
    BY <1>1 DEF Persisted, Batches, Surroundings
  <2>3. l \in Locals /\ l.written = l.offset
    <3>1. local[s] \in Locals /\ local[s].written = local[s].offset
      BY <1>1, <1>5 DEF Fits, Recover, Working, PCs
    <3>2. QED
      BY <2>2, <3>1 DEF Locals, Advanced
  <2>4. k \in {"settle", "loop"}
    OBVIOUS
  <2>5. /\ local' = [local EXCEPT ![s] = l] /\ cp' = [cp EXCEPT ![s] = c]
        /\ pc' = [pc EXCEPT ![s] = k]
    BY <2>1
  <2> HIDE DEF l, k
  <2>6. /\ c \in Checkpoints /\ c.offset = l.offset /\ c.written = l.written
        /\ c.status = "IN_PROGRESS"
    BY <2>3 DEF Checkpoint, Checkpoints, Statuses, Locals
  <2> HIDE DEF c
  <2>7. Fits(s, c, l, page[s], k, artifacts')
    BY <1>1, <2>3, <2>4, <2>6 DEF Fits, PCs, Working
  <2>8. Surroundings'
    BY <1>1, <1>5, SurroundingsKept DEF Recover
  <2>9. page' = [page EXCEPT ![s] = page[s]] /\ artifacts \subseteq artifacts'
    BY <1>5, AtWorker DEF Recover
  <2>10. QED
    BY <2>5, <2>7, <2>8, <2>9, OneWorker
<1>6. CASE RejectArtifact(s)
  <2>1. Surroundings'
    BY <1>1, <1>6, SurroundingsKept DEF RejectArtifact
  <2>2. QED
    BY <1>6, <2>1, FailTyped DEF RejectArtifact
<1>7. CASE Request(s)
  <2>1. Fits(s, cp[s], local[s], page[s], "fetch", artifacts')
    BY <1>1, <1>7 DEF Request, Fits, PCs, Working
  <2>2. Surroundings'
    BY <1>1, <1>7, SurroundingsKept DEF Request
  <2>3. QED
    BY <1>7, <2>1, <2>2, MoveTyped DEF Request
<1>8. CASE FetchFails(s)
  <2>1. Surroundings'
    BY <1>1, <1>8, SurroundingsKept DEF FetchFails
  <2>2. QED
    BY <1>8, <2>1, FailTyped DEF FetchFails
<1>9. CASE FetchPage(s)
  <2>1. PICK count \in 0..BatchSize :
          /\ count = 0 \/ local[s].offset + count <= apiTotal[s]
          /\ page' = [page EXCEPT ![s] = [count |-> count, total |-> apiTotal[s]]]
          /\ pc' = [pc EXCEPT ![s] = AfterPage(count)]
    BY <1>9 DEF FetchPage
  <2> DEFINE p == [count |-> count, total |-> apiTotal[s]]
             l == [local[s] EXCEPT !.total = Captured(@, apiTotal[s])]
  <2>2. p \in Pages /\ p.count = count
    BY <1>1, SizesAssumption DEF Pages, Totals
  <2>3. l \in Locals /\ l.offset = local[s].offset /\ l.written = local[s].written
    BY <1>1 DEF Locals, Fits, Captured, Totals
  <2>4. local' = [local EXCEPT ![s] = l] /\ page' = [page EXCEPT ![s] = p]
    BY <1>9, <2>1 DEF FetchPage
  <2> HIDE DEF p, l
  <2>5. Fits(s, cp[s], l, p, AfterPage(count), artifacts')
    BY <1>1, <1>9, <2>1, <2>2, <2>3, BoundsAssumption, SizesAssumption
    DEF Fits, PCs, Working, AfterPage, FetchPage, Locals
  <2>6. Surroundings'
    BY <1>1, <1>9, SurroundingsKept DEF FetchPage
  <2>7. /\ cp' = [cp EXCEPT ![s] = cp[s]] /\ artifacts \subseteq artifacts'
        /\ pc' = [pc EXCEPT ![s] = AfterPage(count)]
    BY <1>9, <2>1, AtWorker DEF FetchPage
  <2>8. QED
    BY <2>4, <2>5, <2>6, <2>7, OneWorker
<1>10. CASE FindOrphan(s)
  <2>1. Surroundings'
    BY <1>1, <1>10, SurroundingsKept DEF FindOrphan
  <2>2. QED
    BY <1>10, <2>1, FailTyped DEF FindOrphan
<1>11. CASE Publish(s)
  <2> DEFINE b == [state |-> s, offset |-> local[s].offset, count |-> page[s].count]
             l == Advanced(local[s], page[s].count)
  <2>1. /\ local[s].offset \in Nat /\ local[s].written = local[s].offset
        /\ page[s].count \in Nat \ {0} /\ local[s].offset = cp[s].offset
        /\ cp[s].status # "COMPLETED"
    BY <1>1, <1>11 DEF Publish, Fits, Locals, Pages, Working, PCs
  <2>2. b \in Batches
    BY <2>1 DEF Batches
  <2>3. /\ l \in Locals /\ l.offset = cp[s].offset + page[s].count
        /\ l.written = l.offset /\ l.offset - page[s].count = local[s].offset
    <3>1. local[s] \in Locals
      BY <1>1 DEF Fits
    <3>2. QED
      BY <2>1, <3>1 DEF Locals, Advanced
  <2>4. artifacts' = artifacts \cup {b} /\ local' = [local EXCEPT ![s] = l]
    BY <1>11 DEF Publish
  <2>5. b = [state |-> s, offset |-> l.offset - page[s].count, count |-> page[s].count]
    BY <2>3
  <2> HIDE DEF b, l
  <2>6. Fits(s, cp[s], l, page[s], "append", artifacts')
    BY <1>1, <2>1, <2>3, <2>4, <2>5 DEF Fits, PCs, Working
  <2>7. Surroundings'
    BY <1>1, <1>11, <2>2, <2>4 DEF Publish, Surroundings, manifestVars, processVars
  <2>8. /\ cp' = [cp EXCEPT ![s] = cp[s]] /\ page' = [page EXCEPT ![s] = page[s]]
        /\ pc' = [pc EXCEPT ![s] = "append"] /\ artifacts \subseteq artifacts'
    BY <1>11, <2>4, AtWorker DEF Publish
  <2>9. QED
    BY <2>4, <2>6, <2>7, <2>8, OneWorker
<1>12. CASE PublishFails(s)
  <2> DEFINE b == [state |-> s, offset |-> local[s].offset, count |-> page[s].count]
  <2>1. b \in Batches
    BY <1>1, <1>12 DEF PublishFails, Fits, Locals, Pages, Batches
  <2>2. artifacts' \in {artifacts, artifacts \cup {b}}
    BY <1>12 DEF PublishFails
  <2> HIDE DEF b
  <2>3. Surroundings'
    BY <1>1, <1>12, <2>1, <2>2
    DEF PublishFails, Surroundings, manifestVars, processVars
  <2>4. QED
    BY <1>12, <2>2, <2>3, FailTyped DEF PublishFails
<1>13. CASE AppendManifest(s)
  <2>1. InHand(s) \in Batches
    BY <1>1, <1>13 DEF AppendManifest, Fits, InHand, Surroundings
  <2>2. Surroundings'
    BY <1>1, <1>13, <2>1 DEF AppendManifest, AppendLine, Surroundings, processVars
  <2>3. Fits(s, cp[s], local[s], page[s], "save", artifacts')
    BY <1>1, <1>13 DEF AppendManifest, Fits, PCs, Working
  <2>4. QED
    BY <1>13, <2>2, <2>3, MoveTyped DEF AppendManifest
<1>14. CASE AppendUnsynced(s)
  <2>1. InHand(s) \in Batches
    BY <1>1, <1>14 DEF AppendUnsynced, Fits, InHand, Surroundings
  <2>2. Surroundings'
    <3>1. /\ manifest' \subseteq Batches /\ tail' \subseteq Batches
          /\ torn' \in BOOLEAN /\ garbled' \subseteq Batches
      BY <1>1, <1>14, <2>1 DEF AppendUnsynced, AppendLine, Surroundings
    <3>2. UNCHANGED <<apiTotal, artifacts, processVars>> /\ faults' = faults + 1
      BY <1>14 DEF AppendUnsynced
    <3>3. QED
      BY <1>1, <3>1, <3>2 DEF Surroundings, processVars
  <2>3. Fits(s, cp[s], local[s], page[s], "raised", artifacts')
    BY <1>1, <1>14 DEF AppendUnsynced, Fits, PCs, Working
  <2>4. QED
    BY <1>14, <2>2, <2>3, MoveTyped DEF AppendUnsynced
<1>15. CASE AppendTorn(s)
  <2>1. InHand(s) \in Batches
    BY <1>1, <1>15 DEF AppendTorn, Fits, InHand, Surroundings
  <2>2. Surroundings'
    <3>1. /\ manifest' \subseteq Batches /\ tail' \subseteq Batches
          /\ torn' \in BOOLEAN /\ garbled' \subseteq Batches
      BY <1>1, <1>15, <2>1 DEF AppendTorn, Surroundings
    <3>2. UNCHANGED <<apiTotal, artifacts, processVars>> /\ faults' = faults + 1
      BY <1>15 DEF AppendTorn
    <3>3. QED
      BY <1>1, <3>1, <3>2 DEF Surroundings, processVars
  <2>3. Fits(s, cp[s], local[s], page[s], "raised", artifacts')
    BY <1>1, <1>15 DEF AppendTorn, Fits, PCs, Working
  <2>4. QED
    BY <1>15, <2>2, <2>3, MoveTyped DEF AppendTorn
<1>16. CASE SaveCheckpoint(s)
  <2> DEFINE c == Checkpoint(local[s], "IN_PROGRESS")
             k == IF ReachedEnd(local[s].total, local[s].written, page[s].count)
                  THEN "settle" ELSE "loop"
  <2>1. /\ c \in Checkpoints /\ c.offset = local[s].offset
        /\ c.written = local[s].written /\ c.status = "IN_PROGRESS"
    BY <1>1 DEF Fits, Checkpoint, Checkpoints, Statuses, Locals
  <2>2. local[s].written = local[s].offset
    BY <1>1, <1>16 DEF SaveCheckpoint, Fits, Working, PCs
  <2>3. k \in {"settle", "loop"}
    OBVIOUS
  <2>4. cp' = [cp EXCEPT ![s] = c] /\ pc' = [pc EXCEPT ![s] = k]
    BY <1>16 DEF SaveCheckpoint
  <2> HIDE DEF c, k
  <2>5. Fits(s, c, local[s], page[s], k, artifacts')
    BY <1>1, <2>1, <2>2, <2>3 DEF Fits, PCs, Working
  <2>6. Surroundings'
    BY <1>1, <1>16, SurroundingsKept DEF SaveCheckpoint
  <2>7. /\ local' = [local EXCEPT ![s] = local[s]] /\ page' = [page EXCEPT ![s] = page[s]]
        /\ pc' = [pc EXCEPT ![s] = k] /\ artifacts \subseteq artifacts'
    BY <1>16, <2>4, AtWorker DEF SaveCheckpoint
  <2>8. QED
    BY <2>4, <2>5, <2>6, <2>7, OneWorker
<1>17. CASE Settle(s)
  <2> DEFINE f == IF Reconciles(local[s].total, local[s].written)
                  THEN "COMPLETED" ELSE "FAILED"
             c == Checkpoint(local[s], f)
  <2>1. f \in Statuses
    BY DEF Statuses
  <2>2. cp' = [cp EXCEPT ![s] = c]
    BY <1>17 DEF Settle
  <2> HIDE DEF f
  <2>3. /\ c \in Checkpoints /\ c.offset = local[s].offset
        /\ c.written = local[s].written
    BY <1>1, <2>1 DEF Fits, Checkpoint, Checkpoints, Locals
  <2>4. local[s].written = local[s].offset
    BY <1>1, <1>17 DEF Settle, Fits, Working, PCs
  <2> HIDE DEF c
  <2>5. Fits(s, c, local[s], page[s], "done", artifacts')
    BY <1>1, <2>3, <2>4 DEF Fits, PCs, Working
  <2>6. Surroundings'
    BY <1>1, <1>17, SurroundingsKept DEF Settle
  <2>7. /\ local' = [local EXCEPT ![s] = local[s]] /\ page' = [page EXCEPT ![s] = page[s]]
        /\ pc' = [pc EXCEPT ![s] = "done"] /\ artifacts \subseteq artifacts'
    BY <1>17, <2>2, AtWorker DEF Settle
  <2>8. QED
    BY <2>2, <2>5, <2>6, <2>7, OneWorker
<1>18. CASE WorkerRaises(s)
  <2>1. cp[s].status # "COMPLETED"
    BY <1>1, <1>18 DEF WorkerRaises, Fits
  <2>2. Fits(s, cp[s], local[s], page[s], "raised", artifacts')
    BY <1>1, <1>18, <2>1 DEF WorkerRaises, Fits, PCs, Working
  <2>3. Surroundings'
    BY <1>1, <1>18, SurroundingsKept DEF WorkerRaises
  <2>4. QED
    BY <1>18, <2>2, <2>3, MoveTyped DEF WorkerRaises
<1>19. CASE HandleRaised(s)
  <2>1. PICK l \in Loadable(s) :
          /\ faults' = faults + l.cost
          /\ cp' = [cp EXCEPT ![s] = [l.c EXCEPT !.status = "FAILED"]]
    BY <1>19 DEF HandleRaised
  <2> DEFINE c == [l.c EXCEPT !.status = "FAILED"]
  <2>2. l.c \in Checkpoints /\ l.c.written = l.c.offset /\ l.cost \in Nat
    BY <1>1, DefaultTyped DEF Loadable, DefaultCheckpoint, Fits
  <2>3. c \in Checkpoints /\ c.written = c.offset
    BY <2>2 DEF Checkpoints, Statuses
  <2>4. cp' = [cp EXCEPT ![s] = c]
    BY <2>1
  <2> HIDE DEF c
  <2>5. Fits(s, c, local[s], page[s], "done", artifacts')
    BY <1>1, <2>3 DEF Fits, PCs, Working
  <2>6. faults' \in {faults, faults + 1}
    BY <1>1, <2>1 DEF Loadable, Surroundings
  <2>7. Surroundings'
    BY <1>1, <1>19, <2>6, SurroundingsKept DEF HandleRaised
  <2>8. /\ local' = [local EXCEPT ![s] = local[s]] /\ page' = [page EXCEPT ![s] = page[s]]
        /\ pc' = [pc EXCEPT ![s] = "done"] /\ artifacts \subseteq artifacts'
    BY <1>19, AtWorker DEF HandleRaised
  <2>9. QED
    BY <2>4, <2>5, <2>7, <2>8, OneWorker
<1>20. QED
  BY <1>2, <1>3, <1>4, <1>5, <1>6, <1>7, <1>8, <1>9, <1>10, <1>11, <1>12, <1>13,
     <1>14, <1>15, <1>16, <1>17, <1>18, <1>19 DEF WorkerStep

\* The end of a process leaves every worker where the next one starts.
LEMMA EndsTyped ==
    ASSUME Typed, NEW how \in {"ok", "failed", "crashed"}, Ends(how),
           summary' \in {summary, Summarised},
           faults' \in {faults, faults + 1},
           UNCHANGED <<apiTotal, cp, artifacts, manifestVars>>
    PROVE  Typed'
<1>1. Surroundings /\ Functions
      /\ \A s \in States : Fits(s, cp[s], local[s], page[s], pc[s], artifacts)
  BY TypedIsFits
<1>2. Surroundings'
  <2>1. summary' \in Summaries /\ faults' \in Nat
    BY <1>1 DEF Surroundings, Functions, Summarised, Summaries, Checkpoints
  <2>2. /\ up' = FALSE /\ shutdown' = FALSE /\ exit' = how
    BY DEF Ends
  <2>3. UNCHANGED <<apiTotal, artifacts, manifest, tail, torn, garbled>>
    BY DEF manifestVars
  <2>4. QED
    BY <1>1, <2>1, <2>2, <2>3 DEF Surroundings
<1>3. Functions'
  BY <1>1, DefaultTyped DEF Functions, Ends, PCs
<1>4. ASSUME NEW s \in States
      PROVE  Fits(s, cp'[s], local'[s], page'[s], pc'[s], artifacts')
  <2>1. local'[s] = Fresh /\ page'[s] = NoPage /\ pc'[s] = "queued" /\ cp'[s] = cp[s]
    BY DEF Ends
  <2>2. Fits(s, cp[s], Fresh, NoPage, "queued", artifacts')
    BY <1>1, DefaultTyped DEF Fits, PCs, Working
  <2>3. QED
    BY <2>1, <2>2
<1>5. QED
  BY <1>2, <1>3, <1>4, TypedIsFitsNext

\* A step that leaves workers, checkpoints and artifacts alone.
LEMMA StillTyped ==
    ASSUME Typed, UNCHANGED <<cp, artifacts, pc, local, page>>, Surroundings'
    PROVE  Typed'
<1>1. Functions /\ \A s \in States : Fits(s, cp[s], local[s], page[s], pc[s], artifacts)
  BY TypedIsFits
<1>2. Functions'
  BY <1>1 DEF Functions
<1>3. QED
  BY <1>1, <1>2, TypedIsFitsNext

LEMMA NextTyped ==
    ASSUME Typed, [Next]_vars
    PROVE  Typed'
<1>1. Surroundings
  BY TypedIsFits
<1> USE DEF NoFault, Fault
<1>2. ASSUME NEW s \in States, WorkerStep(s) PROVE Typed'
  BY <1>2, WorkerTyped
<1>3. ASSUME NEW s \in States, Abort(s) PROVE Typed'
  BY <1>3, EndsTyped DEF Abort
<1>4. ASSUME NEW s \in States, ApiChange(s) PROVE Typed'
  <2>1. PICK n \in 0..MaxTotal : apiTotal' = [apiTotal EXCEPT ![s] = n]
    BY <1>4 DEF ApiChange
  <2>2. UNCHANGED <<cp, artifacts, manifestVars, processVars, pc, local, page, faults>>
    BY <1>4 DEF ApiChange
  <2>3. Surroundings'
    BY <1>1, <2>1, <2>2 DEF Surroundings, manifestVars, processVars
  <2>4. QED
    BY <2>2, <2>3, StillTyped
<1>5. CASE Finish
  BY <1>5, EndsTyped DEF Finish
<1>6. CASE FinishUnsynced \/ FinishUnwritten
  BY <1>6, EndsTyped DEF FinishUnsynced, FinishUnwritten
<1>7. CASE Crash
  BY <1>7, EndsTyped DEF Crash
<1>8. CASE RequestShutdown
  <2>1. Surroundings'
    BY <1>1, <1>8 DEF RequestShutdown, Surroundings, manifestVars
  <2>2. QED
    BY <1>8, <2>1, StillTyped DEF RequestShutdown
<1>9. CASE Restart
  <2>1. Surroundings'
    BY <1>1, <1>9 DEF Restart, Surroundings, manifestVars
  <2>2. QED
    BY <1>9, <2>1, StillTyped DEF Restart
<1>10. CASE UNCHANGED vars
  <2>1. Surroundings'
    BY <1>1, <1>10 DEF vars, Surroundings
  <2>2. QED
    BY <1>10, <2>1, StillTyped DEF vars
<1>11. QED
  BY <1>2, <1>3, <1>4, <1>5, <1>6, <1>7, <1>8, <1>9, <1>10 DEF Next

\* The checkpoint files always hold one of the four statuses with natural
\* numbers, and every other variable has its type, in every reachable state.
THEOREM TypeCorrect == Spec => []TypeOK
<1>1. Init => Typed
  BY InitTyped
<1>2. Typed /\ [Next]_vars => Typed'
  BY NextTyped
<1>3. Typed => TypeOK
  BY DEF Typed
<1>4. QED
  BY <1>1, <1>2, <1>3, PTL DEF Spec

-----------------------------------------------------------------------------
(* Layer 2: a batch has its manifest line before its checkpoint is saved *)

\* What a step may do to the manifest: add lines of artifacts that are there, and
\* spoil the last one, if its newline is missing.
KeepsLines ==
    /\ Lines \subseteq Lines'
    /\ manifest \ manifest' \subseteq tail \cap garbled'
    /\ garbled \subseteq garbled'
    /\ manifest' \subseteq manifest \cup artifacts
    /\ artifacts \subseteq artifacts'

LEMMA WorkerLines ==
    ASSUME Typed, NEW s \in States, WorkerStep(s)
    PROVE  KeepsLines
<1>1. pc[s] = "append" => InHand(s) \in artifacts
  BY DEF Typed, PagesInHand
<1>2. CASE Publish(s) \/ PublishFails(s)
  BY <1>2 DEF Publish, PublishFails, KeepsLines, Lines, manifestVars
<1>3. CASE AppendManifest(s) \/ AppendUnsynced(s)
  BY <1>1, <1>3 DEF AppendManifest, AppendUnsynced, AppendLine, AtWork, KeepsLines,
     Lines
<1>4. CASE AppendTorn(s)
  BY <1>1, <1>4 DEF AppendTorn, AtWork, KeepsLines, Lines
<1>5. CASE UNCHANGED <<artifacts, manifest, garbled>>
  BY <1>5 DEF KeepsLines, Lines
<1>6. QED
  BY <1>2, <1>3, <1>4, <1>5 DEF WorkerStep, Skip, Begin, StopOnShutdown, Recover,
     RejectArtifact, Request, FetchFails, FetchPage, FindOrphan, SaveCheckpoint,
     Settle, WorkerRaises, HandleRaised, manifestVars

LEMMA NextLines ==
    ASSUME Typed, [Next]_vars
    PROVE  KeepsLines
<1>1. ASSUME NEW s \in States, WorkerStep(s) PROVE KeepsLines
  BY <1>1, WorkerLines
<1>2. CASE UNCHANGED <<artifacts, manifest, garbled>>
  BY <1>2 DEF KeepsLines, Lines
<1>3. QED
  BY <1>1, <1>2 DEF Next, vars, Abort, ApiChange, Finish, FinishUnsynced,
     FinishUnwritten, Crash, RequestShutdown, Restart, manifestVars

\* A worker that is about to save stays there, or has just written its line.
HasLine(t) ==
    pc'[t] = "save" =>
        \/ pc[t] = "save" /\ UNCHANGED <<local[t], page[t]>>
        \/ [state |-> t, offset |-> local'[t].offset - page'[t].count,
            count |-> page'[t].count] \in Lines'

LEMMA WorkerHasLine ==
    ASSUME Typed, NEW s \in States, WorkerStep(s), NEW t \in States
    PROVE  HasLine(t)
<1> USE DEF HasLine, Goto
<1>1. /\ pc \in [States -> PCs] /\ local \in [States -> Locals]
      /\ page \in [States -> Pages]
  BY DEF Typed, TypeOK, Locals, Pages
<1>2. CASE AppendManifest(s)
  <2>1. CASE t = s
    <3>1. InHand(s) \in Lines'
      BY <1>2 DEF AppendManifest, AppendLine, Lines
    <3>2. QED
      BY <1>2, <2>1, <3>1 DEF AppendManifest, InHand
  <2>2. CASE t # s
    BY <1>1, <1>2, <2>2 DEF AppendManifest
  <2>3. QED
    BY <2>1, <2>2
<1>3. ASSUME NEW k \in PCs \ {"save"}, pc' = [pc EXCEPT ![s] = k],
             \A u \in States \ {s} : local'[u] = local[u] /\ page'[u] = page[u]
      PROVE  HasLine(t)
  BY <1>1, <1>3
<1>4. \A u \in States \ {s} : local'[u] = local[u] /\ page'[u] = page[u]
  BY <1>1 DEF WorkerStep, Skip, Begin, StopOnShutdown, Recover, RejectArtifact,
     Request, FetchFails, FetchPage, FindOrphan, Publish, PublishFails,
     AppendManifest, AppendUnsynced, AppendTorn, SaveCheckpoint, Settle,
     WorkerRaises, HandleRaised
<1>5. AppendManifest(s) \/ \E k \in PCs \ {"save"} : pc' = [pc EXCEPT ![s] = k]
  BY DEF PCs, WorkerStep, Skip, Begin, StopOnShutdown, Recover, RejectArtifact,
     Request, FetchFails, FetchPage, FindOrphan, Publish, PublishFails, Fail,
     AfterPage, AppendUnsynced, AppendTorn, SaveCheckpoint, Settle,
     WorkerRaises, HandleRaised
<1>6. QED
  BY <1>2, <1>3, <1>4, <1>5

LEMMA NextLinesInHand ==
    ASSUME Typed, LinesInHand, [Next]_vars
    PROVE  LinesInHand'
<1>1. KeepsLines
  BY NextLines
<1>2. ASSUME NEW t \in States PROVE HasLine(t)
  <2>1. ASSUME NEW s \in States, WorkerStep(s) PROVE HasLine(t)
    BY <2>1, WorkerHasLine
  <2>2. CASE UNCHANGED <<pc, local, page>>
    BY <2>2 DEF HasLine
  <2>3. ASSUME NEW how, Ends(how) PROVE HasLine(t)
    BY <2>3 DEF Ends, HasLine
  <2>4. QED
    BY <2>1, <2>2, <2>3 DEF Next, vars, Abort, ApiChange, Finish, FinishUnsynced,
       FinishUnwritten, Crash, RequestShutdown, Restart
<1>3. ASSUME NEW t \in States, pc'[t] = "save"
      PROVE  [state |-> t, offset |-> local'[t].offset - page'[t].count,
              count |-> page'[t].count] \in Lines'
  <2>1. CASE pc[t] = "save" /\ UNCHANGED <<local[t], page[t]>>
    <3>1. InHand(t) \in Lines
      BY <2>1 DEF LinesInHand
    <3>2. QED
      BY <1>1, <2>1, <3>1 DEF KeepsLines, InHand
  <2>2. QED
    BY <1>2, <1>3, <2>1 DEF HasLine
<1>4. QED
  BY <1>3 DEF LinesInHand, InHand

\* A line that can be read is never lost, except the last one when its newline is
\* missing, and then what is left of it stays: a rewrite of the manifest would
\* violate this.
THEOREM LinesAlwaysKept == Spec => LinesAreKept
<1>1. Typed /\ [Next]_vars
        => [manifest \ manifest' \subseteq tail \cap garbled' /\ garbled \subseteq garbled']_vars
  BY NextLines DEF KeepsLines
<1>2. QED
  BY <1>1, InitTyped, NextTyped, PTL DEF Spec, LinesAreKept

-----------------------------------------------------------------------------
(* Layer 3: what a step does to checkpoints and artifacts *)

\* The four ways a worker replaces its checkpoint: it marks a state that is not
\* complete, starts over, counts the batch of a line, or completes the state.
Marks(s, c) ==
    /\ cp[s].status # "COMPLETED" /\ c.status # "COMPLETED"
    /\ c.offset = cp[s].offset
Resets(s, c) == c.status # "COMPLETED" /\ c.offset = 0
Counts(s, c) ==
    /\ cp[s].status # "COMPLETED" /\ c.status # "COMPLETED"
    /\ \E b \in artifacts : /\ b.state = s /\ b.offset = cp[s].offset
                            /\ c.offset = EndOf(b)
                            /\ b \in Lines
Completes(s, c) ==
    /\ cp[s].status # "COMPLETED" /\ c.status = "COMPLETED"
    /\ c.offset = cp[s].offset
    /\ c.total # NoTotal /\ c.written >= c.total

\* A step that leaves the artifacts as they are and replaces one checkpoint.
Updates(s) ==
    /\ up /\ artifacts' = artifacts
    /\ \E c : /\ cp' = [cp EXCEPT ![s] = c]
              /\ Marks(s, c) \/ Resets(s, c) \/ Counts(s, c) \/ Completes(s, c)

\* A step that adds an artifact of s where its checkpoint stands and no other
\* begins, and at most marks the state.
Grows(s) ==
    /\ up
    /\ cp[s].status # "COMPLETED"
    /\ \E c : cp' = [cp EXCEPT ![s] = c] /\ Marks(s, c)
    /\ \E n \in Nat \ {0} :
        /\ cp[s].offset + n <= MaxTotal
        /\ ~Taken(s, cp[s].offset)
        /\ artifacts' = artifacts \cup
             {[state |-> s, offset |-> cp[s].offset, count |-> n]}

Rests == UNCHANGED <<cp, artifacts>>

LEMMA WorkerFootprint ==
    ASSUME Typed, LinesInHand, NEW s \in States, WorkerStep(s)
    PROVE  Rests \/ Updates(s) \/ Grows(s)
<1>1. Fits(s, cp[s], local[s], page[s], pc[s], artifacts)
      /\ cp \in [States -> Checkpoints]
  BY AtWorker DEF Typed, TypeOK
<1>2. CASE Skip(s) \/ Request(s) \/ FetchPage(s) \/ AppendManifest(s)
           \/ AppendUnsynced(s) \/ AppendTorn(s) \/ WorkerRaises(s)
  BY <1>2 DEF Skip, Request, FetchPage, AppendManifest, AppendUnsynced,
     AppendTorn, WorkerRaises, Rests
<1> USE DEF AtWork
<1>3. CASE StopOnShutdown(s) \/ RejectArtifact(s) \/ FetchFails(s) \/ FindOrphan(s)
           \/ (PublishFails(s) /\ artifacts' = artifacts)
  <2>1. up /\ pc[s] \in Working /\ artifacts' = artifacts /\ MarkFailed(s)
    BY <1>3 DEF StopOnShutdown, RejectArtifact, FetchFails, FindOrphan,
       PublishFails, Fail, Working, PCs
  <2> DEFINE c == [cp[s] EXCEPT !.status = "FAILED"]
  <2>2. cp' = [cp EXCEPT ![s] = c]
    BY <2>1 DEF MarkFailed
  <2>3. Marks(s, c)
    BY <1>1, <2>1 DEF Marks, Fits, Checkpoints
  <2> HIDE DEF c
  <2>4. QED
    BY <2>1, <2>2, <2>3 DEF Updates
<1>4. ASSUME NEW l \in Loadable(s), NEW f \in Statuses \ {"COMPLETED"}, up,
             cp' = [cp EXCEPT ![s] = [l.c EXCEPT !.status = f]],
             artifacts' = artifacts,
             l.c = cp[s] => cp[s].status # "COMPLETED"
      PROVE  Updates(s)
  <2> DEFINE c == [l.c EXCEPT !.status = f]
  <2>1. cp' = [cp EXCEPT ![s] = c]
    BY <1>4
  <2>2. Marks(s, c) \/ Resets(s, c)
    <3>1. CASE l.c = cp[s]
      BY <1>1, <1>4, <3>1 DEF Marks, Fits, Checkpoints
    <3>2. CASE l.c = DefaultCheckpoint
      BY <1>4, <3>2 DEF Resets, DefaultCheckpoint
    <3>3. QED
      BY <3>1, <3>2 DEF Loadable
  <2> HIDE DEF c
  <2>3. QED
    BY <1>4, <2>1, <2>2 DEF Updates
<1>5. CASE Begin(s)
  <2>1. PICK l \in Loadable(s) :
          /\ ~AlreadyDone(l.c)
          /\ cp' = [cp EXCEPT ![s] = [l.c EXCEPT !.status = "IN_PROGRESS"]]
    BY <1>5 DEF Begin
  <2>2. up /\ artifacts' = artifacts
    BY <1>5 DEF Begin, PickedUp
  <2>3. QED
    BY <1>4, <2>1, <2>2 DEF AlreadyDone, Statuses
<1>6. CASE HandleRaised(s)
  <2>1. PICK l \in Loadable(s) :
          cp' = [cp EXCEPT ![s] = [l.c EXCEPT !.status = "FAILED"]]
    BY <1>6 DEF HandleRaised
  <2>2. up /\ artifacts' = artifacts /\ cp[s].status # "COMPLETED"
    BY <1>1, <1>6 DEF HandleRaised, Fits
  <2>3. QED
    BY <1>4, <2>1, <2>2 DEF Statuses
<1>7. CASE Recover(s)
  <2>1. PICK b \in Persisted(s, local[s].offset) :
          /\ Valid(b)
          /\ cp' = [cp EXCEPT ![s] =
                      Checkpoint(Advanced(local[s], b.count), "IN_PROGRESS")]
    BY <1>7 DEF Recover
  <2> DEFINE c == Checkpoint(Advanced(local[s], b.count), "IN_PROGRESS")
  <2>2. c.offset = local[s].offset + b.count /\ c.status = "IN_PROGRESS"
    BY DEF Checkpoint, Advanced
  <2>3. /\ b \in artifacts /\ b \in manifest /\ b.state = s
        /\ b.offset = local[s].offset /\ local[s].offset = cp[s].offset
        /\ cp[s].status # "COMPLETED"
    BY <1>1, <1>7, <2>1 DEF Valid, Persisted, Recover, Fits, Working, PCs
  <2>4. up /\ cp' = [cp EXCEPT ![s] = c] /\ artifacts' = artifacts
    BY <1>7, <2>1 DEF Recover
  <2> HIDE DEF c
  <2>5. Counts(s, c)
    BY <2>2, <2>3 DEF Counts, EndOf, Lines
  <2>6. QED
    BY <2>4, <2>5 DEF Updates
<1>8. CASE SaveCheckpoint(s)
  <2> DEFINE c == Checkpoint(local[s], "IN_PROGRESS")
             b == [state |-> s, offset |-> local[s].offset - page[s].count,
                   count |-> page[s].count]
  <2>1. up /\ cp' = [cp EXCEPT ![s] = c] /\ artifacts' = artifacts
    BY <1>8 DEF SaveCheckpoint
  <2>2. /\ b \in artifacts /\ local[s].offset = cp[s].offset + page[s].count
        /\ cp[s].offset \in Nat /\ page[s].count \in Nat
        /\ cp[s].status # "COMPLETED"
    BY <1>1, <1>8 DEF SaveCheckpoint, Fits, Checkpoints, Pages, Working, PCs
  <2>3. b \in Lines
    BY <1>8 DEF SaveCheckpoint, LinesInHand, InHand
  <2>4. b.state = s /\ b.offset = cp[s].offset /\ EndOf(b) = local[s].offset
    BY <2>2 DEF EndOf
  <2>5. c.offset = local[s].offset /\ c.status = "IN_PROGRESS"
    BY DEF Checkpoint
  <2> HIDE DEF b, c
  <2>6. Counts(s, c)
    BY <2>2, <2>3, <2>4, <2>5 DEF Counts
  <2>7. QED
    BY <2>1, <2>6 DEF Updates
<1>9. CASE Settle(s)
  <2> DEFINE f == IF Reconciles(local[s].total, local[s].written)
                  THEN "COMPLETED" ELSE "FAILED"
             c == Checkpoint(local[s], f)
  <2>1. up /\ cp' = [cp EXCEPT ![s] = c] /\ artifacts' = artifacts
    BY <1>9 DEF Settle
  <2>2. /\ c.offset = local[s].offset /\ c.total = local[s].total
        /\ c.written = local[s].written /\ c.status = f
    BY DEF Checkpoint
  <2>3. local[s].offset = cp[s].offset /\ cp[s].status # "COMPLETED"
    BY <1>1, <1>9 DEF Settle, Fits, Working, PCs
  <2> HIDE DEF c
  <2>4. Marks(s, c) \/ Completes(s, c)
    BY <2>2, <2>3 DEF Marks, Completes, Reconciles
  <2>5. QED
    BY <2>1, <2>4 DEF Updates
<1>10. CASE Publish(s) \/ (PublishFails(s) /\ artifacts' # artifacts)
  <2>1. /\ up /\ ~Taken(s, local[s].offset) /\ pc[s] = "persist"
        /\ artifacts' = artifacts \cup
             {[state |-> s, offset |-> local[s].offset, count |-> page[s].count]}
        /\ cp' = cp \/ MarkFailed(s)
    BY <1>10 DEF Publish, PublishFails, Fail
  <2>2. /\ local[s].offset = cp[s].offset /\ page[s].count \in Nat \ {0}
        /\ cp[s].offset + page[s].count <= MaxTotal
        /\ cp[s].status # "COMPLETED"
    BY <1>1, <2>1 DEF Fits, Pages, Working, PCs
  <2>3. \E c : cp' = [cp EXCEPT ![s] = c] /\ Marks(s, c)
    <3>1. CASE cp' = cp
      <4>1. cp' = [cp EXCEPT ![s] = cp[s]] /\ Marks(s, cp[s])
        BY <1>1, <2>2, <3>1 DEF Marks
      <4>2. QED
        BY <4>1
    <3>2. CASE MarkFailed(s)
      <4> DEFINE c == [cp[s] EXCEPT !.status = "FAILED"]
      <4>1. cp' = [cp EXCEPT ![s] = c]
        BY <3>2 DEF MarkFailed
      <4>2. Marks(s, c)
        BY <1>1, <2>2 DEF Marks, Checkpoints
      <4> HIDE DEF c
      <4>3. QED
        BY <4>1, <4>2
    <3>3. QED
      BY <2>1, <3>1, <3>2
  <2>4. QED
    BY <2>1, <2>2, <2>3 DEF Grows
<1>11. QED
  BY <1>2, <1>3, <1>5, <1>6, <1>7, <1>8, <1>9, <1>10 DEF WorkerStep

LEMMA Footprint ==
    ASSUME Typed, LinesInHand, [Next]_vars
    PROVE  Rests \/ \E s \in States : Updates(s) \/ Grows(s)
<1>1. ASSUME NEW s \in States, WorkerStep(s)
      PROVE  Rests \/ Updates(s) \/ Grows(s)
  BY <1>1, WorkerFootprint
<1>2. QED
  BY <1>1 DEF Next, vars, Abort, ApiChange, Finish, FinishUnsynced,
     FinishUnwritten, Crash, RequestShutdown, Restart, Rests

-----------------------------------------------------------------------------
(* Layer 4: the artifacts of a state lie end to end *)

Tiling == ArtifactsTile /\ Frontier /\ CheckpointsAtBoundary

LEMMA CoversMonotone ==
    ASSUME NEW A, NEW B, A \subseteq B, NEW s, NEW n, Covers(A, s, n)
    PROVE  Covers(B, s, n)
BY DEF Covers

\* A covered prefix grows by the batch that begins at its end.
LEMMA CoversExtend ==
    ASSUME NEW A \in SUBSET Batches, NEW s \in States, NEW b \in A, b.state = s,
           Covers(A, s, b.offset)
    PROVE  Covers(A, s, EndOf(b))
<1> SUFFICES ASSUME NEW i \in 0..(EndOf(b) - 1)
             PROVE  \E a \in A : a.state = s /\ a.offset <= i /\ i < EndOf(a)
  BY DEF Covers
<1>1. b.offset \in Nat /\ b.count \in Nat
  BY DEF Batches
<1>2. CASE i < b.offset
  BY <1>1, <1>2 DEF Covers
<1>3. CASE b.offset <= i
  BY <1>1, <1>3 DEF EndOf
<1>4. QED
  BY <1>1, <1>2, <1>3

LEMMA CoversNothing == \A A, s : Covers(A, s, 0)
BY DEF Covers

\* Where the artifacts do not change the tiling is about the checkpoints alone.
LEMMA UpdatesTiles ==
    ASSUME Typed, Tiling, NEW s \in States, Updates(s)
    PROVE  Tiling'
<1>1. artifacts \in SUBSET Batches /\ artifacts' = artifacts
      /\ cp \in [States -> Checkpoints]
  BY DEF Typed, TypeOK, Updates
<1>2. ArtifactsTile' /\ Frontier'
  BY <1>1 DEF Tiling, ArtifactsTile, Frontier, Boundary, Taken
<1>3. PICK c : /\ cp' = [cp EXCEPT ![s] = c]
               /\ Marks(s, c) \/ Resets(s, c) \/ Counts(s, c) \/ Completes(s, c)
  BY DEF Updates
<1>4. ASSUME NEW t \in States
      PROVE  Boundary(t, cp[t].offset) /\ Covers(artifacts, t, cp[t].offset)
  BY DEF Tiling, CheckpointsAtBoundary
<1>5. Boundary(s, c.offset) /\ Covers(artifacts, s, c.offset)
  <2>1. CASE c.offset = cp[s].offset
    BY <1>4, <2>1
  <2>2. CASE c.offset = 0
    BY <2>2, CoversNothing DEF Boundary
  <2>3. CASE \E b \in artifacts : /\ b.state = s /\ b.offset = cp[s].offset
                                  /\ c.offset = EndOf(b)
    BY <1>1, <1>4, <2>3, CoversExtend DEF Boundary
  <2>4. QED
    BY <1>3, <2>1, <2>2, <2>3 DEF Marks, Resets, Counts, Completes
<1>6. ASSUME NEW t \in States
      PROVE  Boundary(t, cp'[t].offset) /\ Covers(artifacts, t, cp'[t].offset)
  BY <1>1, <1>3, <1>4, <1>5
<1>7. CheckpointsAtBoundary'
  BY <1>1, <1>6 DEF CheckpointsAtBoundary, Boundary
<1>8. QED
  BY <1>2, <1>7 DEF Tiling

\* A batch added where no other begins lies beyond all of its state.
LEMMA GrowsTiles ==
    ASSUME Typed, Tiling, NEW s \in States, Grows(s)
    PROVE  Tiling'
<1> DEFINE p == cp[s].offset
<1>1. PICK n \in Nat \ {0} :
        /\ p + n <= MaxTotal /\ ~Taken(s, p)
        /\ artifacts' = artifacts \cup {[state |-> s, offset |-> p, count |-> n]}
  BY DEF Grows
<1> DEFINE b == [state |-> s, offset |-> p, count |-> n]
<1>2. p \in Nat /\ p \in 0..MaxTotal
  BY <1>1, BoundsAssumption DEF Typed, TypeOK, Checkpoints
<1>3. Boundary(s, p)
  BY DEF Tiling, CheckpointsAtBoundary
<1>4. \A a \in artifacts : a.state = s => EndOf(a) <= p
  BY <1>1, <1>2, <1>3 DEF Tiling, Frontier
<1>5. b.state = s /\ b.offset = p /\ EndOf(b) = p + n /\ artifacts' = artifacts \cup {b}
  BY <1>1 DEF EndOf
<1>6. \A a \in artifacts : a.offset \in Nat /\ a.count \in Nat \ {0} /\ EndOf(a) \in Nat
  BY DEF Typed, TypeOK, Batches, EndOf
<1>7. \A t \in States, q \in Nat : Boundary(t, q) => Boundary(t, q)'
  BY <1>5 DEF Boundary
<1> HIDE DEF p, b
<1>8. ArtifactsTile'
  <2>1. ASSUME NEW a \in artifacts', NEW c \in artifacts', a.state = c.state, a # c
        PROVE  EndOf(a) <= c.offset \/ EndOf(c) <= a.offset
    <3>1. CASE a \in artifacts /\ c \in artifacts
      BY <2>1, <3>1 DEF Tiling, ArtifactsTile
    <3>2. CASE a = b /\ c \in artifacts
      BY <1>4, <1>5, <2>1, <3>2
    <3>3. CASE c = b /\ a \in artifacts
      BY <1>4, <1>5, <2>1, <3>3
    <3>4. QED
      BY <1>5, <2>1, <3>1, <3>2, <3>3
  <2>2. ASSUME NEW a \in artifacts'
        PROVE  Boundary(a.state, a.offset)'
    <3>1. CASE a \in artifacts
      <4>1. Boundary(a.state, a.offset) /\ a.state \in States /\ a.offset \in Nat
        BY <3>1 DEF Tiling, ArtifactsTile, Typed, TypeOK, Batches
      <4>2. QED
        BY <1>7, <4>1
    <3>2. CASE a = b
      BY <1>2, <1>3, <1>5, <1>7, <3>2
    <3>3. QED
      BY <1>5, <3>1, <3>2
  <2>3. QED
    BY <2>1, <2>2 DEF ArtifactsTile, EndOf
<1>9. Frontier'
  <2>1. \A a \in artifacts' : EndOf(a) <= MaxTotal
    BY <1>1, <1>5 DEF Tiling, Frontier, p
  <2>2. ASSUME NEW t \in States, NEW q \in 0..MaxTotal,
               Boundary(t, q)', ~Taken(t, q)', NEW a \in artifacts', a.state = t
        PROVE  EndOf(a) <= q
    <3>1. CASE t # s
      <4>1. Boundary(t, q) /\ ~Taken(t, q) /\ a \in artifacts
        BY <1>5, <2>2, <3>1 DEF Boundary, Taken
      <4>2. QED
        BY <2>2, <4>1 DEF Tiling, Frontier
    <3>2. CASE t = s
      <4>1. q # p /\ ~Taken(s, q)
        BY <1>5, <2>2, <3>2 DEF Taken
      <4>2. q = p + n \/ Boundary(s, q)
        BY <1>5, <2>2, <3>2 DEF Boundary
      <4>3. CASE q = p + n
        BY <1>2, <1>4, <1>5, <1>6, <2>2, <3>2, <4>3
      <4>4. CASE Boundary(s, q)
        <5>1. \A c \in artifacts : c.state = s => EndOf(c) <= q
          BY <4>1, <4>4 DEF Tiling, Frontier
        <5>2. p <= q
          BY <1>2, <1>3, <5>1 DEF Boundary
        <5>3. q <= p
          BY <1>2, <1>4, <4>4 DEF Boundary
        <5>4. QED
          BY <1>2, <4>1, <5>2, <5>3
      <4>5. QED
        BY <4>2, <4>3, <4>4
    <3>3. QED
      BY <3>1, <3>2
  <2>3. QED
    BY <2>1, <2>2 DEF Frontier, EndOf
<1>10. CheckpointsAtBoundary'
  <2>1. ASSUME NEW t \in States
        PROVE  /\ \/ cp'[t].offset = 0
                  \/ \E a \in artifacts' : a.state = t /\ EndOf(a) = cp'[t].offset
               /\ Covers(artifacts', t, cp'[t].offset)
    <3>1. /\ cp'[t].offset = cp[t].offset /\ cp[t].offset \in Nat
          /\ Boundary(t, cp[t].offset) /\ Covers(artifacts, t, cp[t].offset)
      BY DEF Grows, Marks, Tiling, CheckpointsAtBoundary, Typed, TypeOK, Checkpoints
    <3>2. \/ cp[t].offset = 0
          \/ \E a \in artifacts' : a.state = t /\ EndOf(a) = cp[t].offset
      BY <3>1, <1>5 DEF Boundary
    <3>3. Covers(artifacts', t, cp[t].offset)
      BY <1>5, <3>1, CoversMonotone
    <3>4. QED
      BY <3>1, <3>2, <3>3
  <2>2. QED
    BY <2>1 DEF CheckpointsAtBoundary, Boundary, EndOf
<1>11. QED
  BY <1>8, <1>9, <1>10 DEF Tiling

LEMMA InitTiles == Init => Tiling
<1> SUFFICES ASSUME Init PROVE Tiling
  OBVIOUS
<1>1. ArtifactsTile /\ Frontier
  BY DEF Init, ArtifactsTile, Frontier
<1>2. CheckpointsAtBoundary
  BY CoversNothing DEF Init, CheckpointsAtBoundary, Boundary, DefaultCheckpoint
<1>3. QED
  BY <1>1, <1>2 DEF Tiling

LEMMA NextTiles ==
    ASSUME Typed, LinesInHand, Tiling, [Next]_vars
    PROVE  Tiling'
<1>1. CASE Rests
  BY <1>1 DEF Rests, Tiling, ArtifactsTile, Frontier, CheckpointsAtBoundary,
     Boundary, Taken
<1>2. QED
  BY <1>1, Footprint, UpdatesTiles, GrowsTiles

-----------------------------------------------------------------------------
(* Layer 5: the manifest between the artifacts and the checkpoints *)

\* While the artifacts a line may name stay, and a checkpoint counts only lines,
\* the order of the writes is kept.
LEMMA NextPersistence ==
    ASSUME Typed, LinesInHand, PersistenceOrder, [Next]_vars
    PROVE  PersistenceOrder'
<1>1. KeepsLines /\ Typed'
  BY NextLines, NextTyped
<1>2. manifest' \subseteq artifacts'
  BY <1>1 DEF KeepsLines, PersistenceOrder
<1>3. /\ cp \in [States -> Checkpoints] /\ Lines \in SUBSET Batches
      /\ Lines' \in SUBSET Batches /\ Lines \subseteq Lines'
  BY <1>1 DEF Typed, TypeOK, Lines, KeepsLines
<1>4. ASSUME NEW t \in States
      PROVE  cp'[t].written = cp'[t].offset
  BY <1>1 DEF Typed, WorkersInStep
<1>5. ASSUME NEW t \in States
      PROVE  Covers(Lines', t, cp'[t].offset)
  <2>2. Covers(Lines, t, cp[t].offset)
    BY DEF PersistenceOrder
  <2>3. Covers(Lines, t, cp'[t].offset)
    <3>1. CASE cp'[t] = cp[t]
      BY <2>2, <3>1
    <3>2. ASSUME NEW s \in States, NEW c, cp' = [cp EXCEPT ![s] = c],
                 Marks(s, c) \/ Resets(s, c) \/ Counts(s, c) \/ Completes(s, c)
          PROVE  Covers(Lines, t, cp'[t].offset)
      <4>1. CASE t # s
        BY <1>3, <2>2, <3>2, <4>1
      <4>2. CASE t = s
        <5>1. cp'[t] = c
          BY <1>3, <3>2, <4>2
        <5>2. CASE c.offset = cp[t].offset
          BY <2>2, <5>1, <5>2
        <5>3. CASE c.offset = 0
          BY <5>1, <5>3, CoversNothing
        <5>4. CASE \E b \in Lines : /\ b.state = t /\ b.offset = cp[t].offset
                                    /\ c.offset = EndOf(b)
          BY <1>3, <2>2, <5>1, <5>4, CoversExtend
        <5>5. QED
          BY <3>2, <4>2, <5>2, <5>3, <5>4
             DEF Marks, Resets, Counts, Completes
      <4>3. QED
        BY <4>1, <4>2
    <3>3. QED
      BY <3>1, <3>2, Footprint DEF Rests, Updates, Grows
  <2>4. QED
    BY <1>3, <2>3, CoversMonotone
<1>6. QED
  BY <1>2, <1>4, <1>5 DEF PersistenceOrder

-----------------------------------------------------------------------------
(* Layer 6: what COMPLETED and exit code 0 stand for *)

\* A worker acts only while its process runs; it completes only what reconciles.
LEMMA UpdatesReconciled ==
    ASSUME Typed, CompletedIsReconciled, NEW s \in States,
           Updates(s) \/ Grows(s), UNCHANGED <<up, exit>>
    PROVE  CompletedIsReconciled'
<1>1. cp \in [States -> Checkpoints] /\ up
  BY DEF Typed, TypeOK, Updates, Grows
<1>2. PICK c : /\ cp' = [cp EXCEPT ![s] = c]
               /\ Marks(s, c) \/ Resets(s, c) \/ Counts(s, c) \/ Completes(s, c)
  BY DEF Updates, Grows
<1>3. ASSUME NEW t \in States, cp'[t].status = "COMPLETED"
      PROVE  cp'[t].total # NoTotal /\ cp'[t].written >= cp'[t].total
  <2>1. CASE t = s
    BY <1>1, <1>2, <1>3, <2>1 DEF Marks, Resets, Counts, Completes
  <2>2. CASE t # s
    BY <1>1, <1>2, <1>3, <2>2 DEF CompletedIsReconciled
  <2>3. QED
    BY <2>1, <2>2
<1>4. exit' = "none" /\ up'
  BY <1>1 DEF CompletedIsReconciled
<1>5. QED
  BY <1>3, <1>4 DEF CompletedIsReconciled

LEMMA NextReconciled ==
    ASSUME Typed, LinesInHand, CompletedIsReconciled, [Next]_vars
    PROVE  CompletedIsReconciled'
<1>1. CASE UNCHANGED <<cp, up, exit>>
  BY <1>1 DEF CompletedIsReconciled
<1>2. ASSUME NEW s \in States, WorkerStep(s) PROVE CompletedIsReconciled'
  <2>1. UNCHANGED <<up, exit>>
    BY <1>2 DEF processVars, WorkerStep, Skip, Begin, StopOnShutdown, Recover,
       RejectArtifact, Request, FetchFails, FetchPage, FindOrphan, Publish,
       PublishFails, AppendManifest, AppendUnsynced, AppendTorn, SaveCheckpoint,
       Settle, WorkerRaises, HandleRaised
  <2>2. QED
    BY <1>1, <1>2, <2>1, WorkerFootprint, UpdatesReconciled DEF Rests
<1>3. CASE Finish
  BY <1>3 DEF Finish, Ends, RunReconciles, CompletedIsReconciled
<1>4. CASE FinishUnsynced \/ FinishUnwritten \/ Crash \/ \E s \in States : Abort(s)
  BY <1>4 DEF FinishUnsynced, FinishUnwritten, Crash, Abort, Ends, CompletedIsReconciled
<1>5. CASE Restart
  BY <1>5 DEF Restart, CompletedIsReconciled
<1>6. QED
  BY <1>1, <1>2, <1>3, <1>4, <1>5 DEF Next, vars, RequestShutdown, ApiChange,
     processVars

-----------------------------------------------------------------------------
(* Layer 7: the summary *)

LEMMA CoversLess ==
    ASSUME NEW A, NEW s, NEW m \in Nat, NEW n \in Nat, n <= m, Covers(A, s, m)
    PROVE  Covers(A, s, n)
BY DEF Covers

\* Where every state is complete, every record below its total is published and
\* has its line.
LEMMA CompletedIsWhole ==
    ASSUME Typed, Tiling, PersistenceOrder, CompletedIsReconciled,
           \A s \in States : cp[s].status = "COMPLETED"
    PROVE  Whole([s \in States |-> cp[s].total])
<1> SUFFICES ASSUME NEW s \in States
             PROVE  /\ cp[s].total # NoTotal
                    /\ Covers(artifacts, s, cp[s].total)
                    /\ Covers(Lines, s, cp[s].total)
  BY DEF Whole
<1>1. /\ cp[s].total # NoTotal /\ cp[s].written >= cp[s].total
  BY DEF CompletedIsReconciled
<1>2. /\ cp[s].total \in Nat /\ cp[s].offset \in Nat
      /\ cp[s].written = cp[s].offset /\ cp[s].total <= cp[s].offset
  BY <1>1 DEF Typed, TypeOK, Checkpoints, Totals, WorkersInStep
<1>3. /\ Covers(artifacts, s, cp[s].offset)
      /\ Covers(Lines, s, cp[s].offset)
  BY DEF Tiling, CheckpointsAtBoundary, PersistenceOrder
<1>4. QED
  BY <1>1, <1>2, <1>3, CoversLess

\* What a summary says stays true: artifacts and lines are never taken back.
LEMMA NextSummary ==
    ASSUME Typed, Tiling, PersistenceOrder, CompletedIsReconciled, SummaryHolds,
           [Next]_vars
    PROVE  SummaryHolds'
<1>1. /\ artifacts \subseteq artifacts' /\ Lines \subseteq Lines'
  BY NextLines DEF KeepsLines
<1>2. ASSUME NEW totals, Whole(totals)
      PROVE  Whole(totals)'
  BY <1>1, <1>2, CoversMonotone DEF Whole
<1>3. CASE summary' = summary
  BY <1>2, <1>3 DEF SummaryHolds
<1>4. CASE Finish \/ FinishUnsynced
  <2>1. summary' = Summarised /\ Summarised' = Summarised
    BY <1>4 DEF Finish, FinishUnsynced, Summarised, RunReconciles
  <2>2. ASSUME Summarised.status = "COMPLETED"
        PROVE  Whole(Summarised.totals)'
    <3>1. \A s \in States : cp[s].status = "COMPLETED"
      BY <2>2 DEF Summarised, RunReconciles
    <3>2. Whole([s \in States |-> cp[s].total])
      BY <3>1, CompletedIsWhole
    <3>3. [s \in States |-> cp'[s].total] = [s \in States |-> cp[s].total]
      BY <1>4 DEF Finish, FinishUnsynced
    <3>4. QED
      BY <1>2, <3>2, <3>3 DEF Summarised
  <2>3. QED
    BY <2>1, <2>2 DEF SummaryHolds, Whole
<1>5. ASSUME NEW s \in States, WorkerStep(s) PROVE summary' = summary
  BY <1>5 DEF processVars, WorkerStep, Skip, Begin, StopOnShutdown, Recover,
     RejectArtifact, Request, FetchFails, FetchPage, FindOrphan, Publish,
     PublishFails, AppendManifest, AppendUnsynced, AppendTorn, SaveCheckpoint,
     Settle, WorkerRaises, HandleRaised
<1>6. QED
  BY <1>3, <1>4, <1>5 DEF Next, vars, Abort, ApiChange, FinishUnwritten, Crash,
     RequestShutdown, Restart, processVars

-----------------------------------------------------------------------------
(* The inductive invariant and what it implies *)

LEMMA InitDurable == Init => Durable
<1> SUFFICES ASSUME Init PROVE Durable
  OBVIOUS
<1>1. Typed /\ Tiling
  BY InitTyped, InitTiles
<1>2. PersistenceOrder /\ LinesInHand /\ CompletedIsReconciled /\ SummaryHolds
  BY CoversNothing DEF Init, PersistenceOrder, LinesInHand, CompletedIsReconciled,
     SummaryHolds, DefaultCheckpoint
<1>3. QED
  BY <1>1, <1>2 DEF Durable, Typed, Tiling

LEMMA NextDurable == Durable /\ [Next]_vars => Durable'
<1> SUFFICES ASSUME Durable, [Next]_vars PROVE Durable'
  OBVIOUS
<1>1. /\ Typed /\ Tiling /\ PersistenceOrder /\ LinesInHand /\ CompletedIsReconciled
      /\ SummaryHolds
  BY DEF Durable, Typed, Tiling
<1>2. /\ Typed' /\ Tiling' /\ PersistenceOrder' /\ LinesInHand' /\ CompletedIsReconciled'
      /\ SummaryHolds'
  BY <1>1, NextTyped, NextTiles, NextPersistence, NextLinesInHand, NextReconciled,
     NextSummary
<1>3. QED
  BY <1>2 DEF Durable, Typed, Tiling

\* The invariant holds in every reachable state, for any number of states, of
\* threads and of faults, any batch size and either storage backend.
THEOREM DurableAlways == Spec => []Durable
BY InitDurable, NextDurable, PTL DEF Spec

\* Whatever is killed, retried or grows, the artifacts of a state lie end to end
\* from offset 0: no record is extracted twice, none is left out between two.
THEOREM TilesAlways == Spec => []ArtifactsTile
<1>1. Durable => ArtifactsTile
  BY DEF Durable
<1>2. QED
  BY <1>1, DurableAlways, PTL

\* At every instant the manifest names only artifacts that are there, and the
\* checkpoint counts only records whose line was written.
THEOREM OrderAlways == Spec => []PersistenceOrder
<1>1. Durable => PersistenceOrder
  BY DEF Durable
<1>2. QED
  BY <1>1, DurableAlways, PTL

\* Exit code 0, and a summary that says COMPLETED, mean that every record below
\* each state's total is in an artifact and had its manifest line.
THEOREM ExitZeroAlways == Spec => []ExitZeroIsWhole
<1>1. Durable => ExitZeroIsWhole
  <2> SUFFICES ASSUME Durable PROVE ExitZeroIsWhole
    OBVIOUS
  <2>1. Typed /\ Tiling /\ PersistenceOrder /\ CompletedIsReconciled /\ SummaryHolds
    BY DEF Durable, Typed, Tiling
  <2>2. exit = "ok" => \A s \in States : cp[s].status = "COMPLETED"
    BY <2>1 DEF CompletedIsReconciled
  <2>3. QED
    BY <2>1, <2>2, CompletedIsWhole DEF SummaryHolds, ExitZeroIsWhole
<1>2. QED
  BY <1>1, DurableAlways, PTL

-----------------------------------------------------------------------------
(* The extraction implements BatchLog *)

Mark     == [t \in States |-> cp[t].offset]
Complete == [t \in States |-> cp[t].status = "COMPLETED"]

\* What a replaced checkpoint means for the mark and the flag.
LEMMA Mapped ==
    ASSUME cp \in [States -> Checkpoints], NEW s \in States, NEW c,
           cp' = [cp EXCEPT ![s] = c]
    PROVE  /\ Mark' = [Mark EXCEPT ![s] = c.offset]
           /\ Complete' = [Complete EXCEPT ![s] = (c.status = "COMPLETED")]
<1>1. \A t \in States : cp'[t] = IF t = s THEN c ELSE cp[t]
  OBVIOUS
<1>2. Mark' = [t \in States |-> cp'[t].offset]
  BY DEF Mark
<1>3. Complete' = [t \in States |-> cp'[t].status = "COMPLETED"]
  BY DEF Complete
<1>4. Mark' = [Mark EXCEPT ![s] = c.offset]
  BY <1>1, <1>2 DEF Mark
<1>5. Complete' = [Complete EXCEPT ![s] = (c.status = "COMPLETED")]
  BY <1>1, <1>3, Zenon DEF Complete
<1>6. QED
  BY <1>4, <1>5

\* A checkpoint that is marked has the mark and the flag it had.
LEMMA MarksMapped ==
    ASSUME cp \in [States -> Checkpoints], NEW s \in States, NEW c,
           cp' = [cp EXCEPT ![s] = c], Marks(s, c)
    PROVE  Mark' = Mark /\ Complete' = Complete
<1>1. /\ Mark' = [Mark EXCEPT ![s] = Mark[s]]
      /\ Complete' = [Complete EXCEPT ![s] = FALSE]
  BY Mapped DEF Marks, Mark
<1>2. Complete[s] = FALSE
  BY DEF Marks, Complete
<1>3. QED
  BY <1>1, <1>2 DEF Mark, Complete

LEMMA StepImplements ==
    ASSUME Durable, [Next]_vars
    PROVE  [Log!LogNext]_<<artifacts, Mark, Complete>>
<1>1. /\ cp \in [States -> Checkpoints] /\ artifacts \in SUBSET Batches
      /\ Tiling /\ Typed /\ LinesInHand
  BY DEF Durable, TypeOK, Tiling, Typed
<1>2. CASE Rests
  BY <1>2 DEF Rests, Mark, Complete
<1>3. ASSUME NEW s \in States, Grows(s)
      PROVE  Log!LogNext
  <2>1. PICK c : cp' = [cp EXCEPT ![s] = c] /\ Marks(s, c)
    BY <1>3 DEF Grows
  <2>2. Mark' = Mark /\ Complete' = Complete
    BY <1>1, <2>1, MarksMapped
  <2>3. PICK n \in Nat \ {0} :
          /\ cp[s].offset + n <= MaxTotal /\ ~Taken(s, cp[s].offset)
          /\ artifacts' = artifacts \cup
               {[state |-> s, offset |-> cp[s].offset, count |-> n]}
    BY <1>3 DEF Grows
  <2>4. cp[s].offset \in 0..MaxTotal /\ n \in 1..MaxTotal
    BY <1>1, <2>3, BoundsAssumption DEF Checkpoints
  <2>5. Log!EndsAt(s, cp[s].offset)
    BY <1>1, <2>3, <2>4 DEF Tiling, CheckpointsAtBoundary, Frontier, Boundary, EndOf,
       Log!EndsAt, Log!Of, Log!End
  <2>6. ~Complete[s]
    BY <1>3 DEF Grows, Complete
  <2>7. Log!Append(s)
    BY <2>2, <2>3, <2>4, <2>5, <2>6 DEF Log!Append, Mark, Complete
  <2>8. QED
    BY <2>7 DEF Log!LogNext
<1>4. ASSUME NEW s \in States, Updates(s)
      PROVE  Log!LogNext \/ UNCHANGED <<artifacts, Mark, Complete>>
  <2>1. PICK c : /\ cp' = [cp EXCEPT ![s] = c]
                 /\ Marks(s, c) \/ Resets(s, c) \/ Counts(s, c) \/ Completes(s, c)
    BY <1>4 DEF Updates
  <2>2. /\ artifacts' = artifacts
        /\ Mark' = [Mark EXCEPT ![s] = c.offset]
        /\ Complete' = [Complete EXCEPT ![s] = (c.status = "COMPLETED")]
    BY <1>1, <1>4, <2>1, Mapped DEF Updates
  <2>3. CASE Marks(s, c)
    BY <1>1, <2>1, <2>2, <2>3, MarksMapped
  <2>4. CASE Resets(s, c)
    <3>1. Log!Forget(s)
      BY <2>2, <2>4 DEF Resets, Log!Forget, Mark, Complete
    <3>2. QED
      BY <3>1 DEF Log!LogNext
  <2>5. CASE Counts(s, c)
    <3>1. PICK b \in artifacts : /\ b.state = s /\ b.offset = cp[s].offset
                                 /\ c.offset = EndOf(b)
      BY <2>5 DEF Counts
    <3>2. Complete' = Complete /\ ~Complete[s]
      BY <2>2, <2>5 DEF Counts, Complete
    <3>3. /\ b \in Log!Of(s) /\ b.offset = Mark[s]
          /\ Mark' = [Mark EXCEPT ![s] = Log!End(b)]
      BY <2>2, <3>1 DEF Log!Of, Log!End, EndOf, Mark
    <3>4. Log!Acknowledge(s)
      BY <2>2, <3>2, <3>3, Zenon DEF Log!Acknowledge, Mark, Complete
    <3>5. QED
      BY <3>4 DEF Log!LogNext
  <2>6. CASE Completes(s, c)
    <3>1. Mark' = Mark /\ ~Complete[s]
      BY <2>2, <2>6 DEF Completes, Mark, Complete
    <3>2. Log!FinishState(s)
      BY <2>2, <2>6, <3>1 DEF Completes, Log!FinishState, Mark, Complete
    <3>3. QED
      BY <3>2 DEF Log!LogNext
  <2>7. QED
    BY <2>1, <2>3, <2>4, <2>5, <2>6
<1>5. QED
  BY <1>1, <1>2, <1>3, <1>4, Footprint

\* Every behaviour of threads, files, faults and restarts is one of BatchLog: the
\* artifacts of a state are a log that only grows at its end and is frozen once
\* the state is complete, and the checkpoint moves over whole batches of it.
THEOREM Implements == Spec => ImplementsBatchLog
<1>1. Init => Log!LogInit
  <2> SUFFICES ASSUME Init PROVE Log!LogInit
    OBVIOUS
  <2>1. \A s \in States : cp[s].offset = 0 /\ (cp[s].status = "COMPLETED") = FALSE
    BY DEF Init, DefaultCheckpoint
  <2>2. artifacts = {}
    BY DEF Init
  <2>3. QED
    BY <2>1, <2>2, Zenon DEF Log!LogInit
<1>2. Durable /\ [Next]_vars => [Log!LogNext]_(Log!logVars)
  BY StepImplements DEF Log!logVars, Mark, Complete
<1>3. QED
  BY <1>1, <1>2, DurableAlways, PTL DEF Spec, ImplementsBatchLog, Log!LogSpec

=============================================================================
