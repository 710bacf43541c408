------------------------------- MODULE BatchLog -------------------------------
(***************************************************************************)
(* What the extraction of one run promises its readers, without threads,   *)
(* files, requests or failures.  For every state there is                  *)
(*   - a log of batches that only grows, and only at its end: a batch is   *)
(*     never replaced, never overlaps another and never leaves a gap;      *)
(*   - a mark, the number of records acknowledged: it moves over one whole *)
(*     batch of the log at a time, or back to the beginning;               *)
(*   - a flag that the state is finished, after which its log is frozen.   *)
(* Extraction.tla implements it with the batch artifacts as the log and    *)
(* the checkpoint file as mark and flag.                                   *)
(***************************************************************************)
EXTENDS Naturals

CONSTANTS
    States,
    MaxRecords      \* bound: no log holds more records than this

VARIABLES log, mark, finished

logVars == <<log, mark, finished>>

Of(s) == {b \in log : b.state = s}
End(b) == b.offset + b.count

\* The log of s ends at p: p is 0 or the end of a batch, and no batch lies beyond.
EndsAt(s, p) ==
    /\ p = 0 \/ \E b \in Of(s) : End(b) = p
    /\ \A b \in Of(s) : End(b) <= p

LogInit ==
    /\ log = {}
    /\ mark = [s \in States |-> 0]
    /\ finished = [s \in States |-> FALSE]

\* A batch is added at the end of the log.
Append(s) ==
    /\ ~finished[s]
    /\ \E p \in 0..MaxRecords, n \in 1..MaxRecords :
        /\ EndsAt(s, p)
        /\ log' = log \cup {[state |-> s, offset |-> p, count |-> n]}
    /\ UNCHANGED <<mark, finished>>

\* The batch at the mark is acknowledged as a whole.
Acknowledge(s) ==
    /\ ~finished[s]
    /\ \E b \in Of(s) : b.offset = mark[s] /\ mark' = [mark EXCEPT ![s] = End(b)]
    /\ UNCHANGED <<log, finished>>

FinishState(s) ==
    /\ ~finished[s]
    /\ finished' = [finished EXCEPT ![s] = TRUE]
    /\ UNCHANGED <<log, mark>>

\* The acknowledgements of the state are lost; its log is not.
Forget(s) ==
    /\ mark' = [mark EXCEPT ![s] = 0]
    /\ finished' = [finished EXCEPT ![s] = FALSE]
    /\ UNCHANGED log

LogNext ==
    \E s \in States : Append(s) \/ Acknowledge(s) \/ FinishState(s) \/ Forget(s)

LogSpec == LogInit /\ [][LogNext]_logVars

=============================================================================
