---------------------------- MODULE OutboxWorker ----------------------------
(* OutboxWorker (app/core/outbox.py): the rows of event_outbox and the loop  *)
(* that claims, delivers and settles them, for any handlers.  One worker     *)
(* runs in each API process.  Its outbox transaction locks a batch of rows   *)
(* and commits every outcome at the end; the modules that extend this one    *)
(* add the handlers, which run in transactions of their own.                 *)
EXTENDS Naturals, FiniteSets

CONSTANTS
    Events,      \* outbox rows, numbered by created_at (commits come in any order)
    Workers,     \* OutboxWorker instances
    MaxRetries,  \* max_retries
    BatchSize    \* batch_size

\* 0 is no event.
ASSUME EventsAssumption == Events \subseteq Nat \ {0}
ASSUME WorkerAssumption == MaxRetries \in Nat \ {0} /\ BatchSize \in Nat \ {0}

VARIABLES
    outbox,    \* the committed row of each event
    pc,        \* "idle", "row" between two rows of a batch, or a point in a handler
    batch,     \* claimed rows a worker has still to process
    locks,     \* rows a worker's outbox transaction has locked
    outcome    \* uncommitted outcome of each row of the batch

EventStatus == {"absent", "pending", "completed", "failed"}
Row == [status : EventStatus, retries : Nat, next : {"due", "backoff"}]
NewRow == [status |-> "pending", retries |-> 0, next |-> "due"]
NoRow == [NewRow EXCEPT !.status = "absent"]
NoOutcome == [e \in Events |-> "none"]

OutboxInit ==
    /\ outbox = [e \in Events |-> NoRow]
    /\ pc = [w \in Workers |-> "idle"]
    /\ batch = [w \in Workers |-> {}]
    /\ locks = [w \in Workers |-> {}]
    /\ outcome = [w \in Workers |-> NoOutcome]

InHandler(w) == pc[w] \notin {"idle", "row"}

\* OutboxStore.append, committed with the change it announces.
AppendRow(e) == outbox' = [outbox EXCEPT ![e] = NewRow]

-----------------------------------------------------------------------------
(* process_once *)

\* Mutant of Claimable: the select without FOR UPDATE SKIP LOCKED.
ClaimableUnlocked == {e \in Events : outbox[e].status = "pending" /\ outbox[e].next = "due"}

\* Due pending rows no outbox transaction has locked (FOR UPDATE SKIP LOCKED).
Claimable == {e \in Events : /\ outbox[e].status = "pending"
                             /\ outbox[e].next = "due"
                             /\ \A v \in Workers : e \notin locks[v]}

OldestOf(S) == {e \in S : Cardinality({f \in S : f < e}) < BatchSize}

ClaimBatch(w) ==
    /\ pc[w] = "idle"
    /\ Claimable # {}
    /\ pc' = [pc EXCEPT ![w] = "row"]
    /\ batch' = [batch EXCEPT ![w] = OldestOf(Claimable)]
    /\ locks' = [locks EXCEPT ![w] = OldestOf(Claimable)]
    /\ UNCHANGED <<outbox, outcome>>

\* The next row in created_at order is flushed as PROCESSING, which no other
\* transaction ever sees, and its first handler starts at point.
TakeRow(w, e, point) ==
    /\ pc[w] = "row"
    /\ locks[w] # {}
    /\ \A f \in batch[w] : e <= f
    /\ batch' = [batch EXCEPT ![w] = @ \ {e}]
    /\ pc' = [pc EXCEPT ![w] = point]
    /\ UNCHANGED <<outbox, locks, outcome>>

\* The last handler returned or one raised: the loop goes on with the next row.
RecordOutcome(w, e, result) ==
    /\ pc' = [pc EXCEPT ![w] = "row"]
    /\ outcome' = [outcome EXCEPT ![w][e] = result]
    /\ UNCHANGED <<batch, locks>>

Completed == [status |-> "completed", retries |-> 0, next |-> "due"]

\* Mutant of AfterFailure: a swallowed exception completes the row.
AfterFailureSwallowed(row) == Completed

\* Mutant of AfterFailure: the row is left as it was flushed, PROCESSING.
AfterFailureLeft(row) == [row EXCEPT !.status = "processing"]

\* Mutant of AfterFailure: the limit is reached one failure early.
AfterFailureEarly(row) ==
    LET n == row.retries + 1
    IN [status |-> IF n + 1 >= MaxRetries THEN "failed" ELSE "pending",
        retries |-> n, next |-> IF n + 1 >= MaxRetries THEN "due" ELSE "backoff"]

\* A failed delivery counts a retry and backs off, or gives the row up.
AfterFailure(row) ==
    LET n == row.retries + 1
    IN [status |-> IF n >= MaxRetries THEN "failed" ELSE "pending",
        retries |-> n, next |-> IF n >= MaxRetries THEN "due" ELSE "backoff"]

RowAfter(row, result) ==
    CASE result = "ok" -> Completed
      [] result = "error" -> AfterFailure(row)
      [] OTHER -> row

\* process_once ends, its transaction committed or rolled back.
EndProcess(w) ==
    /\ pc' = [pc EXCEPT ![w] = "idle"]
    /\ batch' = [batch EXCEPT ![w] = {}]
    /\ locks' = [locks EXCEPT ![w] = {}]
    /\ outcome' = [outcome EXCEPT ![w] = NoOutcome]

CommitOutcomes(w) ==
    /\ pc[w] = "row"
    /\ locks[w] # {}
    /\ batch[w] = {}
    /\ outbox' = [e \in Events |-> RowAfter(outbox[e], outcome[w][e])]
    /\ EndProcess(w)

\* On a lost outbox connection the next flush or the commit raises out of
\* process_once, and every outcome of the batch is gone.
AbortProcess(w) ==
    /\ pc[w] = "row"
    /\ locks[w] = {}
    /\ EndProcess(w)
    /\ UNCHANGED outbox

\* next_retry_at passes.
RetryDue(e) ==
    /\ outbox[e].next = "backoff"
    /\ outbox' = [outbox EXCEPT ![e].next = "due"]
    /\ UNCHANGED <<pc, batch, locks, outcome>>

-----------------------------------------------------------------------------
(* Faults *)

\* The process stops: the database rolls its transactions back.
CrashProcess(w) ==
    /\ pc[w] # "idle"
    /\ EndProcess(w)
    /\ UNCHANGED outbox

\* The outbox connection is lost: its locks go, a handler runs on.
LoseLocks(w) ==
    /\ locks[w] # {}
    /\ locks' = [locks EXCEPT ![w] = {}]
    /\ UNCHANGED <<outbox, pc, batch, outcome>>

=============================================================================
