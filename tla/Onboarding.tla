----------------------------- MODULE Onboarding -----------------------------
(***************************************************************************)
(* The onboarding of one repository: the Celery chain of stages started by *)
(* start_onboarding (services/onboarding/pipeline.py), the worker slots    *)
(* that execute it, the status rows it keeps in Postgres, and the API      *)
(* handlers that register, retry and delete the repository                 *)
(* (api/repos.py).                                                         *)
(*                                                                         *)
(* A status write is a SELECT and a later commit, in a transaction of its  *)
(* own and with every error swallowed; the table has no unique key on      *)
(* (repo, stage).  Tasks are acknowledged late, so that the broker hands a *)
(* message out again when its worker is lost, or when the worker holds it  *)
(* longer than the visibility timeout.                                     *)
(***************************************************************************)
EXTENDS Naturals, FiniteSets

CONSTANTS
  NumStages,     \* number of stages of the chain
  GraphStage,    \* the stage that writes the knowledge graph
  EmbedStage,    \* the stage that writes code_embeddings
  MaxRetries,    \* max_retries of _stage_task
  MaxPipelines,  \* bound: chains ever started for the repository
  Workers,       \* Celery worker slots
  MaxFaults,     \* bound: faults in one behaviour
  Patient        \* TRUE: the user retries or deletes only when nothing runs

ASSUME NumStagesAssumption    == NumStages \in Nat \ {0}
ASSUME MaxRetriesAssumption   == MaxRetries \in Nat
ASSUME MaxPipelinesAssumption == MaxPipelines \in Nat \ {0}
ASSUME MaxFaultsAssumption    == MaxFaults \in Nat
ASSUME PatientAssumption      == Patient \in BOOLEAN
\* Both come after discovery; a small instance may merge them into one stage.
ASSUME StageKindsAssumption   == {GraphStage, EmbedStage} \subseteq 2..NumStages

VARIABLES
  repo,        \* the row of table repos
  rows,        \* rows of repo_onboarding_states for this repository
  nextId,      \* supply of fresh primary keys
  broker,      \* broker[m]: copies of message m waiting in the queue
  task,        \* task[w]: what worker slot w is doing
  started,     \* chains started so far
  api,         \* where the one API handler in progress stands
  artifacts,   \* what the stages left outside Postgres: checkout, graph
  chunks,      \* repo_id labels found on the code_embeddings rows
  executed,    \* history: executed[c] = stages that ran to their end in chain c
  gaveUp,      \* history: a stage ran out of retries since the last reset
  faults       \* faults so far

vars == <<repo, rows, nextId, broker, task, started, api, artifacts, chunks,
          executed, gaveUp, faults>>

Stages    == 1..NumStages
Pipelines == 1..MaxPipelines
Status    == {"running", "completed", "failed"}
Message   == [chain : Pipelines, stage : Stages, attempt : 0..MaxRetries]
Row       == [id : Nat, stage : Stages, status : Status]

FirstMessage(c) == [chain |-> c, stage |-> 1, attempt |-> 0]
NextMessage(m)  == [chain |-> m.chain, stage |-> m.stage + 1, attempt |-> 0]
RetryMessageAgain(m) == m   \* mutant: the attempt is not counted
RetryMessage(m) == [m EXCEPT !.attempt = @ + 1]

\* A task is saving status "saving"; "seen" is the row its SELECT found (0: none);
\* "held" says whether the broker still waits for its acknowledgement.
Task == [pc     : {"idle", "select", "write", "execute", "publish", "ack"},
         msg    : Message,
         saving : Status,
         seen   : Nat,
         held   : BOOLEAN]

IdleTask == [pc |-> "idle", msg |-> FirstMessage(1), saving |-> "running",
             seen |-> 0, held |-> FALSE]

TypeOK ==
  /\ repo \in {"absent", "registered", "deleted"}
  /\ rows \in SUBSET Row
  /\ nextId \in Nat \ {0}
  /\ broker \in [Message -> Nat]
  /\ task \in [Workers -> Task]
  /\ started \in 0..MaxPipelines
  /\ api \in {"idle", "enqueue", "rmtree", "graph"}
  /\ artifacts \in SUBSET {"checkout", "graph"}
  /\ chunks \in SUBSET {"repo", "null"}
  /\ executed \in [Pipelines -> SUBSET Stages]
  /\ gaveUp \in BOOLEAN
  /\ faults \in 0..MaxFaults

Quiescent ==
  /\ api = "idle"
  /\ \A m \in Message : broker[m] = 0
  /\ \A w \in Workers : task[w].pc = "idle"

Init ==
  /\ repo = "absent"
  /\ rows = {}
  /\ nextId = 1
  /\ broker = [m \in Message |-> 0]
  /\ task = [w \in Workers |-> IdleTask]
  /\ started = 0
  /\ api = "idle"
  /\ artifacts = {}
  /\ chunks = {}
  /\ executed = [c \in Pipelines |-> {}]
  /\ gaveUp = FALSE
  /\ faults = 0

-----------------------------------------------------------------------------
(* API handlers.  One is in progress at a time; the pipeline runs meanwhile. *)

\* add_repo: the row is committed first, the chain is enqueued afterwards.
AddRepo ==
  /\ repo = "absent" /\ api = "idle"
  /\ repo' = "registered"
  /\ api' = "enqueue"
  /\ UNCHANGED <<rows, nextId, broker, task, started, artifacts, chunks,
                 executed, gaveUp, faults>>

\* start_onboarding: a new chain; its first message goes to the broker.
StartOnboarding ==
  /\ api = "enqueue" /\ started < MaxPipelines
  /\ started' = started + 1
  /\ broker' = [broker EXCEPT ![FirstMessage(started + 1)] = @ + 1]
  /\ api' = "idle"
  /\ UNCHANGED <<repo, rows, nextId, task, artifacts, chunks, executed, gaveUp,
                 faults>>

\* Mutant: a retry that keeps the rows of the chain before.
RetryKeepsRows ==
  /\ api = "idle" /\ repo = "registered" /\ started < MaxPipelines
  /\ Patient => Quiescent
  /\ gaveUp' = FALSE
  /\ api' = "enqueue"
  /\ UNCHANGED <<repo, rows, nextId, broker, task, started, artifacts, chunks,
                 executed, faults>>

\* retry_onboarding: drop every status row, then start a chain.  A chain that is
\* still running, or waiting for its retry, is neither looked for nor revoked.
RetryOnboarding ==
  /\ api = "idle" /\ repo = "registered" /\ started < MaxPipelines
  /\ Patient => Quiescent
  /\ rows' = {}
  /\ gaveUp' = FALSE
  /\ api' = "enqueue"
  /\ UNCHANGED <<repo, nextId, broker, task, started, artifacts, chunks,
                 executed, faults>>

\* delete_repo, up to its commit.  Embeddings are selected by repo_id.
DeleteRepo ==
  /\ api = "idle" /\ repo = "registered"
  /\ Patient => Quiescent
  /\ repo' = "deleted"
  /\ rows' = {}
  /\ chunks' = chunks \ {"repo"}
  /\ api' = "rmtree"
  /\ UNCHANGED <<nextId, broker, task, started, artifacts, executed, gaveUp,
                 faults>>

DeleteCheckout ==
  /\ api = "rmtree"
  /\ artifacts' = artifacts \ {"checkout"}
  /\ api' = "graph"
  /\ UNCHANGED <<repo, rows, nextId, broker, task, started, chunks, executed,
                 gaveUp, faults>>

\* Mutant: the graph cleanup is skipped.
DeleteGraphSkipped == api = "graph" /\ api' = "idle" /\ UNCHANGED
  <<repo, rows, nextId, broker, task, started, artifacts, chunks, executed,
    gaveUp, faults>>

DeleteGraph ==
  /\ api = "graph"
  /\ artifacts' = artifacts \ {"graph"}
  /\ api' = "idle"
  /\ UNCHANGED <<repo, rows, nextId, broker, task, started, chunks, executed,
                 gaveUp, faults>>

-----------------------------------------------------------------------------
(* One execution of _stage_task by worker slot w.                           *)

\* Mutant: a message is handed out without being taken off the queue's count.
DeliverPhantom(w) ==
  /\ task[w].pc = "idle"
  /\ \E m \in Message :
       /\ broker' = [broker EXCEPT ![m] = @ - 1]
       /\ task' = [task EXCEPT ![w] = [pc |-> "select", msg |-> m,
                     saving |-> "running", seen |-> 0, held |-> TRUE]]
  /\ UNCHANGED <<repo, rows, nextId, started, api, artifacts, chunks, executed,
                 gaveUp, faults>>

Deliver(w) ==
  /\ task[w].pc = "idle"
  /\ \E m \in Message :
       /\ broker[m] > 0
       /\ broker' = [broker EXCEPT ![m] = @ - 1]
       /\ task' = [task EXCEPT ![w] = [pc |-> "select", msg |-> m,
                     saving |-> "running", seen |-> 0, held |-> TRUE]]
  /\ UNCHANGED <<repo, rows, nextId, started, api, artifacts, chunks, executed,
                 gaveUp, faults>>

\* Where a task goes on after _save_stage_status, whatever came of it.
AfterSave(t) ==
  [t EXCEPT !.pc = IF t.saving = "running" THEN "execute" ELSE "publish",
            !.seen = 0]

StageRows(s) == {r \in rows : r.stage = s}

\* scalar_one_or_none: no row, the one row, or an error that ends the save.
SelectRow(w) ==
  LET t     == task[w]
      found == StageRows(t.msg.stage)
  IN  /\ t.pc = "select"
      /\ \/ /\ found = {}
            /\ task' = [task EXCEPT ![w].pc = "write", ![w].seen = 0]
         \/ \E r \in found :
              /\ found = {r}
              /\ task' = [task EXCEPT ![w].pc = "write", ![w].seen = r.id]
         \/ /\ \E r1, r2 \in found : r1 # r2
            /\ task' = [task EXCEPT ![w] = AfterSave(t)]
      /\ UNCHANGED <<repo, rows, nextId, broker, started, api, artifacts,
                     chunks, executed, gaveUp, faults>>

\* Mutant: no foreign key stops the INSERT of a row of a deleted repository.
WriteRowAnyway(w) ==
  LET t == task[w]
  IN  /\ t.pc = "write"
      /\ \/ /\ t.seen # 0
            /\ rows' = {IF r.id = t.seen THEN [r EXCEPT !.status = t.saving]
                                         ELSE r : r \in rows}
            /\ UNCHANGED nextId
         \/ /\ t.seen = 0
            /\ rows' = rows \cup {[id |-> nextId, stage |-> t.msg.stage,
                                   status |-> t.saving]}
            /\ nextId' = nextId + 1
      /\ task' = [task EXCEPT ![w] = AfterSave(t)]
      /\ UNCHANGED <<repo, broker, started, api, artifacts, chunks, executed,
                     gaveUp, faults>>

\* The commit: UPDATE of the row seen (an error if it is gone), or INSERT (an
\* error if the repository is gone, by the foreign key).
WriteRow(w) ==
  LET t == task[w]
  IN  /\ t.pc = "write"
      /\ \/ /\ t.seen # 0
            /\ rows' = {IF r.id = t.seen THEN [r EXCEPT !.status = t.saving]
                                         ELSE r : r \in rows}
            /\ UNCHANGED nextId
         \/ /\ t.seen = 0 /\ repo = "registered"
            /\ rows' = rows \cup {[id |-> nextId, stage |-> t.msg.stage,
                                   status |-> t.saving]}
            /\ nextId' = nextId + 1
         \/ /\ t.seen = 0 /\ repo # "registered"
            /\ UNCHANGED <<rows, nextId>>
      /\ task' = [task EXCEPT ![w] = AfterSave(t)]
      /\ UNCHANGED <<repo, broker, started, api, artifacts, chunks, executed,
                     gaveUp, faults>>

\* What the stage leaves behind.  Only discovery creates the checkout; the other
\* builders return early when it does not exist.
ProducedBy(s) ==
  CASE s = 1 -> {"checkout"}
    [] s = GraphStage /\ "checkout" \in artifacts -> {"graph"}
    [] OTHER -> {}

\* The INSERT of the embedding stage names every column except repo_id.
ChunkLabel == "null"

ChunksBy(s) ==
  IF s = EmbedStage /\ "checkout" \in artifacts THEN {ChunkLabel} ELSE {}

ExecuteStage(w) ==
  LET t == task[w]
  IN  /\ t.pc = "execute"
      /\ artifacts' = artifacts \cup ProducedBy(t.msg.stage)
      /\ chunks' = chunks \cup ChunksBy(t.msg.stage)
      /\ executed' = [executed EXCEPT ![t.msg.chain] = @ \cup {t.msg.stage}]
      /\ task' = [task EXCEPT ![w].pc = "select", ![w].saving = "completed"]
      /\ UNCHANGED <<repo, rows, nextId, broker, started, api, gaveUp, faults>>

\* Mutants: the exception is swallowed; the "failed" status is not saved.
StageRaisesSilently(w) ==
  /\ task[w].pc = "execute"
  /\ task' = [task EXCEPT ![w].pc = "select", ![w].saving = "completed"]
  /\ UNCHANGED <<repo, rows, nextId, broker, started, api, artifacts, chunks,
                 executed, gaveUp, faults>>

StageRaisesUnsaved(w) ==
  /\ task[w].pc = "execute"
  /\ task' = [task EXCEPT ![w].pc = "publish", ![w].saving = "failed"]
  /\ UNCHANGED <<repo, rows, nextId, broker, started, api, artifacts, chunks,
                 executed, gaveUp, faults>>

\* The stage raises, before or after it left its mark.
StageRaises(w) ==
  LET t == task[w]
  IN  /\ t.pc = "execute"
      /\ artifacts' \in {artifacts, artifacts \cup ProducedBy(t.msg.stage)}
      /\ task' = [task EXCEPT ![w].pc = "select", ![w].saving = "failed"]
      /\ UNCHANGED <<repo, rows, nextId, broker, started, api, chunks, executed,
                     gaveUp, faults>>

\* Return: Celery sends the next message of the chain.
SendNext(w) ==
  LET t == task[w]
  IN  /\ t.pc = "publish" /\ t.saving = "completed"
      /\ IF t.msg.stage < NumStages
         THEN broker' = [broker EXCEPT ![NextMessage(t.msg)] = @ + 1]
         ELSE UNCHANGED broker
      /\ task' = [task EXCEPT ![w].pc = "ack"]
      /\ UNCHANGED <<repo, rows, nextId, started, api, artifacts, chunks,
                     executed, gaveUp, faults>>

\* Mutant: a stage that failed lets the chain go on.
SendRetryGoesOn(w) ==
  LET t == task[w]
  IN  /\ t.pc = "publish" /\ t.saving = "failed"
      /\ IF t.msg.stage < NumStages
         THEN broker' = [broker EXCEPT ![NextMessage(t.msg)] = @ + 1]
         ELSE UNCHANGED broker
      /\ task' = [task EXCEPT ![w].pc = "ack"]
      /\ UNCHANGED <<repo, rows, nextId, started, api, artifacts, chunks,
                     executed, gaveUp, faults>>

\* raise self.retry: the same message with one more attempt, or the chain ends.
SendRetry(w) ==
  LET t == task[w]
  IN  /\ t.pc = "publish" /\ t.saving = "failed"
      /\ IF t.msg.attempt < MaxRetries
         THEN /\ broker' = [broker EXCEPT ![RetryMessage(t.msg)] = @ + 1]
              /\ UNCHANGED gaveUp
         ELSE /\ gaveUp' = TRUE
              /\ UNCHANGED broker
      /\ task' = [task EXCEPT ![w].pc = "ack"]
      /\ UNCHANGED <<repo, rows, nextId, started, api, artifacts, chunks,
                     executed, faults>>

Ack(w) ==
  /\ task[w].pc = "ack"
  /\ task' = [task EXCEPT ![w] = IdleTask]
  /\ UNCHANGED <<repo, rows, nextId, broker, started, api, artifacts, chunks,
                 executed, gaveUp, faults>>

-----------------------------------------------------------------------------
(* Faults.                                                                  *)

Fault == faults < MaxFaults /\ faults' = faults + 1

\* The worker process goes away; the broker restores what it had not acknowledged.
WorkerLost(w) ==
  /\ Fault
  /\ task[w].pc # "idle"
  /\ IF task[w].held
     THEN broker' = [broker EXCEPT ![task[w].msg] = @ + 1]
     ELSE UNCHANGED broker
  /\ task' = [task EXCEPT ![w] = IdleTask]
  /\ UNCHANGED <<repo, rows, nextId, started, api, artifacts, chunks, executed,
                 gaveUp>>

\* The pool child is killed; its parent acknowledges for it, and the chain is lost.
ChildKilled(w) ==
  /\ Fault
  /\ task[w].pc # "idle"
  /\ task' = [task EXCEPT ![w] = IdleTask]
  /\ UNCHANGED <<repo, rows, nextId, broker, started, api, artifacts, chunks,
                 executed, gaveUp>>

\* The stage outlasts the visibility timeout: a second copy of a running task.
VisibilityTimeout(w) ==
  /\ Fault
  /\ task[w].pc # "idle" /\ task[w].held
  /\ broker' = [broker EXCEPT ![task[w].msg] = @ + 1]
  /\ task' = [task EXCEPT ![w].held = FALSE]
  /\ UNCHANGED <<repo, rows, nextId, started, api, artifacts, chunks, executed,
                 gaveUp>>

\* Postgres fails during a save: logged, swallowed, the stage goes on.
SaveLost(w) ==
  /\ Fault
  /\ task[w].pc \in {"select", "write"}
  /\ task' = [task EXCEPT ![w] = AfterSave(task[w])]
  /\ UNCHANGED <<repo, rows, nextId, broker, started, api, artifacts, chunks,
                 executed, gaveUp>>

\* The broker refuses the chain, after the commit that it should follow.
EnqueueFails ==
  /\ Fault
  /\ api = "enqueue"
  /\ api' = "idle"
  /\ UNCHANGED <<repo, rows, nextId, broker, task, started, artifacts, chunks,
                 executed, gaveUp>>

\* A best-effort cleanup of delete_repo fails: logged, and the handler goes on.
CleanupFails ==
  /\ Fault
  /\ api \in {"rmtree", "graph"}
  /\ api' = IF api = "rmtree" THEN "graph" ELSE "idle"
  /\ UNCHANGED <<repo, rows, nextId, broker, task, started, artifacts, chunks,
                 executed, gaveUp>>

-----------------------------------------------------------------------------
WorkerStep(w) ==
  \/ Deliver(w) \/ SelectRow(w) \/ WriteRow(w)
  \/ ExecuteStage(w) \/ StageRaises(w)
  \/ SendNext(w) \/ SendRetry(w) \/ Ack(w)

HandlerStep == StartOnboarding \/ DeleteCheckout \/ DeleteGraph

UserStep == AddRepo \/ RetryOnboarding \/ DeleteRepo

FaultStep ==
  \/ EnqueueFails \/ CleanupFails
  \/ \E w \in Workers :
       WorkerLost(w) \/ ChildKilled(w) \/ VisibilityTimeout(w) \/ SaveLost(w)

Next ==
  \/ UserStep
  \/ HandlerStep
  \/ \E w \in Workers : WorkerStep(w)
  \/ FaultStep

\* Worker slots and handlers in progress keep going; users and faults need not.
Fairness ==
  /\ WF_vars(HandlerStep)
  /\ \A w \in Workers : WF_vars(WorkerStep(w))

Spec == Init /\ [][Next]_vars

FairSpec == Spec /\ Fairness

-----------------------------------------------------------------------------
(* What the API reports.                                                    *)

RowCount(st) == Cardinality({r \in rows : r.status = st})

\* onboarding_summary counts the rows there are, created as stages begin.
SummaryReady ==
  /\ repo = "registered"
  /\ Cardinality(rows) > 0
  /\ RowCount("completed") = Cardinality(rows)

SummaryOnboarding ==
  /\ repo = "registered"
  /\ ~SummaryReady
  /\ RowCount("failed") = 0

-----------------------------------------------------------------------------
(* Safety, for any user and any faults.                                     *)

\* A status row says "completed" only if some chain really ran that stage to its
\* end: neither a stale SELECT, nor a redelivered task, nor a lost worker can
\* make _save_stage_status claim work that nobody did.
CompletedWasExecuted ==
  \A r \in rows : r.status = "completed" =>
    \E c \in Pipelines : r.stage \in executed[c]

\* A chain reaches a stage, in the queue or in a worker, only after it ran every
\* earlier stage to its end, whatever was redelivered, retried or lost.
StageAfterPredecessors ==
  LET Prepared(m) == 1..(m.stage - 1) \subseteq executed[m.chain]
  IN  /\ \A m \in Message : broker[m] > 0 => Prepared(m)
      /\ \A w \in Workers : task[w].pc # "idle" => Prepared(task[w].msg)

\* Once delete_repo has committed no status row of the repository is left, and no
\* save still under way in a worker brings one back.
DeletedHasNoRows == repo # "registered" => rows = {}

\* Retries are bounded and so is every chain: the queue drains and all workers
\* and handlers come to rest, whatever fails.
EventuallyQuiescent == <>[]Quiescent

-----------------------------------------------------------------------------
(* What holds for a patient user, without faults.                           *)

\* At rest, the screen tells the outcome of the last chain: every stage completed,
\* or a first part completed and the stage after it failed; and there is one row per
\* stage, although the table does not enforce it and a save looks before it inserts.
VerdictAtRest ==
  Quiescent /\ repo = "registered" =>
    \E n \in Stages :
      /\ {r.stage : r \in rows} = 1..n /\ Cardinality(rows) = n
      /\ \A r \in rows : r.status = IF r.stage < n \/ ~gaveUp THEN "completed"
                                                            ELSE "failed"
      /\ ~gaveUp => n = NumStages

\* A repository whose pipeline gave up on a stage is not reported as onboarding
\* once everything has come to rest (docstring of onboarding_summary).
GivenUpIsNotOnboarding == Quiescent /\ gaveUp => ~SummaryOnboarding

\* After delete_repo has finished and everything has come to rest, the checkout
\* and the knowledge-graph nodes of the repository are gone.  A chain that ran on
\* through the deletion of an impatient user breaks this.  Not among what is gone,
\* although the docstring of delete_repo lists them, are the embeddings: chunks
\* carry no repo_id to be selected by (ChunksBy).
CheckoutAndGraphGone == Quiescent /\ repo = "deleted" => artifacts = {}

\* The banner of the dashboard comes down and stays down.
EventuallySettled == <>[](~SummaryOnboarding)

\* The pipeline implements the board of module StageBoard.
BoardOf ==
  [s \in Stages |-> IF StageRows(s) = {} THEN "none"
                    ELSE (CHOOSE r \in StageRows(s) : TRUE).status]

Board == INSTANCE StageBoard WITH board <- BoardOf

\* The stages of the screen change as module StageBoard says, one at a time, in
\* order, and a stage that shows "running" does not stay so.
ImplementsBoard == Board!BoardSpec

=============================================================================
