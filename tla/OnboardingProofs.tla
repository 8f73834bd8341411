-------------------------- MODULE OnboardingProofs --------------------------
(***************************************************************************)
(* The safety properties of module Onboarding, for every number of stages, *)
(* retries, chains, worker slots and faults, and for any user; then, for a *)
(* user who waits until the pipeline is at rest and a system without       *)
(* faults (Undisturbed), what the screen shows: the pipeline implements    *)
(* module StageBoard, and rests with the verdict of its last chain.        *)
(***************************************************************************)
EXTENDS Onboarding, FiniteSetTheorems, TLAPS

\* A task saves "completed" only after its stage ran to the end.
SavingWasExecuted ==
  \A w \in Workers : task[w].pc # "idle" /\ task[w].saving = "completed" =>
    task[w].msg.stage \in executed[task[w].msg.chain]

\* Primary keys are fresh, so an UPDATE by key changes one row.
RowIdsUnique ==
  /\ \A r1, r2 \in rows : r1.id = r2.id => r1 = r2
  /\ \A r \in rows : r.id < nextId

\* The row found by a SELECT may be gone at the commit, but if it is there it is
\* still the row of the task's stage.
SeenIsOfStage ==
  \A w \in Workers : task[w].pc = "write" /\ task[w].seen # 0 =>
    /\ task[w].seen < nextId
    /\ \A r \in rows : r.id = task[w].seen => r.stage = task[w].msg.stage

\* The inductive invariant: a chain's past is enough for what it does next.
IInv ==
  /\ TypeOK
  /\ SavingWasExecuted
  /\ SeenIsOfStage
  /\ StageAfterPredecessors
  /\ CompletedWasExecuted
  /\ DeletedHasNoRows
  /\ RowIdsUnique

\* The worker steps, and what they change of a task, in one place.
LEMMA IdleTaskType == IdleTask \in Task
  BY NumStagesAssumption, MaxRetriesAssumption, MaxPipelinesAssumption
     DEF IdleTask, Task, FirstMessage, Message, Pipelines, Stages, Status

LEMMA FirstMessageType ==
  ASSUME NEW c \in Pipelines
  PROVE  FirstMessage(c) \in Message
  BY NumStagesAssumption, MaxRetriesAssumption
     DEF FirstMessage, Message, Stages

LEMMA NextMessageType ==
  ASSUME NEW m \in Message, m.stage < NumStages
  PROVE  NextMessage(m) \in Message
  BY NumStagesAssumption, MaxRetriesAssumption DEF NextMessage, Message, Stages

LEMMA RetryMessageType ==
  ASSUME NEW m \in Message, m.attempt < MaxRetries
  PROVE  RetryMessage(m) \in Message
  BY MaxRetriesAssumption DEF RetryMessage, Message

\* Going on after a save changes neither the message nor the status being saved.
LEMMA AfterSaveFacts ==
  ASSUME NEW t \in Task
  PROVE  /\ AfterSave(t) \in Task
         /\ AfterSave(t).msg = t.msg
         /\ AfterSave(t).saving = t.saving
         /\ AfterSave(t).pc \in {"execute", "publish"}
  BY DEF AfterSave, Task

LEMMA InitInv == Init => IInv
<1> SUFFICES ASSUME Init PROVE IInv
  OBVIOUS
<1>1. TypeOK
  <2>1. gaveUp \in BOOLEAN
    BY DEF Init
  <2>2. task \in [Workers -> Task] /\ broker \in [Message -> Nat]
    BY IdleTaskType DEF Init
  <2>3. started \in 0..MaxPipelines /\ faults \in 0..MaxFaults
    BY MaxPipelinesAssumption, MaxFaultsAssumption DEF Init
  <2> QED
    BY <2>1, <2>2, <2>3 DEF Init, TypeOK
<1>2. SavingWasExecuted
  BY DEF Init, SavingWasExecuted, IdleTask
<1>3. StageAfterPredecessors
  BY DEF Init, StageAfterPredecessors, IdleTask, Message
<1>4. CompletedWasExecuted /\ DeletedHasNoRows /\ RowIdsUnique /\ SeenIsOfStage
  BY DEF Init, CompletedWasExecuted, DeletedHasNoRows, RowIdsUnique,
         SeenIsOfStage, IdleTask
<1> QED
  BY <1>1, <1>2, <1>3, <1>4 DEF IInv

-----------------------------------------------------------------------------
(* Type correctness, action by action.                                      *)

LEMMA UserType == TypeOK /\ UserStep => TypeOK'
  BY DEF TypeOK, UserStep, AddRepo, RetryOnboarding, DeleteRepo

LEMMA HandlerType == TypeOK /\ HandlerStep => TypeOK'
<1> SUFFICES ASSUME TypeOK, HandlerStep PROVE TypeOK'
  OBVIOUS
<1>1. CASE StartOnboarding
  <2>1. started + 1 \in Pipelines
    BY <1>1, MaxPipelinesAssumption DEF StartOnboarding, TypeOK, Pipelines
  <2> QED
    BY <1>1, <2>1, FirstMessageType, MaxPipelinesAssumption
       DEF StartOnboarding, TypeOK, Pipelines
<1>2. CASE DeleteCheckout
  BY <1>2 DEF DeleteCheckout, TypeOK
<1>3. CASE DeleteGraph
  BY <1>3 DEF DeleteGraph, TypeOK
<1> QED
  BY <1>1, <1>2, <1>3 DEF HandlerStep

LEMMA WorkerType ==
  ASSUME TypeOK, NEW w \in Workers, WorkerStep(w)
  PROVE  TypeOK'
<1> DEFINE t == task[w]
<1>t. t \in Task
  BY DEF TypeOK
<1>1. CASE Deliver(w)
  BY <1>1 DEF Deliver, TypeOK, Task, Status
<1>2. CASE SelectRow(w)
  <2>1. \A r \in rows : r.id \in Nat
    BY DEF TypeOK, Row
  <2>2. task' \in [Workers -> Task]
    BY <1>2, <1>t, <2>1, AfterSaveFacts DEF SelectRow, TypeOK, Task, StageRows
  <2> QED
    BY <1>2, <2>2 DEF SelectRow, TypeOK
<1>3. CASE WriteRow(w)
  <2>1. t.saving \in Status /\ t.msg.stage \in Stages
    BY <1>t DEF Task, Message
  <2>2. rows' \in SUBSET Row /\ nextId' \in Nat \ {0}
    BY <1>3, <2>1 DEF WriteRow, TypeOK, Row
  <2>3. task' \in [Workers -> Task]
    BY <1>3, <1>t, AfterSaveFacts DEF WriteRow, TypeOK
  <2> QED
    BY <1>3, <2>2, <2>3 DEF WriteRow, TypeOK
<1>4. CASE ExecuteStage(w)
  <2>1. ProducedBy(t.msg.stage) \in SUBSET {"checkout", "graph"}
    BY DEF ProducedBy
  <2>2. ChunksBy(t.msg.stage) \in SUBSET {"repo", "null"}
    BY DEF ChunksBy, ChunkLabel
  <2>3. t.msg.chain \in Pipelines /\ t.msg.stage \in Stages
    BY <1>t DEF Task, Message
  <2>4. task' \in [Workers -> Task]
    BY <1>4, <1>t DEF ExecuteStage, TypeOK, Task, Status
  <2> QED
    BY <1>4, <2>1, <2>2, <2>3, <2>4 DEF ExecuteStage, TypeOK
<1>5. CASE StageRaises(w)
  <2>1. ProducedBy(t.msg.stage) \in SUBSET {"checkout", "graph"}
    BY DEF ProducedBy
  <2>2. task' \in [Workers -> Task]
    BY <1>5, <1>t DEF StageRaises, TypeOK, Task, Status
  <2> QED
    BY <1>5, <2>1, <2>2 DEF StageRaises, TypeOK
<1>6. CASE SendNext(w)
  <2>1. task' \in [Workers -> Task]
    BY <1>6, <1>t DEF SendNext, TypeOK, Task
  <2>2. t.msg.stage < NumStages => NextMessage(t.msg) \in Message
    BY <1>t, NextMessageType DEF Task
  <2>3. broker' \in [Message -> Nat]
    BY <1>6, <2>2 DEF SendNext, TypeOK
  <2> QED
    BY <1>6, <2>1, <2>3 DEF SendNext, TypeOK
<1>7. CASE SendRetry(w)
  <2>1. task' \in [Workers -> Task]
    BY <1>7, <1>t DEF SendRetry, TypeOK, Task
  <2>2. t.msg.attempt < MaxRetries => RetryMessage(t.msg) \in Message
    BY <1>t, RetryMessageType DEF Task
  <2>3. broker' \in [Message -> Nat]
    BY <1>7, <2>2 DEF SendRetry, TypeOK
  <2>4. gaveUp' \in BOOLEAN
    BY <1>7 DEF SendRetry, TypeOK
  <2> QED
    BY <1>7, <2>1, <2>3, <2>4 DEF SendRetry, TypeOK
<1>8. CASE Ack(w)
  BY <1>8, IdleTaskType DEF Ack, TypeOK
<1> QED
  BY <1>1, <1>2, <1>3, <1>4, <1>5, <1>6, <1>7, <1>8 DEF WorkerStep

LEMMA FaultType == TypeOK /\ FaultStep => TypeOK'
<1> SUFFICES ASSUME TypeOK, FaultStep PROVE TypeOK'
  OBVIOUS
<1>0. Fault => faults' \in 0..MaxFaults
  BY MaxFaultsAssumption DEF TypeOK, Fault
<1>1. CASE EnqueueFails
  BY <1>0, <1>1 DEF EnqueueFails, TypeOK
<1>2. CASE CleanupFails
  BY <1>0, <1>2 DEF CleanupFails, TypeOK
<1>3. ASSUME NEW w \in Workers, WorkerLost(w) PROVE TypeOK'
  <2>1. task[w].msg \in Message
    BY DEF TypeOK, Task
  <2> QED
    BY <1>0, <1>3, <2>1, IdleTaskType DEF WorkerLost, TypeOK
<1>4. ASSUME NEW w \in Workers, ChildKilled(w) PROVE TypeOK'
  BY <1>0, <1>4, IdleTaskType DEF ChildKilled, TypeOK
<1>5. ASSUME NEW w \in Workers, VisibilityTimeout(w) PROVE TypeOK'
  <2>1. task[w].msg \in Message
    BY DEF TypeOK, Task
  <2>2. task' \in [Workers -> Task]
    BY <1>5 DEF VisibilityTimeout, TypeOK, Task
  <2> QED
    BY <1>0, <1>5, <2>1, <2>2 DEF VisibilityTimeout, TypeOK
<1>6. ASSUME NEW w \in Workers, SaveLost(w) PROVE TypeOK'
  <2>1. task[w] \in Task
    BY DEF TypeOK
  <2> QED
    BY <1>0, <1>6, <2>1, AfterSaveFacts DEF SaveLost, TypeOK
<1> QED
  BY <1>1, <1>2, <1>3, <1>4, <1>5, <1>6 DEF FaultStep

LEMMA NextType == TypeOK /\ [Next]_vars => TypeOK'
<1> SUFFICES ASSUME TypeOK, [Next]_vars PROVE TypeOK'
  OBVIOUS
<1>1. CASE UNCHANGED vars
  BY <1>1 DEF vars, TypeOK
<1>2. CASE Next
  BY <1>2, UserType, HandlerType, WorkerType, FaultType DEF Next
<1> QED
  BY <1>1, <1>2

\* Type correctness: the variables of the pipeline, its workers and its handlers
\* keep their types in every reachable state.
THEOREM TypeCorrect == Spec => []TypeOK
<1>1. Init => TypeOK
  BY InitInv DEF IInv
<1> QED
  BY <1>1, NextType, PTL DEF Spec

-----------------------------------------------------------------------------
(* The parts of the invariant, each with the steps that can disturb it.     *)

\* The tasks of the other worker slots do not change, and the history only grows.
LEMMA WorkerFrame ==
  ASSUME TypeOK, NEW w \in Workers, WorkerStep(w)
  PROVE  /\ \A v \in Workers \ {w} : task'[v] = task[v]
         /\ \A c \in Pipelines : executed[c] \subseteq executed'[c]
  BY DEF WorkerStep, Deliver, SelectRow, WriteRow, ExecuteStage, StageRaises,
         SendNext, SendRetry, Ack, TypeOK

LEMMA WorkerSaving ==
  ASSUME TypeOK, SavingWasExecuted, NEW w \in Workers, WorkerStep(w)
  PROVE  SavingWasExecuted'
<1> DEFINE t == task[w]
<1>t. t \in Task
  BY DEF TypeOK
<1>1. ASSUME NEW v \in Workers \ {w}, task'[v].pc # "idle",
             task'[v].saving = "completed"
      PROVE  task'[v].msg.stage \in executed'[task'[v].msg.chain]
  <2>1. task'[v] = task[v] /\ task[v].msg.chain \in Pipelines
    BY WorkerFrame DEF TypeOK, Task, Message
  <2> QED
    BY <1>1, <2>1, WorkerFrame DEF SavingWasExecuted
<1>2. ASSUME task'[w].pc # "idle", task'[w].saving = "completed"
      PROVE  task'[w].msg.stage \in executed'[task'[w].msg.chain]
  <2>1. CASE ExecuteStage(w)
    <3>1. task'[w].msg = t.msg
      BY <2>1, <1>t DEF ExecuteStage, TypeOK, Task
    <3>2. t.msg.chain \in Pipelines
      BY <1>t DEF Task, Message
    <3> QED
      BY <2>1, <3>1, <3>2 DEF ExecuteStage, TypeOK
  <2>2. CASE Deliver(w) \/ Ack(w) \/ StageRaises(w)
    BY <2>2, <1>2, <1>t DEF Deliver, Ack, StageRaises, IdleTask, TypeOK, Task
  <2>3. CASE SelectRow(w) \/ WriteRow(w) \/ SendNext(w) \/ SendRetry(w)
    <3>1. t.pc # "idle" /\ executed' = executed
      BY <2>3 DEF SelectRow, WriteRow, SendNext, SendRetry
    <3>2. task'[w].saving = t.saving /\ task'[w].msg = t.msg
      BY <2>3, <1>t, AfterSaveFacts
         DEF SelectRow, WriteRow, SendNext, SendRetry, TypeOK, Task
    <3> QED
      BY <1>2, <3>1, <3>2 DEF SavingWasExecuted
  <2> QED
    BY <2>1, <2>2, <2>3 DEF WorkerStep
<1> QED
  BY <1>1, <1>2 DEF SavingWasExecuted

LEMMA FaultSaving ==
  TypeOK /\ SavingWasExecuted /\ FaultStep => SavingWasExecuted'
<1> SUFFICES ASSUME TypeOK, SavingWasExecuted, FaultStep
             PROVE  SavingWasExecuted'
  OBVIOUS
<1>1. CASE EnqueueFails \/ CleanupFails
  BY <1>1 DEF EnqueueFails, CleanupFails, SavingWasExecuted
<1>2. ASSUME NEW w \in Workers, WorkerLost(w) \/ ChildKilled(w)
      PROVE  SavingWasExecuted'
  BY <1>2 DEF WorkerLost, ChildKilled, SavingWasExecuted, TypeOK, IdleTask
<1>3. ASSUME NEW w \in Workers, VisibilityTimeout(w) \/ SaveLost(w)
      PROVE  SavingWasExecuted'
  <2>1. task[w] \in Task
    BY DEF TypeOK
  <2>2. /\ task[w].pc # "idle" /\ executed' = executed
        /\ \A v \in Workers \ {w} : task'[v] = task[v]
        /\ task'[w].saving = task[w].saving
        /\ task'[w].msg = task[w].msg
    BY <1>3, <2>1, AfterSaveFacts
       DEF VisibilityTimeout, SaveLost, TypeOK, Task
  <2> QED
    BY <2>2 DEF SavingWasExecuted
<1> QED
  BY <1>1, <1>2, <1>3 DEF FaultStep

LEMMA WorkerOrder ==
  ASSUME TypeOK, SavingWasExecuted, StageAfterPredecessors,
         NEW w \in Workers, WorkerStep(w)
  PROVE  StageAfterPredecessors'
<1> DEFINE t == task[w]
           Before(m) == 1..(m.stage - 1) \subseteq executed[m.chain]
           After(m)  == 1..(m.stage - 1) \subseteq executed'[m.chain]
<1>t. t \in Task /\ t.msg \in Message
  BY DEF TypeOK, Task
<1>m. \A m \in Message : Before(m) => After(m)
  BY WorkerFrame DEF Message
<1>b. ASSUME t.pc # "idle" PROVE Before(t.msg)
  BY <1>b DEF StageAfterPredecessors
<1>1. ASSUME NEW m \in Message, broker'[m] > 0 PROVE After(m)
  <2>1. CASE Deliver(w)
    BY <1>1, <1>m, <2>1 DEF Deliver, StageAfterPredecessors, TypeOK
  <2>2. CASE UNCHANGED broker
    BY <1>1, <1>m, <2>2 DEF StageAfterPredecessors
  <2>3. CASE SendNext(w) /\ t.msg.stage < NumStages
    <3>1. NextMessage(t.msg) \in Message
      BY <1>t, <2>3, NextMessageType
    <3>2. CASE m = NextMessage(t.msg)
      <4>1. t.msg.stage \in executed[t.msg.chain] /\ Before(t.msg)
        BY <2>3, <1>b DEF SendNext, SavingWasExecuted
      <4>2. t.msg.stage \in Nat \ {0} /\ m.chain = t.msg.chain
            /\ m.stage = t.msg.stage + 1
        BY <3>2, <1>t DEF NextMessage, Message, Stages
      <4>3. Before(m)
        BY <4>1, <4>2
      <4> QED
        BY <4>3, <1>m
    <3>3. CASE m # NextMessage(t.msg)
      <4>1. broker'[m] = broker[m]
        BY <2>3, <3>1, <3>3 DEF SendNext, TypeOK
      <4> QED
        BY <4>1, <1>1, <1>m DEF StageAfterPredecessors
    <3> QED
      BY <3>2, <3>3
  <2>4. CASE SendRetry(w) /\ t.msg.attempt < MaxRetries
    <3>1. RetryMessage(t.msg) \in Message
      BY <1>t, <2>4, RetryMessageType
    <3>2. CASE m = RetryMessage(t.msg)
      <4>1. m.chain = t.msg.chain /\ m.stage = t.msg.stage
        BY <3>2, <1>t DEF RetryMessage, Message
      <4>2. Before(t.msg)
        BY <2>4, <1>b DEF SendRetry
      <4> QED
        BY <4>1, <4>2, <1>m
    <3>3. CASE m # RetryMessage(t.msg)
      <4>1. broker'[m] = broker[m]
        BY <2>4, <3>1, <3>3 DEF SendRetry, TypeOK
      <4> QED
        BY <4>1, <1>1, <1>m DEF StageAfterPredecessors
    <3> QED
      BY <3>2, <3>3
  <2> QED
    BY <2>1, <2>2, <2>3, <2>4
       DEF WorkerStep, SelectRow, WriteRow, ExecuteStage, StageRaises, SendNext,
           SendRetry, Ack
<1>2. ASSUME NEW v \in Workers, task'[v].pc # "idle" PROVE After(task'[v].msg)
  <2>1. CASE v # w
    <3>1. task'[v] = task[v] /\ task[v].msg \in Message
      BY <2>1, WorkerFrame DEF TypeOK, Task
    <3> QED
      BY <1>2, <3>1, <1>m DEF StageAfterPredecessors
  <2>2. CASE v = w /\ Deliver(w)
    <3>1. PICK m \in Message : broker[m] > 0 /\ task'[w].msg = m
      BY <2>2 DEF Deliver, TypeOK
    <3> QED
      BY <2>2, <3>1, <1>m DEF StageAfterPredecessors
  <2>3. CASE v = w /\ Ack(w)
    BY <1>2, <2>3 DEF Ack, IdleTask, TypeOK
  <2>4. CASE v = w /\ ~Deliver(w) /\ ~Ack(w)
    <3>1. t.pc # "idle"
      BY <2>4 DEF WorkerStep, SelectRow, WriteRow, ExecuteStage, StageRaises,
                  SendNext, SendRetry
    <3>2. task'[w].msg = t.msg
      BY <2>4, <1>t, AfterSaveFacts
         DEF WorkerStep, SelectRow, WriteRow, ExecuteStage, StageRaises,
             SendNext, SendRetry, TypeOK, Task
    <3> QED
      BY <2>4, <3>1, <3>2, <1>t, <1>b, <1>m
  <2> QED
    BY <2>1, <2>2, <2>3, <2>4
<1> QED
  BY <1>1, <1>2 DEF StageAfterPredecessors

LEMMA FaultOrder ==
  TypeOK /\ StageAfterPredecessors /\ FaultStep => StageAfterPredecessors'
<1> SUFFICES ASSUME TypeOK, StageAfterPredecessors, FaultStep
             PROVE  StageAfterPredecessors'
  OBVIOUS
<1>1. CASE EnqueueFails \/ CleanupFails
  BY <1>1 DEF EnqueueFails, CleanupFails, StageAfterPredecessors
<1>2. ASSUME NEW w \in Workers, WorkerLost(w) \/ ChildKilled(w)
                               \/ VisibilityTimeout(w) \/ SaveLost(w)
      PROVE  StageAfterPredecessors'
  <2>1. task[w] \in Task /\ task[w].msg \in Message /\ task[w].pc # "idle"
    BY <1>2 DEF TypeOK, Task, WorkerLost, ChildKilled, VisibilityTimeout, SaveLost
  <2>2. /\ executed' = executed
        /\ \A m \in Message : broker'[m] > 0 => broker[m] > 0 \/ m = task[w].msg
    BY <1>2, <2>1
       DEF TypeOK, WorkerLost, ChildKilled, VisibilityTimeout, SaveLost
  <2>3. \A v \in Workers : task'[v].pc # "idle" =>
           task[v].pc # "idle" /\ task'[v].msg = task[v].msg
    BY <1>2, <2>1, AfterSaveFacts
       DEF TypeOK, WorkerLost, ChildKilled, VisibilityTimeout, SaveLost, Task,
           IdleTask
  <2> QED
    BY <2>1, <2>2, <2>3 DEF StageAfterPredecessors
<1> QED
  BY <1>1, <1>2 DEF FaultStep

\* The status rows: a save changes the status of rows it finds by key, or inserts
\* one with a fresh key, and claims "completed" only for a stage that ran.
LEMMA WorkerRows ==
  ASSUME IInv, NEW w \in Workers, WorkerStep(w)
  PROVE  CompletedWasExecuted' /\ DeletedHasNoRows' /\ RowIdsUnique'
<1> DEFINE t == task[w]
<1>t. t \in Task /\ t.msg.chain \in Pipelines /\ t.msg.stage \in Stages
  BY DEF IInv, TypeOK, Task, Message
<1>f. TypeOK /\ \A c \in Pipelines : executed[c] \subseteq executed'[c]
  BY WorkerFrame DEF IInv
<1>1. CASE ~WriteRow(w)
  <2>1. rows' = rows /\ repo' = repo /\ nextId' = nextId
    BY <1>1 DEF WorkerStep, Deliver, SelectRow, ExecuteStage, StageRaises,
                SendNext, SendRetry, Ack
  <2>2. CompletedWasExecuted'
    BY <2>1, <1>f DEF IInv, CompletedWasExecuted
  <2> QED
    BY <2>1, <2>2 DEF IInv, DeletedHasNoRows, RowIdsUnique
<1>2. CASE WriteRow(w) /\ t.seen # 0
  <2> DEFINE Saved(r) == IF r.id = t.seen THEN [r EXCEPT !.status = t.saving] ELSE r
  <2>1. /\ rows' = {Saved(r) : r \in rows}
        /\ repo' = repo /\ nextId' = nextId /\ executed' = executed
        /\ t.pc = "write"
    BY <1>2 DEF WriteRow
  <2>2. \A r \in rows : Saved(r).id = r.id /\ Saved(r).stage = r.stage
                       /\ (Saved(r).status = r.status \/ Saved(r).status = t.saving)
    BY <1>f DEF TypeOK, Row
  <2>3. DeletedHasNoRows'
    BY <2>1 DEF IInv, DeletedHasNoRows
  <2>4. RowIdsUnique'
    <3>1. \A q \in rows' : q.id < nextId'
      BY <2>1, <2>2 DEF IInv, RowIdsUnique
    <3>2. ASSUME NEW q1 \in rows', NEW q2 \in rows', q1.id = q2.id PROVE q1 = q2
      <4>1. PICK r1 \in rows : q1 = Saved(r1)
        BY <2>1
      <4>2. PICK r2 \in rows : q2 = Saved(r2)
        BY <2>1
      <4>3. r1.id = r2.id
        BY <4>1, <4>2, <3>2, <2>2
      <4> HIDE DEF Saved
      <4> QED
        BY <4>1, <4>2, <4>3 DEF IInv, RowIdsUnique
    <3> QED
      BY <3>1, <3>2 DEF RowIdsUnique
  <2>5. CompletedWasExecuted'
    <3> SUFFICES ASSUME NEW q \in rows', q.status = "completed"
                 PROVE  \E c \in Pipelines : q.stage \in executed[c]
      BY <2>1 DEF CompletedWasExecuted
    <3>1. PICK r \in rows : q = Saved(r)
      BY <2>1
    <3>2. CASE r.status = "completed"
      BY <3>1, <3>2, <2>2 DEF IInv, CompletedWasExecuted
    <3>3. CASE r.status # "completed"
      <4>1. r.id = t.seen /\ t.saving = "completed"
        BY <3>1, <3>3, <1>f DEF TypeOK, Row
      <4>2. t.msg.stage \in executed[t.msg.chain]
        BY <4>1, <2>1 DEF IInv, SavingWasExecuted
      <4>3. r.stage = t.msg.stage
        BY <4>1, <2>1, <1>2 DEF IInv, SeenIsOfStage
      <4> QED
        BY <4>2, <4>3, <3>1, <2>2, <1>t
    <3> QED
      BY <3>2, <3>3
  <2> QED
    BY <2>3, <2>4, <2>5
<1>3. CASE WriteRow(w) /\ t.seen = 0 /\ repo = "registered"
  <2> DEFINE new == [id |-> nextId, stage |-> t.msg.stage, status |-> t.saving]
  <2>1. /\ rows' = rows \cup {new}
        /\ repo' = repo /\ nextId' = nextId + 1 /\ executed' = executed
        /\ t.pc = "write"
    BY <1>3 DEF WriteRow
  <2>2. DeletedHasNoRows'
    BY <1>3, <2>1 DEF DeletedHasNoRows
  <2>3. RowIdsUnique'
    BY <2>1, <1>f DEF IInv, RowIdsUnique, TypeOK, Row
  <2>4. CompletedWasExecuted'
    <3>1. t.saving = "completed" => t.msg.stage \in executed[t.msg.chain]
      BY <2>1 DEF IInv, SavingWasExecuted
    <3> QED
      BY <2>1, <3>1, <1>t DEF IInv, CompletedWasExecuted
  <2> QED
    BY <2>2, <2>3, <2>4
<1>4. CASE WriteRow(w) /\ t.seen = 0 /\ repo # "registered"
  <2>1. rows' = rows /\ repo' = repo /\ nextId' = nextId /\ executed' = executed
    BY <1>4 DEF WriteRow
  <2> QED
    BY <2>1 DEF IInv, CompletedWasExecuted, DeletedHasNoRows, RowIdsUnique
<1> QED
  BY <1>1, <1>2, <1>3, <1>4

LEMMA WorkerSeen ==
  ASSUME IInv, NEW w \in Workers, WorkerStep(w)
  PROVE  SeenIsOfStage'
<1> SUFFICES ASSUME NEW v \in Workers, task'[v].pc = "write", task'[v].seen # 0
             PROVE  /\ task'[v].seen < nextId'
                    /\ \A r \in rows' : r.id = task'[v].seen =>
                                         r.stage = task'[v].msg.stage
  BY DEF SeenIsOfStage
<1>f. TypeOK /\ task[w] \in Task /\ nextId \in Nat
  BY DEF IInv, TypeOK
<1>1. CASE SelectRow(w) /\ v = w
  <2>0. task' # [task EXCEPT ![w] = AfterSave(task[w])]
    BY <1>1, <1>f, AfterSaveFacts DEF TypeOK
  <2>1. PICK r \in rows : /\ r.stage = task[w].msg.stage
                          /\ task'[w].seen = r.id /\ task'[w].msg = task[w].msg
    BY <1>1, <1>f, <2>0 DEF SelectRow, StageRows, TypeOK, Task
  <2>2. rows' = rows /\ nextId' = nextId
    BY <1>1 DEF SelectRow
  <2> QED
    BY <1>1, <2>1, <2>2 DEF IInv, RowIdsUnique
<1>2. CASE ~(SelectRow(w) /\ v = w)
  <2>1. task'[v] = task[v]
    <3>1. CASE v # w
      BY <3>1, <1>f, WorkerFrame
    <3>2. CASE v = w
      <4>1. WriteRow(w) => task'[w].pc # "write"
        BY <1>f, AfterSaveFacts DEF WriteRow, TypeOK
      <4>2. ExecuteStage(w) \/ StageRaises(w) \/ SendNext(w) \/ SendRetry(w)
              => task'[w].pc # "write"
        BY <1>f DEF ExecuteStage, StageRaises, SendNext, SendRetry, TypeOK, Task
      <4>3. Deliver(w) \/ Ack(w) => task'[w].pc # "write"
        BY <1>f DEF Deliver, Ack, IdleTask, TypeOK
      <4> QED
        BY <3>2, <1>2, <4>1, <4>2, <4>3 DEF WorkerStep
    <3> QED
      BY <3>1, <3>2
  <2>2. /\ task[v].seen < nextId
        /\ \A r \in rows : r.id = task[v].seen => r.stage = task[v].msg.stage
    BY <2>1 DEF IInv, SeenIsOfStage
  <2>3. /\ nextId' \in {nextId, nextId + 1}
        /\ \A r \in rows' : \/ r.id = nextId
                             \/ \E q \in rows : q.id = r.id /\ q.stage = r.stage
    <3>1. CASE ~WriteRow(w)
      BY <3>1 DEF WorkerStep, Deliver, SelectRow, ExecuteStage, StageRaises,
                  SendNext, SendRetry, Ack
    <3>2. CASE WriteRow(w)
      BY <3>2, <1>f DEF WriteRow, TypeOK, Row
    <3> QED
      BY <3>1, <3>2
  <2>4. task[v].seen \in Nat
    BY DEF IInv, TypeOK, Task
  <2> QED
    BY <2>1, <2>2, <2>3, <2>4, <1>f
<1> QED
  BY <1>1, <1>2

\* Steps of users and handlers: rows are only dropped, messages only added for
\* the first stage of a chain.
LEMMA ApiInv == IInv /\ (UserStep \/ HandlerStep) => IInv'
<1> SUFFICES ASSUME IInv, UserStep \/ HandlerStep PROVE IInv'
  OBVIOUS
<1>1. TypeOK'
  BY UserType, HandlerType DEF IInv
<1>2. /\ task' = task /\ executed' = executed /\ nextId' = nextId
      /\ rows' = rows \/ rows' = {}
      /\ repo' # "registered" => repo' = repo \/ rows' = {}
      /\ repo = repo' \/ repo' = "registered" \/ rows' = {}
  BY DEF UserStep, HandlerStep, AddRepo, RetryOnboarding, DeleteRepo,
         StartOnboarding, DeleteCheckout, DeleteGraph
<1>3. SavingWasExecuted' /\ SeenIsOfStage'
  BY <1>2 DEF IInv, SavingWasExecuted, SeenIsOfStage
<1>4. CompletedWasExecuted' /\ DeletedHasNoRows' /\ RowIdsUnique'
  BY <1>2 DEF IInv, CompletedWasExecuted, DeletedHasNoRows, RowIdsUnique
<1>5. StageAfterPredecessors'
  <2>1. \A m \in Message : broker'[m] > 0 => broker[m] > 0 \/ m.stage = 1
    <3>1. CASE StartOnboarding
      <4>1. started + 1 \in Pipelines
        BY <3>1, MaxPipelinesAssumption
           DEF StartOnboarding, IInv, TypeOK, Pipelines
      <4> QED
        BY <3>1, <4>1, FirstMessageType
           DEF StartOnboarding, IInv, TypeOK, FirstMessage
    <3>2. CASE ~StartOnboarding
      BY <3>2 DEF UserStep, HandlerStep, AddRepo, RetryOnboarding, DeleteRepo,
                  DeleteCheckout, DeleteGraph
    <3> QED
      BY <3>1, <3>2
  <2> QED
    BY <1>2, <2>1 DEF IInv, StageAfterPredecessors
<1> QED
  BY <1>1, <1>3, <1>4, <1>5 DEF IInv

LEMMA FaultInv == IInv /\ FaultStep => IInv'
<1> SUFFICES ASSUME IInv, FaultStep PROVE IInv'
  OBVIOUS
<1>1. TypeOK' /\ SavingWasExecuted' /\ StageAfterPredecessors'
  BY FaultType, FaultSaving, FaultOrder DEF IInv
<1>2. rows' = rows /\ repo' = repo /\ nextId' = nextId /\ executed' = executed
  BY DEF FaultStep, EnqueueFails, CleanupFails, WorkerLost, ChildKilled,
         VisibilityTimeout, SaveLost
<1>3. CompletedWasExecuted' /\ DeletedHasNoRows' /\ RowIdsUnique'
  BY <1>2 DEF IInv, CompletedWasExecuted, DeletedHasNoRows, RowIdsUnique
<1>4. \A v \in Workers : task'[v].pc = "write" =>
         /\ task[v].pc = "write"
         /\ task'[v].seen = task[v].seen /\ task'[v].msg = task[v].msg
  <2>1. CASE EnqueueFails \/ CleanupFails
    BY <2>1 DEF EnqueueFails, CleanupFails
  <2>2. ASSUME NEW w \in Workers, WorkerLost(w) \/ ChildKilled(w)
        PROVE  \A v \in Workers : task'[v].pc = "write" => task'[v] = task[v]
    BY <2>2 DEF WorkerLost, ChildKilled, IdleTask, IInv, TypeOK
  <2>3. ASSUME NEW w \in Workers, VisibilityTimeout(w)
        PROVE  \A v \in Workers : /\ task'[v].pc = task[v].pc
                                  /\ task'[v].seen = task[v].seen
                                  /\ task'[v].msg = task[v].msg
    BY <2>3 DEF VisibilityTimeout, IInv, TypeOK, Task
  <2>4. ASSUME NEW w \in Workers, SaveLost(w)
        PROVE  \A v \in Workers : task'[v].pc = "write" => task'[v] = task[v]
    <3>1. task[w] \in Task
      BY DEF IInv, TypeOK
    <3> QED
      BY <2>4, <3>1, AfterSaveFacts DEF SaveLost, IInv, TypeOK
  <2> QED
    BY <2>1, <2>2, <2>3, <2>4 DEF FaultStep
<1>5. SeenIsOfStage'
  BY <1>2, <1>4 DEF IInv, SeenIsOfStage
<1> QED
  BY <1>1, <1>3, <1>5 DEF IInv

LEMMA NextInv == IInv /\ [Next]_vars => IInv'
<1> SUFFICES ASSUME IInv, [Next]_vars PROVE IInv'
  OBVIOUS
<1>1. ASSUME NEW w \in Workers, WorkerStep(w) PROVE IInv'
  BY <1>1, WorkerType, WorkerSaving, WorkerSeen, WorkerOrder, WorkerRows DEF IInv
<1>2. CASE UNCHANGED vars
  BY <1>2 DEF vars, IInv, TypeOK, SavingWasExecuted, SeenIsOfStage,
              StageAfterPredecessors, CompletedWasExecuted, DeletedHasNoRows,
              RowIdsUnique
<1> QED
  BY <1>1, <1>2, ApiInv, FaultInv DEF Next

LEMMA InvHolds == Spec => []IInv
  BY InitInv, NextInv, PTL DEF Spec

\* Whatever is retried, redelivered, lost or deleted, a stage shown as completed
\* was run to its end by some chain.
THEOREM CompletedIsTrue == Spec => []CompletedWasExecuted
<1>1. IInv => CompletedWasExecuted
  BY DEF IInv
<1> QED
  BY <1>1, InvHolds, PTL

\* Whatever is retried, redelivered or lost, no chain runs ahead of itself.
THEOREM ChainsRunInOrder == Spec => []StageAfterPredecessors
<1>1. IInv => StageAfterPredecessors
  BY DEF IInv
<1> QED
  BY <1>1, InvHolds, PTL

\* A deleted repository has no status row, although tasks of its chain still save.
THEOREM DeletionIsFinal == Spec => []DeletedHasNoRows
<1>1. IInv => DeletedHasNoRows
  BY DEF IInv
<1> QED
  BY <1>1, InvHolds, PTL

-----------------------------------------------------------------------------
(* The board.  BoardFrom reads it off a set of rows, which has at most one   *)
(* row per stage as long as one task at a time saves.                        *)

RowsOf(R, s) == {r \in R : r.stage = s}

StatusOf(P) == IF P = {} THEN "none" ELSE (CHOOSE r \in P : TRUE).status

BoardFrom(R) == [s \in Stages |-> StatusOf(RowsOf(R, s))]

OneEach(R) == \A r1, r2 \in R : r1.stage = r2.stage => r1 = r2

LEMMA BoardIsFromRows ==
  BoardOf = BoardFrom(rows) /\ BoardOf' = BoardFrom(rows)'
  BY DEF BoardOf, BoardFrom, StatusOf, RowsOf, StageRows

\* With one row per stage, the board shows of each stage what its row says.
LEMMA BoardShowsRow ==
  ASSUME NEW R \in SUBSET Row, OneEach(R), NEW r \in R
  PROVE  /\ r.stage \in Stages
         /\ RowsOf(R, r.stage) = {r}
         /\ BoardFrom(R)[r.stage] = r.status
<1>1. r.stage \in Stages
  BY DEF Row
<1>2. RowsOf(R, r.stage) = {r}
  BY DEF RowsOf, OneEach
<1>3. (CHOOSE q \in RowsOf(R, r.stage) : TRUE) = r
  BY <1>2
<1> QED
  BY <1>1, <1>2, <1>3 DEF BoardFrom, StatusOf

LEMMA BoardShowsNone ==
  ASSUME NEW R \in SUBSET Row, OneEach(R), NEW s \in Stages
  PROVE  BoardFrom(R)[s] = "none" <=> RowsOf(R, s) = {}
<1>1. CASE RowsOf(R, s) = {}
  BY <1>1 DEF BoardFrom, StatusOf
<1>2. CASE RowsOf(R, s) # {}
  <2>1. PICK r \in R : r.stage = s
    BY <1>2 DEF RowsOf
  <2>2. BoardFrom(R)[s] = r.status /\ r.status # "none"
    BY <2>1, BoardShowsRow DEF Row, Status
  <2> QED
    BY <1>2, <2>2
<1> QED
  BY <1>1, <1>2

\* An INSERT for a stage without a row sets that stage on the board.
LEMMA InsertSets ==
  ASSUME NEW R \in SUBSET Row, OneEach(R), NEW new \in Row,
         RowsOf(R, new.stage) = {}
  PROVE  /\ OneEach(R \cup {new})
         /\ BoardFrom(R \cup {new}) =
              [BoardFrom(R) EXCEPT ![new.stage] = new.status]
<1> DEFINE S == R \cup {new}
<1>1. S \in SUBSET Row /\ new \in S
  OBVIOUS
<1>2. OneEach(S)
  BY DEF OneEach, RowsOf
<1>3. ASSUME NEW s \in Stages, s # new.stage
      PROVE  BoardFrom(S)[s] = BoardFrom(R)[s]
  <2>1. RowsOf(S, s) = RowsOf(R, s)
    BY <1>3 DEF RowsOf
  <2> QED
    BY <2>1 DEF BoardFrom
<1>4. BoardFrom(S)[new.stage] = new.status /\ new.stage \in Stages
  BY <1>1, <1>2, BoardShowsRow
<1>5. BoardFrom(S) = [BoardFrom(R) EXCEPT ![new.stage] = new.status]
  BY <1>3, <1>4 DEF BoardFrom
<1> QED
  BY <1>2, <1>5

Updated(R, key, st) ==
  {IF r.id = key THEN [r EXCEPT !.status = st] ELSE r : r \in R}

\* An UPDATE of a row by its key sets the stage of that row.
LEMMA UpdateSets ==
  ASSUME NEW R \in SUBSET Row, OneEach(R), NEW r0 \in R, NEW st \in Status,
         \A r1, r2 \in R : r1.id = r2.id => r1 = r2
  PROVE  /\ OneEach(Updated(R, r0.id, st))
         /\ BoardFrom(Updated(R, r0.id, st)) = [BoardFrom(R) EXCEPT ![r0.stage] = st]
         /\ \A q \in Updated(R, r0.id, st) : \E r \in R : q.id = r.id
<1> DEFINE saved == [r0 EXCEPT !.status = st]
           S == Updated(R, r0.id, st)
<1>0. saved \in Row /\ saved.stage = r0.stage /\ saved.status = st
      /\ saved.id = r0.id /\ r0.stage \in Stages
  BY DEF Row
<1>1. S = (R \ {r0}) \cup {saved}
  <2>1. ASSUME NEW q \in S PROVE q \in (R \ {r0}) \cup {saved}
    <3>1. PICK r \in R : q = IF r.id = r0.id THEN [r EXCEPT !.status = st] ELSE r
      BY DEF Updated
    <3> QED
      BY <3>1
  <2>2. saved \in S
    BY DEF Updated
  <2>3. ASSUME NEW q \in R \ {r0} PROVE q \in S
    <3>1. q.id # r0.id
      OBVIOUS
    <3> QED
      BY <3>1 DEF Updated
  <2> QED
    BY <2>1, <2>2, <2>3
<1> DEFINE Rest == R \ {r0}
<1>2. Rest \in SUBSET Row /\ OneEach(Rest) /\ RowsOf(Rest, saved.stage) = {}
  BY <1>0 DEF OneEach, RowsOf
<1> HIDE DEF saved, Rest
<1>3. OneEach(S) /\ BoardFrom(S) = [BoardFrom(Rest) EXCEPT ![r0.stage] = st]
  <2>1. /\ OneEach(Rest \cup {saved})
        /\ BoardFrom(Rest \cup {saved}) =
             [BoardFrom(Rest) EXCEPT ![saved.stage] = saved.status]
    BY <1>0, <1>2, InsertSets
  <2> QED
    BY <1>0, <1>1, <2>1 DEF Rest
<1>4. ASSUME NEW s \in Stages, s # r0.stage
      PROVE  BoardFrom(Rest)[s] = BoardFrom(R)[s]
  <2>1. RowsOf(Rest, s) = RowsOf(R, s)
    BY <1>4 DEF RowsOf, Rest
  <2> QED
    BY <2>1 DEF BoardFrom
<1>5. BoardFrom(S) = [BoardFrom(R) EXCEPT ![r0.stage] = st]
  BY <1>3, <1>4 DEF BoardFrom
<1>6. \A q \in S : \E r \in R : q.id = r.id
  BY <1>0, <1>1
<1> QED
  BY <1>3, <1>5, <1>6

\* The board of a chain that works on stage s, or rests at it: all stages before
\* it are completed and none after it has begun.
Shown(s, st) ==
  [k \in Stages |-> IF k < s THEN "completed" ELSE IF k = s THEN st ELSE "none"]

LEMMA ShownSet ==
  ASSUME NEW s \in Stages, NEW x, NEW y
  PROVE  [Shown(s, x) EXCEPT ![s] = y] = Shown(s, y)
<1>1. ~(s < s)
  BY DEF Stages
<1> QED
  BY <1>1 DEF Shown

LEMMA ShownOnwards ==
  ASSUME NEW s \in Stages, s < NumStages
  PROVE  Shown(s, "completed") = Shown(s + 1, "none")
  BY NumStagesAssumption DEF Shown, Stages

\* At rest: the rows of a board are those of a first part of the stages, one each.
LEMMA RowsOfShown ==
  ASSUME NEW R \in SUBSET Row, OneEach(R), NEW s \in Stages, NEW st \in Status,
         BoardFrom(R) = Shown(s, st)
  PROVE  /\ {r.stage : r \in R} = 1..s
         /\ \A r \in R : r.status = IF r.stage < s THEN "completed" ELSE st
         /\ IsFiniteSet(R) /\ Cardinality(R) = s
<1>0. s \in Nat \ {0} /\ Stages = 1..NumStages /\ NumStages \in Nat
  BY NumStagesAssumption DEF Stages
<1>1. ASSUME NEW r \in R
      PROVE  r.stage \in 1..s /\ r.status = IF r.stage < s THEN "completed" ELSE st
  <2>1. r.stage \in Stages /\ r.status = Shown(s, st)[r.stage] /\ r.status # "none"
    BY BoardShowsRow DEF Row, Status
  <2> QED
    BY <1>0, <2>1 DEF Shown
<1>2. ASSUME NEW k \in 1..s PROVE \E r \in R : r.stage = k
  <2>1. k \in Stages /\ Shown(s, st)[k] # "none"
    BY <1>0 DEF Shown, Status
  <2>2. RowsOf(R, k) # {}
    BY <2>1, BoardShowsNone
  <2> QED
    BY <2>2 DEF RowsOf
<1>3. {r.stage : r \in R} = 1..s
  BY <1>1, <1>2
<1> DEFINE f == [k \in 1..s |-> CHOOSE r \in R : r.stage = k]
<1>4. \A k \in 1..s : f[k] \in R /\ f[k].stage = k
  BY <1>2
<1> HIDE DEF f
<1>5. f \in Bijection(1..s, R)
  <2>1. f \in [1..s -> R]
    BY <1>4 DEF f
  <2>2. \A i, j \in 1..s : f[i] = f[j] => i = j
    BY <1>4
  <2>3. ASSUME NEW r \in R PROVE \E k \in 1..s : f[k] = r
    BY <1>1, <1>4 DEF OneEach
  <2> QED
    BY <2>1, <2>2, <2>3 DEF Bijection, Injection, Surjection, IsInjective
<1>6. ExistsBijection(1..s, R)
  BY <1>5 DEF ExistsBijection
<1>7. IsFiniteSet(R) /\ Cardinality(R) = s
  BY <1>0, <1>6, FS_NatBijection, FS_CountingElements
<1> QED
  BY <1>1, <1>3, <1>7

-----------------------------------------------------------------------------
(* An undisturbed pipeline: one token goes from the API handler to the queue *)
(* to a worker and back, and what the board shows follows from where it is.  *)

Undisturbed == Patient /\ MaxFaults = 0

Queued(m)  == broker[m] > 0
Working(w) == task[w].pc \notin {"idle", "ack"}

AllIdle ==
  /\ \A m \in Message : broker[m] = 0
  /\ \A w \in Workers : task[w].pc = "idle"

\* What the stage of a message, and of a task in each of its phases, shows.
ShownBefore(m) == IF m.attempt = 0 THEN "none" ELSE "failed"

ShownWhile(t) ==
  IF t.pc \in {"select", "write"} /\ t.saving = "running" THEN ShownBefore(t.msg)
  ELSE IF t.pc = "publish" THEN t.saving ELSE "running"

OneRowPerStage == OneEach(rows) /\ \A r \in rows : r.id # 0

OneToken ==
  /\ \A m, n \in Message : Queued(m) /\ Queued(n) => m = n /\ broker[m] = 1
  /\ \A v, w \in Workers : Working(v) /\ Working(w) => v = w
  /\ \A m \in Message, w \in Workers : ~(Queued(m) /\ Working(w))

HandlersAlone ==
  /\ api # "idle" \/ repo # "registered" => AllIdle
  /\ repo = "absent" => api = "idle" /\ ~gaveUp
  /\ repo = "registered" => api \in {"idle", "enqueue"}
  /\ repo = "deleted" => api # "enqueue"
  /\ api = "enqueue" => rows = {} /\ ~gaveUp

CleanedUp ==
  repo = "deleted" => /\ api = "graph" => "checkout" \notin artifacts
                      /\ api = "idle" => artifacts = {}

QueuedShown ==
  \A m \in Message : Queued(m) =>
    ~gaveUp /\ BoardFrom(rows) = Shown(m.stage, ShownBefore(m))

TaskShown(w) ==
  /\ ~gaveUp
  /\ task[w].pc = "execute" => task[w].saving = "running"
  /\ task[w].pc = "publish" => task[w].saving # "running"
  /\ BoardFrom(rows) = Shown(task[w].msg.stage, ShownWhile(task[w]))
  /\ task[w].pc = "write" =>
       \/ task[w].seen = 0 /\ StageRows(task[w].msg.stage) = {}
       \/ \E r \in rows : r.id = task[w].seen /\ r.stage = task[w].msg.stage

WorkShown == \A w \in Workers : Working(w) => TaskShown(w)

AtRest ==
  /\ repo = "registered" /\ api = "idle"
  /\ \A m \in Message : ~Queued(m)
  /\ \A w \in Workers : ~Working(w)

\* The chain ended: its last stage completed, or some stage failed for good.
Verdict ==
  \/ gaveUp /\ \E s \in Stages : BoardFrom(rows) = Shown(s, "failed")
  \/ ~gaveUp /\ BoardFrom(rows) = Shown(NumStages, "completed")

RestShown == AtRest => Verdict

TokenInv ==
  /\ OneRowPerStage
  /\ OneToken
  /\ HandlersAlone
  /\ CleanedUp
  /\ QueuedShown
  /\ WorkShown
  /\ RestShown

LEMMA EmptyBoard == BoardFrom({}) = Shown(1, "none")
<1>1. \A s \in Stages : ~(s < 1) /\ RowsOf({}, s) = {}
  BY DEF Stages, RowsOf
<1> QED
  BY <1>1 DEF BoardFrom, StatusOf, Shown

LEMMA TokenInit == Init => TokenInv
  BY DEF Init, TokenInv, OneRowPerStage, OneEach, OneToken, HandlersAlone,
         CleanedUp, QueuedShown, WorkShown, RestShown, AtRest, AllIdle, Queued,
         Working, IdleTask

\* While a worker has the token there is nothing else.
LEMMA OnlyWorker ==
  ASSUME TypeOK, OneToken, HandlersAlone, NEW w \in Workers, Working(w)
  PROVE  /\ \A m \in Message : ~Queued(m)
         /\ \A v \in Workers \ {w} : ~Working(v)
         /\ api = "idle" /\ repo = "registered"
  BY DEF OneToken, HandlersAlone, AllIdle, Working

LEMMA WorkerKeeps ==
  ASSUME TypeOK, NEW w \in Workers, WorkerStep(w)
  PROVE  /\ repo' = repo /\ api' = api
         /\ \A v \in Workers \ {w} : task'[v] = task[v]
  BY WorkerFrame DEF WorkerStep, Deliver, SelectRow, WriteRow, ExecuteStage,
                     StageRaises, SendNext, SendRetry, Ack

\* A worker that keeps the token: only its own task and the rows matter.
LEMMA StillWorking ==
  ASSUME IInv, TokenInv, NEW w \in Workers, WorkerStep(w), Working(w),
         Working(w)', broker' = broker, TaskShown(w)', OneRowPerStage'
  PROVE  TokenInv'
<1>1. /\ \A m \in Message : ~Queued(m)
      /\ \A v \in Workers \ {w} : ~Working(v)
      /\ api = "idle" /\ repo = "registered"
  BY OnlyWorker DEF IInv, TokenInv
<1>2. /\ repo' = repo /\ api' = api
      /\ \A v \in Workers \ {w} : task'[v] = task[v]
  BY WorkerKeeps DEF IInv
<1>3. /\ \A m \in Message : ~Queued(m)'
      /\ \A v \in Workers \ {w} : ~Working(v)'
  BY <1>1, <1>2 DEF Queued, Working
<1>4. OneToken' /\ QueuedShown'
  BY <1>3 DEF OneToken, QueuedShown
<1>5. WorkShown'
  BY <1>3 DEF WorkShown
<1>6. RestShown'
  BY DEF RestShown, AtRest
<1>7. HandlersAlone' /\ CleanedUp'
  BY <1>1, <1>2 DEF HandlersAlone, CleanedUp
<1> QED
  BY <1>4, <1>5, <1>6, <1>7 DEF TokenInv

\* What one status of stage s turning into another is on the abstract board.
LEMMA BoardMoves ==
  ASSUME NEW s \in Stages, NEW x, NEW y,
         BoardFrom(rows) = Shown(s, x), BoardFrom(rows)' = Shown(s, y),
         \/ x = y
         \/ x \in {"none", "failed"} /\ y = "running"
         \/ x = "running" /\ y \in {"completed", "failed"}
  PROVE  [Board!BoardNext]_BoardOf
<1>1. BoardOf = Shown(s, x) /\ BoardOf' = Shown(s, y)
  BY BoardIsFromRows
<1>2. Shown(s, x)[s] = x /\ [Shown(s, x) EXCEPT ![s] = y] = Shown(s, y)
  <2>1. ~(s < s)
    BY DEF Stages
  <2>2. Shown(s, x)[s] = x
    BY <2>1 DEF Shown
  <2> QED
    BY <2>2, ShownSet
<1>3. \A k \in 1..(s - 1) : Shown(s, x)[k] = "completed"
  <2>1. \A k \in 1..(s - 1) : k \in Stages /\ k < s
    BY NumStagesAssumption DEF Stages
  <2> QED
    BY <2>1 DEF Shown
<1>4. CASE x = y
  BY <1>1, <1>4
<1>5. CASE x \in {"none", "failed"} /\ y = "running"
  <2>1. Board!Begin(s)
    BY <1>1, <1>2, <1>3, <1>5 DEF Board!Begin
  <2> QED
    BY <2>1 DEF Board!BoardNext, Board!Stages, Stages
<1>6. CASE x = "running" /\ y \in {"completed", "failed"}
  <2>1. Board!Settle(s)
    BY <1>1, <1>2, <1>6 DEF Board!Settle
  <2> QED
    BY <2>1 DEF Board!BoardNext, Board!Stages, Stages
<1> QED
  BY <1>4, <1>5, <1>6

-----------------------------------------------------------------------------
(* The worker steps, each with what it does to the token and the board.      *)

LEMMA DeliverToken ==
  ASSUME IInv, TokenInv, NEW w \in Workers, Deliver(w)
  PROVE  TokenInv' /\ BoardFrom(rows)' = BoardFrom(rows)
<1>1. PICK m \in Message :
        /\ broker[m] > 0
        /\ broker' = [broker EXCEPT ![m] = @ - 1]
        /\ task' = [task EXCEPT ![w] = [pc |-> "select", msg |-> m,
                      saving |-> "running", seen |-> 0, held |-> TRUE]]
  BY DEF Deliver
<1>2. UNCHANGED <<repo, rows, nextId, started, api, artifacts, chunks, executed,
                  gaveUp, faults>>
  BY DEF Deliver
<1>3. TypeOK /\ task[w].pc = "idle"
  BY DEF IInv, Deliver
<1>4. /\ broker[m] = 1 /\ \A n \in Message : Queued(n) => n = m
      /\ \A v \in Workers : ~Working(v)
      /\ api = "idle" /\ repo = "registered"
  BY <1>1 DEF TokenInv, OneToken, HandlersAlone, AllIdle, Queued
<1>5. \A n \in Message : ~Queued(n)'
  BY <1>1, <1>3, <1>4 DEF Queued, TypeOK
<1>6. /\ task'[w] = [pc |-> "select", msg |-> m, saving |-> "running", seen |-> 0,
                     held |-> TRUE]
      /\ \A v \in Workers \ {w} : task'[v] = task[v]
  BY <1>1, <1>3 DEF TypeOK
<1>7. Working(w)' /\ \A v \in Workers \ {w} : ~Working(v)'
  BY <1>4, <1>6 DEF Working
<1>8. TaskShown(w)'
  <2>1. ~gaveUp /\ BoardFrom(rows) = Shown(m.stage, ShownBefore(m))
    BY <1>1 DEF TokenInv, QueuedShown, Queued
  <2>2. ShownWhile(task'[w]) = ShownBefore(m) /\ task'[w].pc = "select"
        /\ task'[w].msg = m
    BY <1>6 DEF ShownWhile
  <2> QED
    BY <1>2, <2>1, <2>2 DEF TaskShown
<1>9. OneToken' /\ QueuedShown' /\ WorkShown' /\ RestShown'
  BY <1>5, <1>7, <1>8 DEF OneToken, QueuedShown, WorkShown, RestShown, AtRest
<1>10. OneRowPerStage' /\ HandlersAlone' /\ CleanedUp'
  BY <1>2, <1>4 DEF TokenInv, OneRowPerStage, HandlersAlone, CleanedUp
<1> QED
  BY <1>2, <1>9, <1>10 DEF TokenInv

LEMMA AckToken ==
  ASSUME IInv, TokenInv, NEW w \in Workers, Ack(w)
  PROVE  TokenInv' /\ BoardFrom(rows)' = BoardFrom(rows)
<1>1. UNCHANGED <<repo, rows, nextId, broker, started, api, artifacts, chunks,
                  executed, gaveUp, faults>>
  BY DEF Ack
<1>2. /\ ~Working(w) /\ ~Working(w)'
      /\ \A v \in Workers \ {w} : task'[v] = task[v]
      /\ task[w].pc # "idle"
  BY DEF Ack, Working, IdleTask, IInv, TypeOK
<1>3. \A v \in Workers : Working(v)' <=> Working(v)
  BY <1>2 DEF Working
<1>4. OneToken' /\ QueuedShown'
  BY <1>1, <1>3 DEF TokenInv, OneToken, QueuedShown, Queued
<1>5. WorkShown'
  BY <1>1, <1>2 DEF TokenInv, WorkShown, TaskShown, StageRows, Working
<1>6. RestShown'
  BY <1>1, <1>3 DEF TokenInv, RestShown, AtRest, Verdict, Queued
<1>7. OneRowPerStage' /\ HandlersAlone' /\ CleanedUp'
  BY <1>1, <1>2 DEF TokenInv, OneRowPerStage, HandlersAlone, CleanedUp, AllIdle
<1> QED
  BY <1>1, <1>4, <1>5, <1>6, <1>7 DEF TokenInv

\* The SELECT finds the one row of the stage, or none.
LEMMA SelectToken ==
  ASSUME IInv, TokenInv, NEW w \in Workers, SelectRow(w)
  PROVE  TokenInv' /\ BoardFrom(rows)' = BoardFrom(rows)
<1> DEFINE t == task[w]
<1>1. /\ TypeOK /\ t \in Task /\ t.pc = "select"
      /\ rows' = rows /\ broker' = broker /\ gaveUp' = gaveUp
  BY DEF IInv, TypeOK, SelectRow
<1>2. Working(w) /\ TaskShown(w)
  BY <1>1 DEF Working, TokenInv, WorkShown
<1>3. ~ \E r1, r2 \in StageRows(t.msg.stage) : r1 # r2
  BY DEF TokenInv, OneRowPerStage, OneEach, StageRows
<1>4. /\ task'[w].pc = "write" /\ task'[w].msg = t.msg
      /\ task'[w].saving = t.saving
      /\ \/ task'[w].seen = 0 /\ StageRows(t.msg.stage) = {}
         \/ \E r \in StageRows(t.msg.stage) : r.id = task'[w].seen
  <2>1. CASE task' = [task EXCEPT ![w].pc = "write", ![w].seen = 0]
             /\ StageRows(t.msg.stage) = {}
    BY <1>1, <2>1 DEF TypeOK, Task
  <2>2. CASE \E r \in StageRows(t.msg.stage) :
               task' = [task EXCEPT ![w].pc = "write", ![w].seen = r.id]
    BY <1>1, <2>2 DEF TypeOK, Task
  <2> QED
    BY <1>3, <2>1, <2>2 DEF SelectRow
<1>5. ShownWhile(task'[w]) = ShownWhile(t)
  BY <1>1, <1>4 DEF ShownWhile
<1>6. TaskShown(w)' /\ Working(w)'
  BY <1>1, <1>2, <1>4, <1>5 DEF TaskShown, StageRows, Working
<1>7. OneRowPerStage' /\ WorkerStep(w)
  BY <1>1 DEF TokenInv, OneRowPerStage, WorkerStep
<1> QED
  BY <1>1, <1>2, <1>6, <1>7, StillWorking

\* The commit sets the stage of the task on the board to the status it saves.
LEMMA WriteSets ==
  ASSUME IInv, OneRowPerStage, NEW w \in Workers, WriteRow(w), repo = "registered",
         TaskShown(w)
  PROVE  /\ OneRowPerStage'
         /\ BoardFrom(rows)' =
              [BoardFrom(rows) EXCEPT ![task[w].msg.stage] = task[w].saving]
<1> DEFINE t == task[w]
<1>1. /\ TypeOK /\ t \in Task /\ t.msg.stage \in Stages /\ t.saving \in Status
      /\ rows \in SUBSET Row /\ nextId \in Nat \ {0}
      /\ \A r1, r2 \in rows : r1.id = r2.id => r1 = r2
      /\ t.pc = "write" /\ OneEach(rows) /\ \A r \in rows : r.id # 0
  BY DEF IInv, TypeOK, WriteRow, Task, Message, RowIdsUnique, OneRowPerStage
<1>2. CASE t.seen # 0
  <2>1. PICK r0 \in rows : r0.id = t.seen /\ r0.stage = t.msg.stage
    BY <1>1, <1>2 DEF TaskShown
  <2> DEFINE new == Updated(rows, r0.id, t.saving)
  <2>2. rows' = new
    BY <1>2, <2>1 DEF WriteRow, Updated
  <2>3. /\ OneEach(new)
        /\ BoardFrom(new) = [BoardFrom(rows) EXCEPT ![r0.stage] = t.saving]
        /\ \A q \in new : \E r \in rows : q.id = r.id
    BY <1>1, <2>1, UpdateSets
  <2> HIDE DEF new
  <2> QED
    BY <1>1, <2>1, <2>2, <2>3 DEF OneRowPerStage
<1>3. CASE t.seen = 0
  <2> DEFINE new == [id |-> nextId, stage |-> t.msg.stage, status |-> t.saving]
  <2>1. new \in Row /\ new.stage = t.msg.stage /\ new.status = t.saving /\ new.id # 0
    BY <1>1 DEF Row
  <2>2. rows' = rows \cup {new}
    BY <1>3 DEF WriteRow
  <2>3. RowsOf(rows, new.stage) = {}
    BY <1>1, <1>3, <2>1 DEF TaskShown, StageRows, RowsOf
  <2> HIDE DEF new
  <2>4. /\ OneEach(rows \cup {new})
        /\ BoardFrom(rows \cup {new}) =
             [BoardFrom(rows) EXCEPT ![new.stage] = new.status]
    BY <1>1, <2>1, <2>3, InsertSets
  <2> QED
    BY <1>1, <2>1, <2>2, <2>4 DEF OneRowPerStage
<1> QED
  BY <1>2, <1>3

LEMMA WriteToken ==
  ASSUME IInv, TokenInv, NEW w \in Workers, WriteRow(w)
  PROVE  TokenInv' /\ [Board!BoardNext]_BoardOf
<1> DEFINE t == task[w]
           s == t.msg.stage
<1>1. /\ TypeOK /\ t \in Task /\ t.pc = "write" /\ s \in Stages
      /\ t.saving \in Status /\ t.msg \in Message
      /\ broker' = broker /\ gaveUp' = gaveUp
      /\ task'[w] = AfterSave(t)
  BY DEF IInv, TypeOK, WriteRow, Task, Message
<1>2. Working(w) /\ TaskShown(w)
  BY <1>1 DEF Working, TokenInv, WorkShown
<1>3. repo = "registered" /\ OneRowPerStage
  BY <1>1, <1>2, OnlyWorker DEF TokenInv
<1>4. OneRowPerStage' /\ BoardFrom(rows)' = Shown(s, t.saving)
  <2>1. /\ OneRowPerStage'
        /\ BoardFrom(rows)' = [BoardFrom(rows) EXCEPT ![s] = t.saving]
    BY <1>2, <1>3, WriteSets
  <2>2. BoardFrom(rows) = Shown(s, ShownWhile(t))
    BY <1>2 DEF TaskShown
  <2> QED
    BY <1>1, <2>1, <2>2, ShownSet
<1>5. /\ task'[w].msg = t.msg /\ task'[w].saving = t.saving
      /\ task'[w].pc = IF t.saving = "running" THEN "execute" ELSE "publish"
  BY <1>1 DEF AfterSave, Task
<1>6. ShownWhile(task'[w]) = t.saving
  BY <1>5 DEF ShownWhile
<1>7. TaskShown(w)' /\ Working(w)'
  BY <1>1, <1>2, <1>4, <1>5, <1>6 DEF TaskShown, Working
<1>8. TokenInv'
  BY <1>1, <1>2, <1>4, <1>7, StillWorking DEF WorkerStep
<1>9. [Board!BoardNext]_BoardOf
  <2>1. BoardFrom(rows) = Shown(s, ShownWhile(t))
    BY <1>2 DEF TaskShown
  <2>2. CASE t.saving = "running"
    <3>1. ShownWhile(t) \in {"none", "failed"}
      BY <1>1, <2>2 DEF ShownWhile, ShownBefore
    <3> QED
      BY <1>1, <1>4, <2>1, <2>2, <3>1, BoardMoves
  <2>3. CASE t.saving # "running"
    <3>1. ShownWhile(t) = "running" /\ t.saving \in {"completed", "failed"}
      BY <1>1, <2>3 DEF ShownWhile, Status
    <3> QED
      BY <1>1, <1>4, <2>1, <3>1, BoardMoves
  <2> QED
    BY <2>2, <2>3
<1> QED
  BY <1>8, <1>9

\* The stage runs, or raises: the board goes on showing "running".
LEMMA ExecuteToken ==
  ASSUME IInv, TokenInv, NEW w \in Workers,
         ExecuteStage(w) \/ StageRaises(w)
  PROVE  TokenInv' /\ BoardFrom(rows)' = BoardFrom(rows)
<1> DEFINE t == task[w]
<1>1. /\ TypeOK /\ t \in Task /\ t.pc = "execute"
      /\ rows' = rows /\ broker' = broker /\ gaveUp' = gaveUp
      /\ task'[w].pc = "select" /\ task'[w].msg = t.msg
      /\ task'[w].saving \in {"completed", "failed"}
  BY DEF IInv, TypeOK, ExecuteStage, StageRaises, Task
<1>2. Working(w) /\ TaskShown(w)
  BY <1>1 DEF Working, TokenInv, WorkShown
<1>3. ShownWhile(t) = "running" /\ ShownWhile(task'[w]) = "running"
  BY <1>1 DEF ShownWhile
<1>4. TaskShown(w)' /\ Working(w)'
  BY <1>1, <1>2, <1>3 DEF TaskShown, Working
<1>5. OneRowPerStage' /\ WorkerStep(w)
  BY <1>1 DEF TokenInv, OneRowPerStage, WorkerStep
<1> QED
  BY <1>1, <1>2, <1>4, <1>5, StillWorking

\* A worker that passes the token on, to one message or, at the end, to no one.
LEMMA PassedOn ==
  ASSUME IInv, TokenInv, NEW w \in Workers, WorkerStep(w), Working(w),
         ~Working(w)', rows' = rows,
         \/ /\ \A m \in Message : ~Queued(m)'
            /\ Verdict'
         \/ \E n \in Message :
              /\ broker' = [broker EXCEPT ![n] = @ + 1] /\ ~gaveUp'
              /\ BoardFrom(rows) = Shown(n.stage, ShownBefore(n))
  PROVE  TokenInv'
<1>1. /\ \A m \in Message : ~Queued(m)
      /\ \A v \in Workers \ {w} : ~Working(v)
      /\ api = "idle" /\ repo = "registered"
  BY OnlyWorker DEF IInv, TokenInv
<1>2. /\ repo' = repo /\ api' = api
      /\ \A v \in Workers \ {w} : task'[v] = task[v]
  BY WorkerKeeps DEF IInv
<1>3. \A v \in Workers : ~Working(v)'
  BY <1>1, <1>2 DEF Working
<1>4. OneRowPerStage' /\ HandlersAlone' /\ CleanedUp' /\ WorkShown'
  BY <1>1, <1>2, <1>3
     DEF TokenInv, OneRowPerStage, HandlersAlone, CleanedUp, WorkShown
<1>5. CASE (\A m \in Message : ~Queued(m)') /\ Verdict'
  BY <1>3, <1>4, <1>5 DEF TokenInv, OneToken, QueuedShown, RestShown
<1>6. ASSUME NEW n \in Message, broker' = [broker EXCEPT ![n] = @ + 1], ~gaveUp',
             BoardFrom(rows) = Shown(n.stage, ShownBefore(n))
      PROVE  TokenInv'
  <2>1. broker \in [Message -> Nat] /\ \A m \in Message : broker[m] = 0
    BY <1>1 DEF IInv, TypeOK, Queued
  <2>2. \A m \in Message : broker'[m] = IF m = n THEN 1 ELSE 0
    BY <2>1, <1>6
  <2>3. Queued(n)' /\ \A m \in Message : Queued(m)' => m = n /\ broker'[m] = 1
    BY <2>2 DEF Queued
  <2>4. OneToken'
    BY <1>3, <2>3 DEF OneToken
  <2>5. QueuedShown'
    BY <1>6, <2>3 DEF QueuedShown
  <2>6. RestShown'
    BY <2>3 DEF RestShown, AtRest
  <2> QED
    BY <1>4, <2>4, <2>5, <2>6 DEF TokenInv
<1> QED
  BY <1>5, <1>6

LEMMA SendNextToken ==
  ASSUME IInv, TokenInv, NEW w \in Workers, SendNext(w)
  PROVE  TokenInv' /\ BoardFrom(rows)' = BoardFrom(rows)
<1> DEFINE t == task[w]
           s == t.msg.stage
<1>1. /\ TypeOK /\ t \in Task /\ t.pc = "publish" /\ t.saving = "completed"
      /\ t.msg \in Message /\ s \in Stages
      /\ rows' = rows /\ gaveUp' = gaveUp /\ task'[w].pc = "ack"
  BY DEF IInv, TypeOK, SendNext, Task, Message
<1>2. Working(w) /\ ~Working(w)' /\ TaskShown(w) /\ WorkerStep(w)
  BY <1>1 DEF Working, TokenInv, WorkShown, WorkerStep
<1>3. ~gaveUp /\ BoardFrom(rows) = Shown(s, "completed")
  BY <1>1, <1>2 DEF TaskShown, ShownWhile
<1>4. CASE s < NumStages
  <2> DEFINE n == NextMessage(t.msg)
  <2>1. n \in Message /\ n.stage = s + 1 /\ n.attempt = 0
    BY <1>1, <1>4, NextMessageType DEF NextMessage
  <2>2. broker' = [broker EXCEPT ![n] = @ + 1]
    BY <1>4 DEF SendNext
  <2>3. Shown(s, "completed") = Shown(s + 1, "none")
    BY <1>1, <1>4, ShownOnwards
  <2> HIDE DEF n
  <2>4. BoardFrom(rows) = Shown(n.stage, ShownBefore(n))
    BY <1>3, <2>1, <2>3 DEF ShownBefore
  <2> QED
    BY <1>1, <1>2, <1>3, <2>1, <2>2, <2>4, PassedOn
<1>5. CASE ~(s < NumStages)
  <2>1. broker' = broker
    BY <1>5 DEF SendNext
  <2>2. s = NumStages
    BY <1>1, <1>5, NumStagesAssumption DEF Stages
  <2>3. Verdict'
    BY <1>1, <1>3, <2>2 DEF Verdict
  <2>4. \A m \in Message : ~Queued(m)'
    BY <1>2, <2>1, OnlyWorker DEF Queued, IInv, TokenInv
  <2> QED
    BY <1>1, <1>2, <2>3, <2>4, PassedOn
<1> QED
  BY <1>4, <1>5

LEMMA SendRetryToken ==
  ASSUME IInv, TokenInv, NEW w \in Workers, SendRetry(w)
  PROVE  TokenInv' /\ BoardFrom(rows)' = BoardFrom(rows)
<1> DEFINE t == task[w]
           s == t.msg.stage
<1>1. /\ TypeOK /\ t \in Task /\ t.pc = "publish" /\ t.saving = "failed"
      /\ t.msg \in Message /\ s \in Stages
      /\ rows' = rows /\ task'[w].pc = "ack"
  BY DEF IInv, TypeOK, SendRetry, Task, Message
<1>2. Working(w) /\ ~Working(w)' /\ TaskShown(w) /\ WorkerStep(w)
  BY <1>1 DEF Working, TokenInv, WorkShown, WorkerStep
<1>3. ~gaveUp /\ BoardFrom(rows) = Shown(s, "failed")
  BY <1>1, <1>2 DEF TaskShown, ShownWhile
<1>4. CASE t.msg.attempt < MaxRetries
  <2> DEFINE n == RetryMessage(t.msg)
  <2>1. n \in Message /\ n.stage = s /\ n.attempt = t.msg.attempt + 1
    BY <1>1, <1>4, RetryMessageType DEF RetryMessage, Message
  <2>2. broker' = [broker EXCEPT ![n] = @ + 1] /\ ~gaveUp'
    BY <1>3, <1>4 DEF SendRetry
  <2>3. n.attempt # 0
    BY <1>1, <2>1 DEF Message
  <2> HIDE DEF n
  <2>4. BoardFrom(rows) = Shown(n.stage, ShownBefore(n))
    BY <1>3, <2>1, <2>3 DEF ShownBefore
  <2> QED
    BY <1>1, <1>2, <2>1, <2>2, <2>4, PassedOn
<1>5. CASE ~(t.msg.attempt < MaxRetries)
  <2>1. broker' = broker /\ gaveUp'
    BY <1>5 DEF SendRetry
  <2>2. Verdict'
    BY <1>1, <1>3, <2>1 DEF Verdict
  <2>3. \A m \in Message : ~Queued(m)'
    BY <1>2, <2>1, OnlyWorker DEF Queued, IInv, TokenInv
  <2> QED
    BY <1>1, <1>2, <2>2, <2>3, PassedOn
<1> QED
  BY <1>4, <1>5

LEMMA WorkerToken ==
  ASSUME IInv, TokenInv, NEW w \in Workers, WorkerStep(w)
  PROVE  TokenInv' /\ [Board!BoardNext]_BoardOf
<1>1. CASE WriteRow(w)
  BY <1>1, WriteToken
<1>2. CASE ~WriteRow(w)
  <2>1. TokenInv' /\ BoardFrom(rows)' = BoardFrom(rows)
    BY <1>2, DeliverToken, SelectToken, ExecuteToken, SendNextToken,
       SendRetryToken, AckToken DEF WorkerStep
  <2> QED
    BY <2>1, BoardIsFromRows
<1> QED
  BY <1>1, <1>2

\* The handlers: a retry and a delete find the pipeline at rest, and wipe the board.
LEMMA Wiped ==
  ASSUME IInv, TokenInv, repo = "registered", Quiescent, rows' = {}
  PROVE  [Board!BoardNext]_BoardOf
<1>1. AtRest
  BY DEF Quiescent, AtRest, Queued, Working
<1>2. PICK s \in Stages : \E st \in {"completed", "failed"} :
        BoardFrom(rows) = Shown(s, st)
  BY <1>1, NumStagesAssumption DEF TokenInv, RestShown, Verdict, Stages
<1>3. \A k \in Stages : BoardOf[k] # "running"
  BY <1>2, BoardIsFromRows DEF Shown
<1>4. BoardOf' = [k \in Stages |-> "none"]
  BY DEF BoardOf, StageRows
<1>5. Board!Wipe
  BY <1>3, <1>4 DEF Board!Wipe, Board!Stages, Stages
<1> QED
  BY <1>5 DEF Board!BoardNext

LEMMA UserToken ==
  ASSUME Undisturbed, IInv, TokenInv, UserStep
  PROVE  TokenInv' /\ [Board!BoardNext]_BoardOf
<1>1. CASE AddRepo
  <2>1. AllIdle /\ ~gaveUp /\ rows = {}
    BY <1>1 DEF AddRepo, TokenInv, HandlersAlone, IInv, DeletedHasNoRows
  <2>2. UNCHANGED <<rows, broker, task, gaveUp>> /\ repo' = "registered"
        /\ api' = "enqueue"
    BY <1>1 DEF AddRepo
  <2>3. \A m \in Message : ~Queued(m)'
    BY <2>1, <2>2 DEF AllIdle, Queued
  <2>4. \A w \in Workers : ~Working(w)'
    BY <2>1, <2>2 DEF AllIdle, Working
  <2>5. HandlersAlone'
    BY <2>1, <2>2 DEF HandlersAlone, AllIdle
  <2>6. TokenInv'
    BY <2>2, <2>3, <2>4, <2>5
       DEF TokenInv, OneRowPerStage, OneToken, CleanedUp, QueuedShown, WorkShown,
           RestShown, AtRest
  <2> QED
    BY <2>2, <2>6, BoardIsFromRows
<1>2. CASE RetryOnboarding \/ DeleteRepo
  <2>1. Quiescent /\ repo = "registered" /\ rows' = {}
    BY <1>2 DEF Undisturbed, RetryOnboarding, DeleteRepo
  <2>2. /\ UNCHANGED <<broker, task>>
        /\ \/ repo' = repo /\ api' = "enqueue" /\ ~gaveUp'
           \/ repo' = "deleted" /\ api' = "rmtree"
    BY <1>2 DEF RetryOnboarding, DeleteRepo
  <2>3. \A m \in Message : ~Queued(m)'
    BY <2>1, <2>2 DEF Quiescent, Queued
  <2>4. \A w \in Workers : ~Working(w)'
    BY <2>1, <2>2 DEF Quiescent, Working
  <2>5. HandlersAlone'
    BY <2>1, <2>2 DEF HandlersAlone, AllIdle, Quiescent
  <2>6. OneRowPerStage'
    BY <2>1 DEF OneRowPerStage, OneEach
  <2>7. TokenInv'
    BY <2>2, <2>3, <2>4, <2>5, <2>6
       DEF TokenInv, OneToken, CleanedUp, QueuedShown, WorkShown, RestShown, AtRest
  <2> QED
    BY <2>1, <2>7, Wiped
<1> QED
  BY <1>1, <1>2 DEF UserStep

LEMMA HandlerToken ==
  ASSUME IInv, TokenInv, HandlerStep
  PROVE  TokenInv' /\ BoardFrom(rows)' = BoardFrom(rows)
<1>1. /\ TypeOK /\ api # "idle" /\ AllIdle
      /\ UNCHANGED <<repo, rows, task, gaveUp>>
  BY DEF IInv, HandlerStep, StartOnboarding, DeleteCheckout, DeleteGraph, TokenInv,
         HandlersAlone
<1>2. OneRowPerStage' /\ WorkShown' /\ \A w \in Workers : ~Working(w)'
  BY <1>1 DEF TokenInv, OneRowPerStage, WorkShown, Working, AllIdle
<1>3. CASE StartOnboarding
  <2>1. started + 1 \in Pipelines
    BY <1>1, <1>3, MaxPipelinesAssumption DEF StartOnboarding, TypeOK, Pipelines
  <2>2. PICK n \in Message : n = FirstMessage(started + 1) /\ n.stage = 1
                             /\ n.attempt = 0
    BY <2>1, FirstMessageType DEF FirstMessage
  <2>3. broker' = [broker EXCEPT ![n] = @ + 1] /\ api' = "idle"
    BY <1>3, <2>2 DEF StartOnboarding
  <2>4. broker \in [Message -> Nat] /\ \A m \in Message : broker[m] = 0
    BY <1>1 DEF TypeOK, AllIdle
  <2>5. \A m \in Message : broker'[m] = IF m = n THEN 1 ELSE 0
    BY <2>2, <2>3, <2>4
  <2>6. Queued(n)' /\ \A m \in Message : Queued(m)' => m = n /\ broker'[m] = 1
    BY <2>2, <2>5 DEF Queued
  <2>7. repo = "registered" /\ rows = {} /\ ~gaveUp
    BY <1>1, <1>3 DEF StartOnboarding, TokenInv, HandlersAlone, TypeOK
  <2>8. BoardFrom(rows) = Shown(n.stage, ShownBefore(n))
    BY <2>2, <2>7, EmptyBoard DEF ShownBefore
  <2>9. OneToken' /\ QueuedShown' /\ RestShown'
    BY <1>1, <1>2, <2>2, <2>6, <2>7, <2>8
       DEF OneToken, QueuedShown, RestShown, AtRest
  <2>10. HandlersAlone' /\ CleanedUp'
    BY <1>1, <2>3, <2>7 DEF HandlersAlone, CleanedUp
  <2> QED
    BY <1>1, <1>2, <2>9, <2>10 DEF TokenInv
<1>4. CASE DeleteCheckout \/ DeleteGraph
  <2>1. /\ broker' = broker /\ repo = "deleted"
        /\ \/ api = "rmtree" /\ artifacts' = artifacts \ {"checkout"} /\ api' = "graph"
           \/ api = "graph" /\ artifacts' = artifacts \ {"graph"} /\ api' = "idle"
    BY <1>1, <1>4 DEF DeleteCheckout, DeleteGraph, TokenInv, HandlersAlone, TypeOK
  <2>2. CleanedUp'
    BY <1>1, <2>1 DEF TokenInv, CleanedUp, TypeOK
  <2>3. HandlersAlone'
    BY <1>1, <2>1 DEF HandlersAlone, AllIdle
  <2>4. OneToken' /\ QueuedShown' /\ RestShown'
    BY <1>1, <1>2, <2>1
       DEF OneToken, QueuedShown, RestShown, AtRest, Queued, AllIdle
  <2> QED
    BY <1>1, <1>2, <2>2, <2>3, <2>4 DEF TokenInv
<1> QED
  BY <1>3, <1>4 DEF HandlerStep

LEMMA NextToken ==
  ASSUME Undisturbed, IInv, TokenInv, [Next]_vars
  PROVE  TokenInv' /\ [Board!BoardNext]_BoardOf
<1>1. CASE UserStep
  BY <1>1, UserToken
<1>2. CASE HandlerStep
  BY <1>2, HandlerToken, BoardIsFromRows
<1>3. CASE \E w \in Workers : WorkerStep(w)
  BY <1>3, WorkerToken
<1>4. CASE FaultStep
  <2>1. ~(faults < MaxFaults)
    BY DEF Undisturbed, IInv, TypeOK
  <2> QED
    BY <1>4, <2>1 DEF FaultStep, Fault, EnqueueFails, CleanupFails, WorkerLost,
                      ChildKilled, VisibilityTimeout, SaveLost
<1>5. CASE UNCHANGED vars
  <2>1. BoardOf' = BoardOf
    BY <1>5 DEF vars, BoardOf, StageRows
  <2> QED
    BY <1>5, <2>1
       DEF vars, TokenInv, OneRowPerStage, OneToken, HandlersAlone, CleanedUp,
           QueuedShown, WorkShown, TaskShown, StageRows, RestShown, AtRest, Verdict,
           AllIdle, Queued, Working
<1> QED
  BY <1>1, <1>2, <1>3, <1>4, <1>5 DEF Next

LEMMA TokenHolds ==
  ASSUME Undisturbed
  PROVE  Spec => [](IInv /\ TokenInv)
<1>1. Init => IInv /\ TokenInv
  BY InitInv, TokenInit
<1>2. IInv /\ TokenInv /\ [Next]_vars => (IInv /\ TokenInv)'
  BY NextInv, NextToken
<1> QED
  BY <1>1, <1>2, PTL DEF Spec

\* At rest the screen tells the outcome of the last chain, with one row per stage
\* although nothing but the order of the saves keeps a second one out.
THEOREM VerdictHolds ==
  ASSUME Undisturbed
  PROVE  Spec => []VerdictAtRest
<1>1. ASSUME IInv, TokenInv, Quiescent, repo = "registered"
      PROVE  \E n \in Stages :
               /\ {r.stage : r \in rows} = 1..n /\ Cardinality(rows) = n
               /\ \A r \in rows : r.status = IF r.stage < n \/ ~gaveUp
                                             THEN "completed" ELSE "failed"
               /\ ~gaveUp => n = NumStages
  <2>1. Verdict
    BY <1>1 DEF TokenInv, RestShown, AtRest, Quiescent, Queued, Working
  <2>2. rows \in SUBSET Row /\ OneEach(rows) /\ NumStages \in Stages
    BY <1>1, NumStagesAssumption
       DEF IInv, TypeOK, TokenInv, OneRowPerStage, Stages
  <2>3. CASE gaveUp
    <3>1. PICK s \in Stages : BoardFrom(rows) = Shown(s, "failed")
      BY <2>1, <2>3 DEF Verdict
    <3>2. /\ {r.stage : r \in rows} = 1..s /\ Cardinality(rows) = s
          /\ \A r \in rows : r.status = IF r.stage < s THEN "completed" ELSE "failed"
      BY <2>2, <3>1, RowsOfShown DEF Status
    <3> QED
      BY <2>3, <3>2
  <2>4. CASE ~gaveUp
    <3>1. BoardFrom(rows) = Shown(NumStages, "completed")
      BY <2>1, <2>4 DEF Verdict
    <3>2. /\ {r.stage : r \in rows} = 1..NumStages /\ Cardinality(rows) = NumStages
          /\ \A r \in rows : r.status = IF r.stage < NumStages THEN "completed"
                                        ELSE "completed"
      BY <2>2, <3>1, RowsOfShown DEF Status
    <3> QED
      BY <2>2, <2>4, <3>2
  <2> QED
    BY <2>3, <2>4
<1>2. IInv /\ TokenInv => VerdictAtRest
  BY <1>1 DEF VerdictAtRest
<1> QED
  BY <1>2, TokenHolds, PTL

\* A chain that gave up on a stage is not reported as still onboarding at rest.
THEOREM GivenUpIsReported ==
  ASSUME Undisturbed
  PROVE  Spec => []GivenUpIsNotOnboarding
<1>1. ASSUME IInv, TokenInv, Quiescent, gaveUp, repo = "registered"
      PROVE  RowCount("failed") # 0
  <2>1. PICK s \in Stages : BoardFrom(rows) = Shown(s, "failed")
    BY <1>1
       DEF TokenInv, RestShown, AtRest, Verdict, Quiescent, Queued, Working
  <2>2. rows \in SUBSET Row /\ OneEach(rows)
    BY <1>1 DEF IInv, TypeOK, TokenInv, OneRowPerStage
  <2>3. /\ {r.stage : r \in rows} = 1..s /\ IsFiniteSet(rows)
        /\ \A r \in rows : r.status = IF r.stage < s THEN "completed" ELSE "failed"
    BY <2>1, <2>2, RowsOfShown DEF Status
  <2>4. s \in 1..s /\ ~(s < s)
    BY DEF Stages
  <2>5. PICK r \in rows : r.stage = s
    BY <2>3, <2>4
  <2>6. r \in {q \in rows : q.status = "failed"}
    BY <2>3, <2>4, <2>5
  <2>7. IsFiniteSet({q \in rows : q.status = "failed"})
    BY <2>3, FS_Subset
  <2> QED
    BY <2>6, <2>7, FS_EmptySet DEF RowCount
<1>2. IInv /\ TokenInv => GivenUpIsNotOnboarding
  BY <1>1 DEF GivenUpIsNotOnboarding, SummaryOnboarding
<1> QED
  BY <1>2, TokenHolds, PTL

\* A repository deleted at rest leaves neither its checkout nor its graph behind.
THEOREM DeletionCleansUp ==
  ASSUME Undisturbed
  PROVE  Spec => []CheckoutAndGraphGone
<1>1. IInv /\ TokenInv => CheckoutAndGraphGone
  BY DEF TokenInv, CleanedUp, CheckoutAndGraphGone, Quiescent
<1> QED
  BY <1>1, TokenHolds, PTL

\* The pipeline implements the board of module StageBoard: every step is a step of
\* the board or leaves it alone.
THEOREM PipelineImplementsBoard ==
  ASSUME Undisturbed
  PROVE  Spec => Board!BoardInit /\ [][Board!BoardNext]_BoardOf
<1>1. Init => Board!BoardInit
  BY DEF Init, Board!BoardInit, Board!Stages, Stages, BoardOf, StageRows
<1>2. IInv /\ TokenInv /\ [Next]_vars => [Board!BoardNext]_BoardOf
  BY NextToken
<1> QED
  BY <1>1, <1>2, TokenHolds, PTL DEF Spec
=============================================================================
