-------------------------- MODULE GraphSyncProofs --------------------------
(***************************************************************************)
(* Safety properties of module GraphSync, for any files, contents, caps,   *)
(* coroutines, pushes and faults.  Type correctness holds whatever the     *)
(* coroutines do to one another.  That the manifest tells the truth about  *)
(* every file that no sync left out holds when syncs do not overlap        *)
(* (Calm); the run GraphSyncRace shows what becomes of it without.         *)
(***************************************************************************)
EXTENDS GraphSync, TLAPS

Touching == {"fill", "remove", "write"}

OneAtATime ==
  \A s, t \in Syncers : sync[s].pc # "idle" /\ sync[t].pc # "idle" => s = t

\* Between the first write of a sync and its end the manifest may be wrong.
AtRest ==
  (\A s \in Syncers : sync[s].pc \notin Touching) /\ manifest # None =>
    \A f \in Files \ leftOut : Shown(manifest, f)

Diffing(s) == sync[s].pc = "diff" => sync[s].seen = manifest /\ manifest # None

Filling(s) ==
  sync[s].pc = "fill" =>
    /\ sync[s].seen = Scanned(clone) /\ manifest = Scanned(clone)
    /\ \A f \in Files \ leftOut :
         f \notin sync[s].todo \/ clone[f] = Absent => Shown(Scanned(clone), f)

Removing(s) ==
  sync[s].pc = "remove" =>
    /\ \A f \in Files \ leftOut :
         f \notin sync[s].todo \cup sync[s].removed => Shown(Scanned(clone), f)
    /\ \A f \in sync[s].todo : Scanned(clone)[f] # Absent
    /\ \A f \in sync[s].removed : Scanned(clone)[f] = Absent

Writing(s) ==
  sync[s].pc = "write" =>
    /\ sync[s].seen = Scanned(clone)
    /\ \A f \in Files \ (sync[s].todo \cup leftOut) : Shown(Scanned(clone), f)
    /\ \A f \in sync[s].todo : Scanned(clone)[f] # Absent

\* As long as no write was lost, the graph is right wherever it should be by now.
GraphInv ==
  ~damaged =>
    /\ AtRest
    /\ \A s \in Syncers : Diffing(s) /\ Filling(s) /\ Removing(s) /\ Writing(s)

-----------------------------------------------------------------------------
(* Type correctness.                                                        *)

LEMMA Contents ==
  /\ NumVersions \in Nat /\ Absent \in Absent..NumVersions
  /\ Absent..NumVersions \subseteq Absent..Blank /\ Blank \in Absent..Blank
  /\ None \in Tree /\ IdleSync \in Sync
<1>1. NumVersions \in Nat /\ Absent = 0 /\ Blank = NumVersions + 1
  BY BoundsAssumption DEF Absent, Blank
<1>2. None \in Tree
  BY <1>1 DEF None, Tree
<1>3. IdleSync \in Sync
  BY <1>2 DEF IdleSync, Sync
<1> QED
  BY <1>1, <1>2, <1>3

LEMMA ScannedType == ASSUME TypeOK PROVE Scanned(clone) \in Tree
  BY Contents DEF TypeOK, Tree, Scanned

LEMMA TypeInit == Init => TypeOK
<1> SUFFICES ASSUME Init PROVE TypeOK
  OBVIOUS
<1>1. upstream \in Tree /\ graph \in Nodes
  BY BoundsAssumption DEF Init, Tree, Nodes, Absent, Blank
<1>2. sync \in [Syncers -> Sync]
  BY Contents DEF Init
<1>3. pushes \in 0..MaxPushes /\ faults \in 0..MaxFaults
  BY BoundsAssumption DEF Init
<1>4. clone \in Tree /\ head \in Tree /\ manifest \in Tree
  BY <1>1, Contents DEF Init
<1> QED
  BY <1>1, <1>2, <1>3, <1>4 DEF Init, TypeOK

LEMMA PullTypes ==
  ASSUME TypeOK, PullBranch \/ PullHead \/ WorkerPull
  PROVE  clone' \in Tree /\ head' \in Tree /\ detached' \in BOOLEAN
<1>1. ASSUME NEW t \in Tree, PullTo(t)
      PROVE  clone' \in Tree /\ head' \in Tree /\ detached' \in BOOLEAN
  BY <1>1 DEF TypeOK, PullTo, gitVars
<1>2. CASE PullBranch
  BY <1>1, <1>2 DEF TypeOK, PullBranch
<1>3. CASE PullHead
  BY <1>3 DEF TypeOK, PullHead, Tree
<1>4. CASE WorkerPull
  <2>1. [f \in Files |-> 1] \in Tree
    BY BoundsAssumption DEF Tree, Absent
  <2>2. PullBranch \/ PullTo([f \in Files |-> 1]) \/ UNCHANGED gitVars
    BY <1>4, MainAssumption DEF WorkerPull
  <2>3. CASE UNCHANGED gitVars
    BY <2>3 DEF TypeOK, gitVars
  <2> QED
    BY <1>1, <1>2, <2>1, <2>2, <2>3
<1> QED
  BY <1>2, <1>3, <1>4

-----------------------------------------------------------------------------
(* What each step makes of the coroutine that takes it.                     *)

\* Coroutine s moves on to p; the others stay where they are.
Moves(s, p, m, R, S, b) ==
  /\ sync' \in [Syncers -> Sync]
  /\ sync'[s] = [pc |-> p, seen |-> m, removed |-> R, todo |-> S, budget |-> b]
  /\ \A t \in Syncers \ {s} : sync'[t] = sync[t]

LEMMA Moved ==
  ASSUME TypeOK, NEW s \in Syncers, NEW p, NEW m, NEW R, NEW S, NEW b,
         Moves(s, p, m, R, S, b)
  PROVE  /\ sync' \in [Syncers -> Sync]
         /\ sync'[s].pc = p /\ sync'[s].seen = m /\ sync'[s].removed = R
         /\ sync'[s].todo = S /\ sync'[s].budget = b
         /\ \A t \in Syncers \ {s} : sync'[t] = sync[t]
  BY DEF TypeOK, Moves

LEMMA SyncFields ==
  ASSUME TypeOK, NEW s \in Syncers
  PROVE  /\ sync \in [Syncers -> Sync] /\ sync[s] \in Sync
         /\ sync[s].seen \in Tree /\ sync[s].budget \in Nat
         /\ sync[s].todo \in SUBSET Files /\ sync[s].removed \in SUBSET Files
         /\ sync[s] = [pc |-> sync[s].pc, seen |-> sync[s].seen,
                       removed |-> sync[s].removed, todo |-> sync[s].todo,
                       budget |-> sync[s].budget]
  BY DEF TypeOK, Sync

\* A step that only changes where the coroutine stands.
LEMMA MovesOn ==
  ASSUME TypeOK, NEW s \in Syncers,
         NEW p \in {"idle", "hook", "pull", "load", "full", "fill", "diff",
                    "remove", "write"},
         sync' = [sync EXCEPT ![s].pc = p]
  PROVE  Moves(s, p, sync[s].seen, sync[s].removed,
               sync[s].todo, sync[s].budget)
<1> DEFINE y == [sync[s] EXCEPT !.pc = p]
<1>1. sync[s] \in Sync /\ sync \in [Syncers -> Sync]
  BY SyncFields
<1>2. sync' = [sync EXCEPT ![s] = y]
  BY <1>1
<1>3. p \in {"idle", "hook", "pull", "load", "full", "fill", "diff", "remove",
            "write"}
  OBVIOUS
<1>4. y \in Sync
  BY <1>1, <1>3 DEF Sync
<1>5. /\ sync' \in [Syncers -> Sync] /\ sync'[s] = y
      /\ \A t \in Syncers \ {s} : sync'[t] = sync[t]
  <2> HIDE DEF y
  <2> QED
    BY <1>1, <1>2, <1>4
<1>6. sync'[s] = [pc |-> p, seen |-> sync[s].seen,
                  removed |-> sync[s].removed, todo |-> sync[s].todo,
                  budget |-> sync[s].budget]
  BY <1>1, <1>5 DEF Sync
<1> QED
  BY <1>5, <1>6 DEF Moves

LEMMA MovesToIdle ==
  ASSUME TypeOK, NEW s \in Syncers, sync' = [sync EXCEPT ![s] = IdleSync]
  PROVE  Moves(s, "idle", None, {}, {}, 0)
<1>1. sync \in [Syncers -> Sync] /\ IdleSync \in Sync
  BY SyncFields, Contents
<1>2. sync' \in [Syncers -> Sync] /\ sync'[s] = IdleSync
      /\ \A t \in Syncers \ {s} : sync'[t] = sync[t]
  BY <1>1
<1> QED
  BY <1>2 DEF Moves, IdleSync

LEMMA LoadMoves ==
  ASSUME TypeOK, NEW s \in Syncers, Load(s)
  PROVE  Moves(s, IF manifest = None THEN "full" ELSE "diff", manifest, sync[s].removed,
               sync[s].todo, sync[s].budget)
<1> DEFINE p == IF manifest = None THEN "full" ELSE "diff"
<1> DEFINE y == [sync[s] EXCEPT !.seen = manifest, !.pc = p]
<1>1. sync[s] \in Sync /\ sync \in [Syncers -> Sync]
  BY SyncFields
<1>2. sync' = [sync EXCEPT ![s] = y]
  BY <1>1 DEF Load
<1>3. manifest \in Tree /\ p \in {"full", "diff"}
  BY DEF TypeOK
<1>4. y \in Sync
  BY <1>1, <1>3 DEF Sync
<1>5. /\ sync' \in [Syncers -> Sync] /\ sync'[s] = y
      /\ \A t \in Syncers \ {s} : sync'[t] = sync[t]
  <2> HIDE DEF y
  <2> QED
    BY <1>1, <1>2, <1>4
<1>6. sync'[s] = [pc |-> IF manifest = None THEN "full" ELSE "diff", seen |-> manifest,
                  removed |-> sync[s].removed, todo |-> sync[s].todo,
                  budget |-> sync[s].budget]
  BY <1>1, <1>5 DEF Sync
<1> QED
  BY <1>5, <1>6 DEF Moves

\* FullBegin, and StoreFails in its place.
LEMMA FillMoves ==
  ASSUME TypeOK, NEW s \in Syncers,
         sync' = [sync EXCEPT ![s].pc = "fill", ![s].seen = Scanned(clone),
                              ![s].todo = Files, ![s].budget = FullCap]
  PROVE  Moves(s, "fill", Scanned(clone), sync[s].removed,
               Files, FullCap)
<1> DEFINE y == [sync[s] EXCEPT !.pc = "fill", !.seen = Scanned(clone), !.todo = Files,
                               !.budget = FullCap]
<1>1. sync[s] \in Sync /\ sync \in [Syncers -> Sync]
  BY SyncFields
<1>2. sync' = [sync EXCEPT ![s] = y]
  BY <1>1
<1>3. Scanned(clone) \in Tree /\ FullCap \in Nat
  BY CapsAssumption, ScannedType
<1>4. y \in Sync
  BY <1>1, <1>3 DEF Sync
<1>5. /\ sync' \in [Syncers -> Sync] /\ sync'[s] = y
      /\ \A t \in Syncers \ {s} : sync'[t] = sync[t]
  <2> HIDE DEF y
  <2> QED
    BY <1>1, <1>2, <1>4
<1>6. sync'[s] = [pc |-> "fill", seen |-> Scanned(clone),
                  removed |-> sync[s].removed, todo |-> Files,
                  budget |-> FullCap]
  BY <1>1, <1>5 DEF Sync
<1> QED
  BY <1>5, <1>6 DEF Moves

\* FullWrite, WriteNode and NodeFails: one file less to write.
LEMMA WriteMoves ==
  ASSUME TypeOK, NEW s \in Syncers, NEW f \in sync[s].todo, sync[s].budget > 0,
         sync' = [sync EXCEPT ![s].todo = @ \ {f}, ![s].budget = @ - 1]
  PROVE  Moves(s, sync[s].pc, sync[s].seen, sync[s].removed,
               sync[s].todo \ {f}, sync[s].budget - 1)
<1> DEFINE y == [sync[s] EXCEPT !.todo = @ \ {f}, !.budget = @ - 1]
<1>1. sync[s] \in Sync /\ sync \in [Syncers -> Sync]
  BY SyncFields
<1>2. sync' = [sync EXCEPT ![s] = y]
  BY <1>1
<1>3. sync[s].budget - 1 \in Nat /\ sync[s].todo \ {f} \in SUBSET Files
  <2>1. sync[s].budget \in Nat /\ sync[s].todo \in SUBSET Files
    BY SyncFields
  <2> QED
    BY <2>1
<1>4. y \in Sync
  BY <1>1, <1>3 DEF Sync
<1>5. /\ sync' \in [Syncers -> Sync] /\ sync'[s] = y
      /\ \A t \in Syncers \ {s} : sync'[t] = sync[t]
  <2> HIDE DEF y
  <2> QED
    BY <1>1, <1>2, <1>4
<1>6. sync'[s] = [pc |-> sync[s].pc, seen |-> sync[s].seen,
                  removed |-> sync[s].removed, todo |-> sync[s].todo \ {f},
                  budget |-> sync[s].budget - 1]
  BY <1>1, <1>5 DEF Sync
<1> QED
  BY <1>5, <1>6 DEF Moves

LEMMA RemoveMoves ==
  ASSUME TypeOK, NEW s \in Syncers, NEW f \in sync[s].removed,
         sync' = [sync EXCEPT ![s].removed = @ \ {f}]
  PROVE  Moves(s, sync[s].pc, sync[s].seen, sync[s].removed \ {f},
               sync[s].todo, sync[s].budget)
<1> DEFINE y == [sync[s] EXCEPT !.removed = @ \ {f}]
<1>1. sync[s] \in Sync /\ sync \in [Syncers -> Sync]
  BY SyncFields
<1>2. sync' = [sync EXCEPT ![s] = y]
  BY <1>1
<1>3. sync[s].removed \ {f} \in SUBSET Files
  <2>1. sync[s].removed \in SUBSET Files
    BY SyncFields
  <2> QED
    BY <2>1
<1>4. y \in Sync
  BY <1>1, <1>3 DEF Sync
<1>5. /\ sync' \in [Syncers -> Sync] /\ sync'[s] = y
      /\ \A t \in Syncers \ {s} : sync'[t] = sync[t]
  <2> HIDE DEF y
  <2> QED
    BY <1>1, <1>2, <1>4
<1>6. sync'[s] = [pc |-> sync[s].pc, seen |-> sync[s].seen,
                  removed |-> sync[s].removed \ {f}, todo |-> sync[s].todo,
                  budget |-> sync[s].budget]
  BY <1>1, <1>5 DEF Sync
<1> QED
  BY <1>5, <1>6 DEF Moves

LEMMA DiffMoves ==
  ASSUME TypeOK, NEW s \in Syncers, Diff(s), Changed(s) \cup Gone(s) # {}
  PROVE  Moves(s, "remove", sync[s].seen, Gone(s),
               Changed(s), sync[s].budget)
<1> DEFINE y == [sync[s] EXCEPT !.pc = "remove", !.todo = Changed(s),
                               !.removed = Gone(s)]
<1>1. sync[s] \in Sync /\ sync \in [Syncers -> Sync]
  BY SyncFields
<1>2. sync' = [sync EXCEPT ![s] = y]
  BY <1>1 DEF Diff
<1>3. Changed(s) \in SUBSET Files /\ Gone(s) \in SUBSET Files
  BY DEF Changed, Gone
<1>4. y \in Sync
  BY <1>1, <1>3 DEF Sync
<1>5. /\ sync' \in [Syncers -> Sync] /\ sync'[s] = y
      /\ \A t \in Syncers \ {s} : sync'[t] = sync[t]
  <2> HIDE DEF y
  <2> QED
    BY <1>1, <1>2, <1>4
<1>6. sync'[s] = [pc |-> "remove", seen |-> sync[s].seen,
                  removed |-> Gone(s), todo |-> Changed(s),
                  budget |-> sync[s].budget]
  BY <1>1, <1>5 DEF Sync
<1> QED
  BY <1>5, <1>6 DEF Moves

LEMMA ScanMoves ==
  ASSUME TypeOK, NEW s \in Syncers, Scan(s)
  PROVE  Moves(s, "write", Scanned(clone), sync[s].removed,
               sync[s].todo, ChangeCap)
<1> DEFINE y == [sync[s] EXCEPT !.pc = "write", !.seen = Scanned(clone),
                               !.budget = ChangeCap]
<1>1. sync[s] \in Sync /\ sync \in [Syncers -> Sync]
  BY SyncFields
<1>2. sync' = [sync EXCEPT ![s] = y]
  BY <1>1 DEF Scan
<1>3. Scanned(clone) \in Tree /\ ChangeCap \in Nat
  BY CapsAssumption, ScannedType
<1>4. y \in Sync
  BY <1>1, <1>3 DEF Sync
<1>5. /\ sync' \in [Syncers -> Sync] /\ sync'[s] = y
      /\ \A t \in Syncers \ {s} : sync'[t] = sync[t]
  <2> HIDE DEF y
  <2> QED
    BY <1>1, <1>2, <1>4
<1>6. sync'[s] = [pc |-> "write", seen |-> Scanned(clone),
                  removed |-> sync[s].removed, todo |-> sync[s].todo,
                  budget |-> ChangeCap]
  BY <1>1, <1>5 DEF Sync
<1> QED
  BY <1>5, <1>6 DEF Moves

-----------------------------------------------------------------------------
(* Type correctness of the steps.                                           *)

CoroutineStep(s) ==
  Start(s) \/ SyncStep(s) \/ PullFails(s) \/ LoadFails(s) \/ NodeFails(s)
  \/ StoreFails(s)

\* Every step of a coroutine is one of the moves above.
LEMMA StepMoves ==
  ASSUME TypeOK, NEW s \in Syncers, CoroutineStep(s)
  PROVE  \E p, m, R, S, b : Moves(s, p, m, R, S, b)
<1>1. CASE Start(s)
  BY <1>1, MovesOn DEF Start
<1>2. CASE HookPull(s) \/ Pull(s)
  BY <1>2, MovesOn DEF HookPull, Pull
<1>3. CASE PullFails(s)
  <2>1. \/ sync' = [sync EXCEPT ![s].pc = "idle"]
        \/ sync' = [sync EXCEPT ![s].pc = "load"]
    BY <1>3, SyncFields DEF PullFails
  <2> QED
    BY <2>1, MovesOn
<1>4. CASE Load(s)
  BY <1>4, LoadMoves
<1>5. CASE LoadFails(s)
  BY <1>5, MovesOn DEF LoadFails
<1>6. CASE FullBegin(s)
  BY <1>6, FillMoves DEF FullBegin
<1>7. CASE FullWrite(s) \/ WriteNode(s)
  <2>1. PICK f \in sync[s].todo :
          /\ sync[s].budget > 0
          /\ sync' = [sync EXCEPT ![s].todo = @ \ {f}, ![s].budget = @ - 1]
    BY <1>7 DEF FullWrite, WriteNode
  <2> QED
    BY <2>1, WriteMoves
<1>8. CASE FullEnd(s) \/ Store(s)
  BY <1>8, MovesToIdle DEF FullEnd, Store
<1>9. CASE Diff(s)
  <2>1. CASE Changed(s) \cup Gone(s) = {}
    <3>1. sync' = [sync EXCEPT ![s] = IdleSync]
      BY <1>9, <2>1 DEF Diff
    <3> QED
      BY <3>1, MovesToIdle
  <2>2. CASE Changed(s) \cup Gone(s) # {}
    BY <1>9, <2>2, DiffMoves
  <2> QED
    BY <2>1, <2>2
<1>10. CASE RemoveNode(s)
  BY <1>10, RemoveMoves DEF RemoveNode
<1>11. CASE Scan(s)
  BY <1>11, ScanMoves
<1>12. CASE NodeFails(s)
  <2>1. CASE \E f \in sync[s].removed : sync' = [sync EXCEPT ![s].removed = @ \ {f}]
    BY <2>1, RemoveMoves
  <2>2. CASE \E f \in sync[s].todo :
               /\ sync[s].budget > 0
               /\ sync' = [sync EXCEPT ![s].todo = @ \ {f}, ![s].budget = @ - 1]
    BY <2>2, WriteMoves
  <2> QED
    BY <1>12, <2>1, <2>2 DEF NodeFails
<1>13. CASE StoreFails(s)
  BY <1>13, MovesToIdle, FillMoves DEF StoreFails
<1> QED
  BY <1>1, <1>2, <1>3, <1>4, <1>5, <1>6, <1>7, <1>8, <1>9, <1>10, <1>11, <1>12,
     <1>13 DEF CoroutineStep, SyncStep

\* A node is written with a content of the clone, or without one.
LEMMA NodeTypes ==
  ASSUME TypeOK, NEW s \in Syncers, NEW f \in Files
  PROVE  /\ [graph EXCEPT ![f] = NodeOf(s, f)] \in Nodes
         /\ [graph EXCEPT ![f] = Absent] \in Nodes
<1>1. graph \in [Files -> Absent..Blank] /\ sync[s].seen[f] \in Absent..NumVersions
  BY SyncFields DEF TypeOK, Nodes, Tree
<1>2. NodeOf(s, f) \in Absent..Blank /\ Absent \in Absent..Blank
  BY <1>1, Contents DEF NodeOf
<1> QED
  BY <1>1, <1>2 DEF Nodes

LEMMA TypeStep == TypeOK /\ [Next]_vars => TypeOK'
<1> SUFFICES ASSUME TypeOK, [Next]_vars PROVE TypeOK'
  OBVIOUS
<1>0. MaxPushes \in Nat /\ MaxFaults \in Nat
  BY BoundsAssumption
<1>1. ASSUME NEW f \in Files, NEW v \in Absent..NumVersions, Push(f, v)
      PROVE  TypeOK'
  <2>1. upstream' \in Tree /\ pushes' \in 0..MaxPushes
    BY <1>0, <1>1 DEF Push, TypeOK, Tree
  <2> QED
    BY <1>1, <2>1 DEF Push, TypeOK, gitVars
<1>2. CASE WorkerPull
  <2>1. UNCHANGED <<upstream, graph, manifest, sync, pushes, faults, leftOut, damaged>>
    BY <1>2 DEF WorkerPull
  <2> QED
    BY <1>2, <2>1, PullTypes DEF TypeOK
<1>3. ASSUME NEW s \in Syncers, CoroutineStep(s)
      PROVE  TypeOK'
  <2>1. sync' \in [Syncers -> Sync]
    BY <1>3, StepMoves, Moved
  <2>2. CASE Start(s) \/ Load(s) \/ FullEnd(s) \/ Diff(s) \/ Scan(s)
    BY <2>1, <2>2 DEF TypeOK, Start, Load, FullEnd, Diff, Scan, Present, gitVars
  <2>3. CASE HookPull(s) \/ Pull(s)
    <3>1. PullBranch \/ PullHead
      BY <2>3 DEF HookPull, Pull
    <3> QED
      BY <2>1, <2>3, <3>1, PullTypes DEF TypeOK, HookPull, Pull
  <2>4. CASE FullBegin(s)
    BY <2>1, <2>4, ScannedType DEF TypeOK, FullBegin, Present, gitVars
  <2>5. CASE FullWrite(s) \/ RemoveNode(s) \/ WriteNode(s)
    <3>1. graph' \in Nodes
      <4>1. sync[s].todo \subseteq Files /\ sync[s].removed \subseteq Files
            /\ graph \in Nodes
        BY SyncFields DEF TypeOK
      <4>2. CASE graph' = graph
        BY <4>1, <4>2
      <4>3. CASE \E f \in sync[s].todo : graph' = [graph EXCEPT ![f] = NodeOf(s, f)]
        BY <4>1, <4>3, NodeTypes
      <4>4. CASE \E f \in sync[s].removed : graph' = [graph EXCEPT ![f] = Absent]
        BY <4>1, <4>4, NodeTypes
      <4> QED
        BY <2>5, <4>2, <4>3, <4>4 DEF FullWrite, RemoveNode, WriteNode
    <3> QED
      BY <2>1, <2>5, <3>1 DEF TypeOK, FullWrite, RemoveNode, WriteNode, gitVars
  <2>6. CASE Store(s)
    BY <2>1, <2>6, SyncFields DEF TypeOK, Store, gitVars
  <2>7. CASE PullFails(s) \/ LoadFails(s) \/ NodeFails(s)
    <3>1. faults' \in 0..MaxFaults
      BY <1>0, <2>7 DEF PullFails, LoadFails, NodeFails, Fault, TypeOK
    <3> QED
      BY <2>1, <2>7, <3>1 DEF TypeOK, PullFails, LoadFails, NodeFails, gitVars
  <2>8. CASE StoreFails(s)
    <3>1. faults' \in 0..MaxFaults /\ leftOut' \subseteq Files
      BY <1>0, <2>8 DEF StoreFails, Fault, TypeOK, Present
    <3> QED
      BY <2>1, <2>8, <3>1 DEF TypeOK, StoreFails, gitVars
  <2> QED
    BY <1>3, <2>2, <2>3, <2>4, <2>5, <2>6, <2>7, <2>8 DEF CoroutineStep, SyncStep
<1>4. CASE Restart
  <2>1. faults' \in 0..MaxFaults /\ damaged' \in BOOLEAN
    BY <1>0, <1>4 DEF Restart, Fault, TypeOK
  <2>2. sync' \in [Syncers -> Sync]
    BY <1>4, Contents DEF Restart
  <2> QED
    BY <1>4, <2>1, <2>2 DEF Restart, TypeOK, gitVars
<1>5. CASE UNCHANGED vars
  BY <1>5 DEF vars, gitVars, TypeOK
<1> QED
  BY <1>1, <1>2, <1>3, <1>4, <1>5 DEF Next, FaultStep, CoroutineStep

\* Trees, nodes and syncs keep their types, however pulls and syncs interleave.
THEOREM TypeCorrect == Spec => []TypeOK
  BY TypeInit, TypeStep, PTL DEF Spec

-----------------------------------------------------------------------------
(* The manifest.  A sync that runs alone is followed through its steps: what *)
(* Here(s) says of coroutine s is all that GraphInv says while it runs.      *)

OthersIdle(s) == \A t \in Syncers \ {s} : sync[t].pc = "idle"

Resting(s) ==
  sync[s].pc \notin Touching /\ manifest # None =>
    \A f \in Files \ leftOut : Shown(manifest, f)

Here(s) == Resting(s) /\ Diffing(s) /\ Filling(s) /\ Removing(s) /\ Writing(s)

LEMMA GraphInit == Init => OneAtATime /\ GraphInv
  BY DEF Init, OneAtATime, GraphInv, IdleSync, AtRest, Diffing, Filling, Removing,
         Writing

LEMMA HereNow ==
  ASSUME GraphInv, ~damaged, NEW s \in Syncers, OthersIdle(s)
  PROVE  Here(s)
<1>1. sync[s].pc \notin Touching => \A t \in Syncers : sync[t].pc \notin Touching
  BY DEF OthersIdle, Touching
<1> QED
  BY <1>1 DEF GraphInv, Here, AtRest, Resting

LEMMA HereNext ==
  ASSUME NEW s \in Syncers, OthersIdle(s), ~damaged' => Here(s)',
         \A t \in Syncers \ {s} : sync'[t] = sync[t]
  PROVE  GraphInv'
<1> SUFFICES ASSUME ~damaged' PROVE GraphInv'
  BY DEF GraphInv
<1>1. AtRest'
  BY DEF AtRest, Here, Resting
<1>2. ASSUME NEW t \in Syncers
      PROVE  (Diffing(t) /\ Filling(t) /\ Removing(t) /\ Writing(t))'
  <2>1. CASE t = s
    BY <2>1 DEF Here
  <2>2. CASE t # s
    <3>1. sync'[t].pc = "idle"
      BY <2>2 DEF OthersIdle
    <3> QED
      BY <3>1 DEF Diffing, Filling, Removing, Writing
  <2> QED
    BY <2>1, <2>2
<1> QED
  BY <1>1, <1>2 DEF GraphInv

\* When syncs do not overlap, whoever takes a step is alone.
LEMMA Alone ==
  ASSUME Calm, TypeOK, OneAtATime, NEW s \in Syncers, CoroutineStep(s)
  PROVE  OthersIdle(s) /\ OneAtATime'
<1>1. OthersIdle(s)
  <2>1. CASE Start(s)
    BY <2>1 DEF Start, Idle, OthersIdle
  <2>2. CASE ~Start(s)
    <3>1. sync[s].pc # "idle"
      BY <2>2 DEF CoroutineStep, SyncStep, HookPull, Pull, Load, FullBegin,
         FullWrite, FullEnd, Diff, RemoveNode, Scan, WriteNode, Store, PullFails,
         LoadFails, NodeFails, StoreFails
    <3> QED
      BY <3>1 DEF OneAtATime, OthersIdle
  <2> QED
    BY <2>1, <2>2
<1>2. \A t \in Syncers \ {s} : sync'[t] = sync[t]
  BY StepMoves, Moved
<1> QED
  BY <1>1, <1>2 DEF OthersIdle, OneAtATime

LEMMA ScannedUnchanged ==
  ASSUME UNCHANGED clone
  PROVE  Scanned(clone)' = Scanned(clone)
  BY DEF Scanned

\* A node written after a scan of the clone shows what the scan listed.
LEMMA Written ==
  ASSUME TypeOK, NEW s \in Syncers, NEW f \in Files, UNCHANGED clone,
         sync[s].seen = Scanned(clone), graph' = [graph EXCEPT ![f] = NodeOf(s, f)]
  PROVE  /\ Shown(Scanned(clone), f)'
         /\ \A g \in Files \ {f} : graph'[g] = graph[g]
<1>1. graph \in [Files -> Absent..Blank]
  BY DEF TypeOK, Nodes
<1>2. graph'[f] = NodeOf(s, f) /\ \A g \in Files \ {f} : graph'[g] = graph[g]
  BY <1>1
<1> QED
  BY <1>2, ScannedUnchanged DEF Shown, NodeOf

\* The steps up to the first write leave graph and manifest alone.
LEMMA HereBefore ==
  ASSUME TypeOK, NEW s \in Syncers, Here(s),
         \/ Start(s) \/ HookPull(s) \/ Pull(s) \/ Load(s)
         \/ PullFails(s) \/ LoadFails(s)
  PROVE  Here(s)'
<1>1. UNCHANGED <<graph, manifest, leftOut>>
  BY DEF Start, HookPull, Pull, Load, PullFails, LoadFails
<1>2. sync[s].pc \notin Touching
  BY DEF Start, HookPull, Pull, Load, PullFails, LoadFails, Touching
<1>3. CASE Load(s)
  <2>1. sync'[s].pc = (IF manifest = None THEN "full" ELSE "diff")
        /\ sync'[s].seen = manifest
    BY <1>3, LoadMoves, Moved
  <2> QED
    BY <1>1, <1>2, <2>1 DEF Here, Resting, Diffing, Filling, Removing, Writing,
       Touching, Shown
<1>4. CASE ~Load(s)
  <2>1. sync' = [sync EXCEPT ![s].pc = "hook"] \/ sync' = [sync EXCEPT ![s].pc = "pull"]
        \/ sync' = [sync EXCEPT ![s].pc = "load"] \/ sync' = [sync EXCEPT ![s].pc = "full"]
        \/ sync' = [sync EXCEPT ![s].pc = "idle"]
    BY <1>4, SyncFields DEF Start, HookPull, Pull, PullFails, LoadFails
  <2>2. sync'[s].pc \in {"hook", "pull", "load", "full", "idle"}
    BY <2>1, MovesOn, Moved
  <2> QED
    BY <1>1, <1>2, <2>2 DEF Here, Resting, Diffing, Filling, Removing, Writing,
       Touching, Shown
<1> QED
  BY <1>3, <1>4

LEMMA HereFull ==
  ASSUME TypeOK, NEW s \in Syncers, Here(s),
         FullBegin(s) \/ FullWrite(s) \/ FullEnd(s)
  PROVE  Here(s)'
<1>1. CASE FullBegin(s)
  <2>1. sync'[s].pc = "fill" /\ sync'[s].seen = Scanned(clone) /\ sync'[s].todo = Files
    <3>1. Moves(s, "fill", Scanned(clone), sync[s].removed, Files, FullCap)
      BY <1>1, FillMoves DEF FullBegin
    <3> QED
      BY <3>1, Moved
  <2>2. manifest' = Scanned(clone) /\ clone' = clone /\ graph' = graph
        /\ leftOut' = leftOut \cup (Present(graph) \ Present(clone))
    BY <1>1 DEF FullBegin, gitVars
  <2>3. ASSUME NEW f \in Files \ leftOut', clone[f] = Absent
        PROVE  Shown(Scanned(clone), f)'
    BY <2>2, <2>3 DEF Shown, Scanned, Present
  <2> QED
    BY <2>1, <2>2, <2>3, ScannedUnchanged
       DEF Here, Resting, Diffing, Filling, Removing, Writing, Touching
<1>2. CASE FullWrite(s)
  <2>1. PICK f \in sync[s].todo \cap Present(clone) :
          /\ graph' = [graph EXCEPT ![f] = NodeOf(s, f)]
          /\ sync' = [sync EXCEPT ![s].todo = @ \ {f}, ![s].budget = @ - 1]
          /\ leftOut' = leftOut \ {f}
    BY <1>2 DEF FullWrite
  <2>2. /\ sync[s].pc = "fill" /\ sync[s].budget > 0
        /\ UNCHANGED <<clone, manifest>>
    BY <1>2 DEF FullWrite, gitVars
  <2>3. sync'[s].pc = "fill" /\ sync'[s].seen = sync[s].seen
        /\ sync'[s].todo = sync[s].todo \ {f}
    <3>1. Moves(s, sync[s].pc, sync[s].seen, sync[s].removed, sync[s].todo \ {f},
                sync[s].budget - 1)
      BY <2>1, <2>2, WriteMoves
    <3> QED
      BY <2>2, <3>1, Moved
  <2>4. /\ sync[s].seen = Scanned(clone) /\ manifest = Scanned(clone)
        /\ \A g \in Files \ leftOut :
             g \notin sync[s].todo \/ clone[g] = Absent => Shown(Scanned(clone), g)
    BY <2>2 DEF Here, Filling
  <2>5. Shown(Scanned(clone), f)' /\ clone[f] # Absent
        /\ \A g \in Files \ {f} : graph'[g] = graph[g]
    BY <2>1, <2>2, <2>4, Written, SyncFields DEF Present
  <2>6. ASSUME NEW g \in Files \ leftOut', g \notin sync'[s].todo \/ clone'[g] = Absent
        PROVE  Shown(Scanned(clone), g)'
    <3>1. CASE g = f
      BY <2>5, <3>1
    <3>2. CASE g # f
      <4>1. Shown(Scanned(clone), g)
        BY <2>1, <2>2, <2>3, <2>4, <2>6, <3>2
      <4> QED
        BY <2>2, <2>5, <3>2, <4>1, ScannedUnchanged DEF Shown
    <3> QED
      BY <3>1, <3>2
  <2> QED
    BY <2>2, <2>3, <2>4, <2>6, ScannedUnchanged
       DEF Here, Resting, Diffing, Filling, Removing, Writing, Touching
<1>3. CASE FullEnd(s)
  <2>1. sync'[s].pc = "idle" /\ UNCHANGED <<graph, manifest>>
        /\ leftOut' = leftOut \cup (sync[s].todo \cap Present(clone))
    BY <1>3, MovesToIdle, Moved DEF FullEnd
  <2>2. /\ manifest = Scanned(clone)
        /\ \A g \in Files \ leftOut :
             g \notin sync[s].todo \/ clone[g] = Absent => Shown(Scanned(clone), g)
    BY <1>3 DEF FullEnd, Here, Filling
  <2>3. \A f \in Files \ leftOut' : Shown(manifest, f)
    BY <2>1, <2>2 DEF Present
  <2> QED
    BY <2>1, <2>3 DEF Here, Resting, Diffing, Filling, Removing, Writing, Shown
<1> QED
  BY <1>1, <1>2, <1>3

LEMMA HereDiff ==
  ASSUME TypeOK, NEW s \in Syncers, Here(s), Diff(s)
  PROVE  Here(s)'
<1>1. sync[s].pc = "diff" /\ UNCHANGED <<clone, graph, manifest, leftOut>>
  BY DEF Diff, gitVars
<1>2. sync[s].seen = manifest /\ manifest # None
      /\ \A f \in Files \ leftOut : Shown(manifest, f)
  BY <1>1 DEF Here, Diffing, Resting, Touching
<1>3. CASE Changed(s) \cup Gone(s) = {}
  <2>1. sync' = [sync EXCEPT ![s] = IdleSync]
    BY <1>3 DEF Diff
  <2>2. Moves(s, "idle", None, {}, {}, 0)
    BY <2>1, MovesToIdle
  <2>3. sync'[s].pc = "idle"
    BY <2>2, Moved
  <2> QED
    BY <1>1, <1>2, <2>3 DEF Here, Resting, Diffing, Filling, Removing, Writing, Shown
<1>4. CASE Changed(s) \cup Gone(s) # {}
  <2>1. Moves(s, "remove", sync[s].seen, Gone(s), Changed(s), sync[s].budget)
    BY <1>4, DiffMoves
  <2>2. sync'[s].pc = "remove" /\ sync'[s].todo = Changed(s)
        /\ sync'[s].removed = Gone(s)
    BY <2>1, Moved
  <2>3. /\ \A f \in Changed(s) : Scanned(clone)[f] # Absent
        /\ \A f \in Gone(s) : Scanned(clone)[f] = Absent
    BY DEF Changed, Gone
  <2>4. ASSUME NEW f \in Files \ leftOut, f \notin Changed(s) \cup Gone(s)
        PROVE  Shown(Scanned(clone), f)
    <3>1. Scanned(clone)[f] = manifest[f]
      BY <1>2, <2>4 DEF Changed, Gone
    <3> QED
      BY <1>2, <3>1 DEF Shown
  <2>5. \A f \in Files \ leftOut' :
          f \notin Changed(s) \cup Gone(s) => Shown(Scanned(clone), f)'
    BY <1>1, <2>4, ScannedUnchanged DEF Shown
  <2> QED
    BY <1>1, <2>2, <2>3, <2>5, ScannedUnchanged DEF Here, Resting, Diffing, Filling,
       Removing, Writing, Touching
<1> QED
  BY <1>3, <1>4

LEMMA HereWrites ==
  ASSUME TypeOK, NEW s \in Syncers, Here(s),
         RemoveNode(s) \/ Scan(s) \/ WriteNode(s) \/ Store(s)
  PROVE  Here(s)'
<1>1. CASE RemoveNode(s)
  <2>1. PICK f \in sync[s].removed :
          /\ graph' = [graph EXCEPT ![f] = Absent]
          /\ sync' = [sync EXCEPT ![s].removed = @ \ {f}]
          /\ leftOut' = leftOut \ {f}
    BY <1>1 DEF RemoveNode
  <2>2. sync[s].pc = "remove" /\ UNCHANGED <<clone, manifest>>
    BY <1>1 DEF RemoveNode, gitVars
  <2>3. Moves(s, sync[s].pc, sync[s].seen, sync[s].removed \ {f}, sync[s].todo,
              sync[s].budget)
    BY <2>1, RemoveMoves
  <2>4. sync'[s].pc = "remove" /\ sync'[s].removed = sync[s].removed \ {f}
        /\ sync'[s].todo = sync[s].todo
    BY <2>2, <2>3, Moved
  <2>5. /\ \A g \in Files \ leftOut :
             g \notin sync[s].todo \cup sync[s].removed => Shown(Scanned(clone), g)
        /\ \A g \in sync[s].todo : Scanned(clone)[g] # Absent
        /\ \A g \in sync[s].removed : Scanned(clone)[g] = Absent
    BY <2>2 DEF Here, Removing
  <2>6. graph'[f] = Absent /\ \A g \in Files \ {f} : graph'[g] = graph[g]
    <3>1. graph \in [Files -> Absent..Blank] /\ f \in Files
      BY <2>1, SyncFields DEF TypeOK, Nodes
    <3> QED
      BY <2>1, <3>1
  <2>7. ASSUME NEW g \in Files \ leftOut', g \notin sync'[s].todo \cup sync'[s].removed
        PROVE  Shown(Scanned(clone), g)'
    <3>1. CASE g = f
      <4>1. Scanned(clone)[g] = Absent
        BY <2>1, <2>5, <3>1
      <4> QED
        BY <2>2, <2>6, <3>1, <4>1, ScannedUnchanged DEF Shown
    <3>2. CASE g # f
      <4>1. Shown(Scanned(clone), g)
        BY <2>1, <2>4, <2>5, <2>7, <3>2
      <4> QED
        BY <2>2, <2>6, <3>2, <4>1, ScannedUnchanged DEF Shown
    <3> QED
      BY <3>1, <3>2
  <2> QED
    BY <2>2, <2>4, <2>5, <2>7, ScannedUnchanged
       DEF Here, Resting, Diffing, Filling, Removing, Writing, Touching
<1>2. CASE Scan(s)
  <2>1. sync[s].pc = "remove" /\ sync[s].removed = {}
        /\ UNCHANGED <<clone, graph, manifest, leftOut>>
    BY <1>2 DEF Scan, gitVars
  <2>2. Moves(s, "write", Scanned(clone), sync[s].removed, sync[s].todo, ChangeCap)
    BY <1>2, ScanMoves
  <2>3. sync'[s].pc = "write" /\ sync'[s].seen = Scanned(clone)
        /\ sync'[s].todo = sync[s].todo
    BY <2>2, Moved
  <2>4. /\ \A g \in Files \ (sync[s].todo \cup leftOut) : Shown(Scanned(clone), g)
        /\ \A g \in sync[s].todo : Scanned(clone)[g] # Absent
    BY <2>1 DEF Here, Removing
  <2>5. \A g \in Files \ (sync[s].todo \cup leftOut)' : Shown(Scanned(clone), g)'
    BY <2>1, <2>3, <2>4, ScannedUnchanged DEF Shown
  <2> QED
    BY <2>1, <2>3, <2>4, <2>5, ScannedUnchanged DEF Here, Resting, Diffing, Filling,
       Removing, Writing, Touching
<1>3. CASE WriteNode(s)
  <2>1. PICK f \in sync[s].todo :
          /\ sync' = [sync EXCEPT ![s].todo = @ \ {f}, ![s].budget = @ - 1]
          /\ f \in Present(clone) => /\ graph' = [graph EXCEPT ![f] = NodeOf(s, f)]
                                     /\ leftOut' = leftOut \ {f}
    BY <1>3 DEF WriteNode
  <2>2. /\ sync[s].pc = "write" /\ sync[s].budget > 0
        /\ UNCHANGED <<clone, manifest>>
    BY <1>3 DEF WriteNode, gitVars
  <2>3. sync'[s].pc = "write" /\ sync'[s].seen = sync[s].seen
        /\ sync'[s].todo = sync[s].todo \ {f}
    <3>1. Moves(s, sync[s].pc, sync[s].seen, sync[s].removed, sync[s].todo \ {f},
                sync[s].budget - 1)
      BY <2>1, <2>2, WriteMoves
    <3> QED
      BY <2>2, <3>1, Moved
  <2>4. /\ sync[s].seen = Scanned(clone)
        /\ \A g \in Files \ (sync[s].todo \cup leftOut) : Shown(Scanned(clone), g)
        /\ \A g \in sync[s].todo : Scanned(clone)[g] # Absent
    BY <2>2 DEF Here, Writing
  <2>5. f \in Present(clone)
    <3>1. f \in Files /\ Scanned(clone)[f] # Absent
      BY <2>4, SyncFields
    <3> QED
      BY <3>1 DEF Scanned, Present
  <2>6. Shown(Scanned(clone), f)' /\ \A g \in Files \ {f} : graph'[g] = graph[g]
    BY <2>1, <2>2, <2>4, <2>5, Written, SyncFields
  <2>7. ASSUME NEW g \in Files \ (sync'[s].todo \cup leftOut')
        PROVE  Shown(Scanned(clone), g)'
    <3>1. CASE g = f
      BY <2>6, <3>1
    <3>2. CASE g # f
      <4>1. Shown(Scanned(clone), g)
        BY <2>1, <2>3, <2>4, <2>5, <3>2
      <4> QED
        BY <2>2, <2>6, <3>2, <4>1, ScannedUnchanged DEF Shown
    <3> QED
      BY <3>1, <3>2
  <2> QED
    BY <2>2, <2>3, <2>4, <2>7, ScannedUnchanged
       DEF Here, Resting, Diffing, Filling, Removing, Writing, Touching
<1>4. CASE Store(s)
  <2>1. /\ sync[s].pc = "write" /\ manifest' = sync[s].seen
        /\ leftOut' = leftOut \cup sync[s].todo /\ UNCHANGED graph
    BY <1>4 DEF Store
  <2>2. Moves(s, "idle", None, {}, {}, 0)
    BY <1>4, MovesToIdle DEF Store
  <2>3. sync'[s].pc = "idle"
    BY <2>2, Moved
  <2>4. /\ sync[s].seen = Scanned(clone)
        /\ \A g \in Files \ (sync[s].todo \cup leftOut) : Shown(Scanned(clone), g)
    BY <2>1 DEF Here, Writing
  <2>5. \A g \in Files \ leftOut' : Shown(manifest, g)'
    BY <2>1, <2>4 DEF Shown
  <2> QED
    BY <2>3, <2>5 DEF Here, Resting, Diffing, Filling, Removing, Writing
<1> QED
  BY <1>1, <1>2, <1>3, <1>4

LEMMA GraphStep ==
  ASSUME Calm
  PROVE  TypeOK /\ OneAtATime /\ GraphInv /\ [Next]_vars => OneAtATime' /\ GraphInv'
<1> SUFFICES ASSUME TypeOK, OneAtATime, GraphInv, [Next]_vars
             PROVE  OneAtATime' /\ GraphInv'
  OBVIOUS
<1>1. ASSUME NEW s \in Syncers, CoroutineStep(s)
      PROVE  OneAtATime' /\ GraphInv'
  <2>1. OthersIdle(s) /\ OneAtATime'
    BY <1>1, Alone
  <2>2. \A t \in Syncers \ {s} : sync'[t] = sync[t]
    BY <1>1, StepMoves, Moved
  <2>3. ASSUME ~damaged'
        PROVE  Here(s)'
    <3>1. ~NodeFails(s) /\ ~StoreFails(s)
      BY <2>3 DEF NodeFails, StoreFails
    <3>2. ~damaged
      BY <1>1, <2>3, <3>1 DEF CoroutineStep, SyncStep, Start, HookPull, Pull, Load,
         FullBegin, FullWrite, FullEnd, Diff, RemoveNode, Scan, WriteNode, Store,
         PullFails, LoadFails
    <3>3. Here(s)
      BY <2>1, <3>2, HereNow
    <3> QED
      BY <1>1, <3>1, <3>3, HereBefore, HereFull, HereDiff, HereWrites
         DEF CoroutineStep, SyncStep
  <2>4. GraphInv'
    BY <2>1, <2>2, <2>3, HereNext
  <2> QED
    BY <2>1, <2>4
<1>2. CASE WorkerPull
  <2>1. \A s \in Syncers : sync[s].pc = "idle"
    BY <1>2 DEF WorkerPull, Idle
  <2>2. UNCHANGED <<graph, manifest, sync, leftOut, damaged>>
    BY <1>2 DEF WorkerPull
  <2> QED
    BY <2>1, <2>2 DEF OneAtATime, GraphInv, AtRest, Diffing, Filling, Removing,
       Writing, Shown
<1>3. CASE Restart
  <2>1. \A s \in Syncers : sync'[s].pc = "idle"
    BY <1>3 DEF Restart, IdleSync
  <2>2. UNCHANGED <<graph, manifest, leftOut>>
        /\ damaged' = (damaged \/ \E s \in Syncers : sync[s].pc \in Touching)
    BY <1>3 DEF Restart, Touching
  <2>3. ~damaged' => AtRest'
    BY <2>2 DEF GraphInv, AtRest, Shown
  <2> QED
    BY <2>1, <2>3 DEF OneAtATime, GraphInv, Diffing, Filling, Removing, Writing
<1>4. ASSUME UNCHANGED <<gitVars, graph, manifest, sync, leftOut, damaged>>
      PROVE  OneAtATime' /\ GraphInv'
  BY <1>4 DEF gitVars, OneAtATime, GraphInv, AtRest, Diffing, Filling, Removing,
     Writing, Shown
<1>5. ASSUME NEW f \in Files, NEW v \in Absent..NumVersions, Push(f, v)
      PROVE  OneAtATime' /\ GraphInv'
  BY <1>4, <1>5 DEF Push
<1>6. CASE UNCHANGED vars
  BY <1>4, <1>6 DEF vars
<1> QED
  BY <1>1, <1>2, <1>3, <1>5, <1>6 DEF Next, FaultStep, CoroutineStep

LEMMA GraphInvariance == ASSUME Calm PROVE Spec => [](OneAtATime /\ GraphInv)
<1>1. Init => TypeOK /\ OneAtATime /\ GraphInv
  BY TypeInit, GraphInit
<1>2. TypeOK /\ OneAtATime /\ GraphInv /\ [Next]_vars
        => (TypeOK /\ OneAtATime /\ GraphInv)'
  BY TypeStep, GraphStep
<1> QED
  BY <1>1, <1>2, PTL DEF Spec

-----------------------------------------------------------------------------
\* When syncs take turns, then between them, whatever was pushed, whichever files a
\* scan skips and whichever syncs were given up before they wrote, the manifest lists
\* the contents that the graph really has, except for the files that a sync left out
\* for its cap or because they were gone before a full sync.
THEOREM ManifestTellsTheTruth ==
  ASSUME Calm
  PROVE  Spec => []ManifestTruthful
<1>1. GraphInv => ManifestTruthful
  BY DEF GraphInv, AtRest, Shown, ManifestTruthful, Idle, Touching
<1> QED
  BY <1>1, GraphInvariance, PTL

\* When syncs take turns, the manifest that an incremental sync is about to store is
\* true of every file that it no longer has to write and that no earlier sync left
\* out (_sync_repo: the diff and the second scan agree, whatever the caps are).
THEOREM IncrementalMissesNothing ==
  ASSUME Calm
  PROVE  Spec => []NothingMissed
<1>1. GraphInv => NothingMissed
  BY DEF GraphInv, Writing, Shown, NothingMissed
<1> QED
  BY <1>1, GraphInvariance, PTL
=============================================================================
