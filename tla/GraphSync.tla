----------------------------- MODULE GraphSync -----------------------------
(***************************************************************************)
(* Keeping the File nodes of one repository's knowledge graph in step with *)
(* GitHub: the pull and the incremental sync of AutoSyncEngine             *)
(* (services/agent/auto_sync.py, services/knowledge/incremental_graph.py,  *)
(* repo_manifest.py).                                                      *)
(*                                                                         *)
(* A sync compares the clone with the manifest stored beside the graph,    *)
(* writes the nodes one by one and stores the manifest of a second scan.   *)
(* The poller, a webhook and the git_pull worker share the clone without   *)
(* any lock.  Every error of the graph database is swallowed, and so is    *)
(* every error of the checkout in a pull (utils/git.py).                   *)
(***************************************************************************)
EXTENDS Naturals, FiniteSets

CONSTANTS
  Files,        \* paths of the repository
  NumVersions,  \* bound: contents a file may have, numbered from 1
  Skipped,      \* contents no scan lists: over 10 MB, or unreadable
  Main,         \* what the branch "main" of the repository is
  ChangeCap,    \* changed files written by one incremental sync (200)
  FullCap,      \* files written by one full sync (500)
  Syncers,      \* coroutines that may sync the repository
  Hooks,        \* those of them that a webhook started
  MaxPushes,    \* bound: files changed on GitHub
  MaxFaults,    \* bound: faults in one behaviour
  Calm          \* TRUE: no sync or pull begins while a sync is in progress

ASSUME BoundsAssumption ==
  /\ NumVersions \in Nat \ {0} /\ MaxPushes \in Nat /\ MaxFaults \in Nat
ASSUME CapsAssumption == ChangeCap \in Nat \ {0} /\ FullCap \in Nat \ {0}
ASSUME CalmAssumption == Calm \in BOOLEAN
ASSUME SkippedAssumption == Skipped \subseteq 1..NumVersions
ASSUME MainAssumption == Main \in {"default", "missing", "another"}
ASSUME HooksAssumption == Hooks \subseteq Syncers

VARIABLES
  upstream,   \* the default branch on GitHub
  clone,      \* the working tree and the index under /data/repos
  head,       \* the tree of the commit at HEAD of the clone
  detached,   \* whether HEAD names a commit instead of the branch
  graph,      \* the sha of each file's node
  manifest,   \* the stored manifest; no entries is the same as none stored
  sync,       \* sync[s]: where coroutine s stands
  pushes,     \* files changed on GitHub so far
  faults,     \* faults so far
  leftOut,    \* history: files whose node a sync should have changed and did not,
              \*   for its cap or because a full sync removes none
  damaged     \* history: a node or the manifest was not written as it should be

gitVars == <<clone, head, detached>>
vars == <<upstream, gitVars, graph, manifest, sync, pushes, faults, leftOut,
          damaged>>

Absent == 0                  \* no file, no node, no entry
Blank  == NumVersions + 1    \* a node without sha: no scan listed the file

Tree  == [Files -> Absent..NumVersions]
Nodes == [Files -> Absent..Blank]
None  == [f \in Files |-> Absent]

Sync == [pc : {"idle", "hook", "pull", "load", "full", "fill", "diff", "remove",
               "scan", "write", "store"},
         seen    : Tree,            \* the manifest loaded, then the last scan
         removed : SUBSET Files,    \* nodes still to be deleted
         todo    : SUBSET Files,    \* nodes still to be written
         budget  : Nat]             \* files that may still be written

IdleSync == [pc |-> "idle", seen |-> None, removed |-> {}, todo |-> {},
             budget |-> 0]

TypeOK ==
  /\ upstream \in Tree /\ manifest \in Tree
  /\ clone \in Tree /\ head \in Tree /\ detached \in BOOLEAN
  /\ graph \in Nodes
  /\ sync \in [Syncers -> Sync]
  /\ pushes \in 0..MaxPushes /\ faults \in 0..MaxFaults
  /\ leftOut \subseteq Files /\ damaged \in BOOLEAN

Present(tree) == {f \in Files : tree[f] # Absent}

\* What a scan of a tree lists.
Scanned(tree) ==
  [f \in Files |-> IF tree[f] \in Skipped THEN Absent ELSE tree[f]]

\* Onboarding has cloned the repository and written nodes without sha for as many
\* of its files as a full sync would take; there is no manifest.
Init ==
  /\ upstream \in [Files -> {Absent, 1}]
  /\ clone = upstream /\ head = upstream /\ detached = FALSE
  /\ \E S \in SUBSET Present(upstream) :
       /\ Cardinality(S) <= FullCap
       /\ Cardinality(S) = FullCap \/ S = Present(upstream)
       /\ graph = [f \in Files |-> IF f \in S THEN Blank ELSE Absent]
  /\ manifest = None
  /\ sync = [s \in Syncers |-> IdleSync]
  /\ pushes = 0 /\ faults = 0
  /\ leftOut = {} /\ damaged = FALSE

Idle == \A s \in Syncers : sync[s].pc = "idle"

-----------------------------------------------------------------------------
(* The clone.                                                               *)

\* A commit on GitHub writes or removes a file; earlier contents may come back.
Push(f, v) ==
  /\ pushes < MaxPushes /\ upstream[f] # v
  /\ upstream' = [upstream EXCEPT ![f] = v]
  /\ pushes' = pushes + 1
  /\ UNCHANGED <<gitVars, graph, manifest, sync, faults, leftOut, damaged>>

\* A safe checkout of a tree refuses if it changes a file that the clone has in
\* neither the version of HEAD nor the one to be checked out.
Refused(tree) ==
  \E f \in Files : tree[f] # head[f] /\ clone[f] \notin {head[f], tree[f]}

\* clone_or_pull by the name of a branch: the checkout of the remote branch, with
\* this tree, detaches HEAD, and a hard reset follows.
PullTo(tree) ==
  IF Refused(tree) THEN UNCHANGED gitVars
  ELSE clone' = tree /\ head' = tree /\ detached' = TRUE

\* By the recorded name of the default branch.
PullBranch == PullTo(upstream)

\* clone_or_pull by the name "HEAD", which is what a detached HEAD is called: the
\* files of origin/HEAD are checked out, but HEAD cannot be set to that symbolic
\* reference; the error is swallowed, and there is no reset.
PullHead ==
  /\ clone' = IF Refused(upstream) THEN clone
              ELSE [f \in Files |-> IF upstream[f] # head[f] THEN upstream[f]
                                                            ELSE clone[f]]
  /\ UNCHANGED <<head, detached>>

\* git_pull_repos, in a Celery worker, asks for the branch "main" of every
\* repository: its default branch, none, or one that was left at the beginning.
WorkerPull ==
  /\ Calm => Idle
  /\ CASE Main = "default" -> PullBranch
       [] Main = "missing" -> UNCHANGED gitVars
       [] Main = "another" -> PullTo([f \in Files |-> 1])
  /\ UNCHANGED <<upstream, graph, manifest, sync, pushes, faults, leftOut,
                 damaged>>

-----------------------------------------------------------------------------
(* _sync_repo by coroutine s.                                               *)

Start(s) ==
  /\ sync[s].pc = "idle"
  /\ Calm => Idle
  /\ sync' = [sync EXCEPT ![s].pc = IF s \in Hooks THEN "hook" ELSE "pull"]
  /\ UNCHANGED <<upstream, gitVars, graph, manifest, pushes, faults, leftOut,
                 damaged>>

\* handle_webhook_push pulls the recorded branch, in the event loop.
HookPull(s) ==
  /\ sync[s].pc = "hook"
  /\ PullBranch
  /\ sync' = [sync EXCEPT ![s].pc = "pull"]
  /\ UNCHANGED <<upstream, graph, manifest, pushes, faults, leftOut, damaged>>

\* _sync_repo pulls the branch that the clone is on, in a thread.
Pull(s) ==
  /\ sync[s].pc = "pull"
  /\ IF detached THEN PullHead ELSE PullBranch
  /\ sync' = [sync EXCEPT ![s].pc = "load"]
  /\ UNCHANGED <<upstream, graph, manifest, pushes, faults, leftOut, damaged>>

\* _load_manifest.
Load(s) ==
  /\ sync[s].pc = "load"
  /\ sync' = [sync EXCEPT ![s].seen = manifest,
                          ![s].pc = IF manifest = None THEN "full" ELSE "diff"]
  /\ UNCHANGED <<upstream, gitVars, graph, manifest, pushes, faults, leftOut,
                 damaged>>

\* full_sync up to its _store_manifest: the manifest is stored before the nodes.
\* Nodes of files that are gone are not looked for.
FullBegin(s) ==
  /\ sync[s].pc = "full"
  /\ manifest' = Scanned(clone)
  /\ leftOut' = leftOut \cup (Present(graph) \ Present(clone))
  /\ sync' = [sync EXCEPT ![s].pc = "fill", ![s].seen = Scanned(clone),
                          ![s].todo = Files, ![s].budget = FullCap]
  /\ UNCHANGED <<upstream, gitVars, graph, pushes, faults, damaged>>

NodeOf(s, f) == IF sync[s].seen[f] = Absent THEN Blank ELSE sync[s].seen[f]

\* Mutant: the walk has no cap and meets a file again.
FullWriteAgain(s) ==
  /\ sync[s].pc = "fill"
  /\ \E f \in sync[s].todo \cap Present(clone) :
       /\ graph' = [graph EXCEPT ![f] = NodeOf(s, f)]
       /\ sync' = [sync EXCEPT ![s].budget = @ - 1]
  /\ UNCHANGED <<upstream, gitVars, manifest, pushes, faults, leftOut, damaged>>

\* One file met by the walk over the clone, which goes on while others pull.
FullWrite(s) ==
  /\ sync[s].pc = "fill" /\ sync[s].budget > 0
  /\ \E f \in sync[s].todo \cap Present(clone) :
       /\ graph' = [graph EXCEPT ![f] = NodeOf(s, f)]
       /\ sync' = [sync EXCEPT ![s].todo = @ \ {f}, ![s].budget = @ - 1]
       /\ leftOut' = leftOut \ {f}
  /\ UNCHANGED <<upstream, gitVars, manifest, pushes, faults, damaged>>

FullEnd(s) ==
  /\ sync[s].pc = "fill"
  /\ sync[s].budget = 0 \/ sync[s].todo \cap Present(clone) = {}
  /\ sync' = [sync EXCEPT ![s] = IdleSync]
  /\ leftOut' = leftOut \cup (sync[s].todo \cap Present(clone))
  /\ UNCHANGED <<upstream, gitVars, graph, manifest, pushes, faults, damaged>>

\* What the scan of diff finds changed or added, and removed.
Changed(s) == {f \in Files : Scanned(clone)[f] \notin {Absent, sync[s].seen[f]}}
Gone(s)    == {f \in Files : Scanned(clone)[f] = Absent /\ sync[s].seen[f] # Absent}

\* Mutants: a file that disappeared is not counted as a change; a new file is
\* not written.
DiffAddsOnly(s) ==
  /\ sync[s].pc = "diff"
  /\ sync' = [sync EXCEPT ![s] =
       IF Changed(s) = {} THEN IdleSync
       ELSE [@ EXCEPT !.pc = "remove", !.todo = Changed(s)]]
  /\ UNCHANGED <<upstream, gitVars, graph, manifest, pushes, faults, leftOut,
                 damaged>>

DiffSkipsAdded(s) ==
  /\ sync[s].pc = "diff"
  /\ sync' = [sync EXCEPT ![s] =
       IF Changed(s) \cup Gone(s) = {} THEN IdleSync
       ELSE [@ EXCEPT !.pc = "remove", !.removed = Gone(s),
                      !.todo = Changed(s) \cap Present(sync[s].seen)]]
  /\ UNCHANGED <<upstream, gitVars, graph, manifest, pushes, faults, leftOut,
                 damaged>>

\* diff, with a scan of its own; without changes the sync is over.
Diff(s) ==
  /\ sync[s].pc = "diff"
  /\ sync' = [sync EXCEPT ![s] =
       IF Changed(s) \cup Gone(s) = {} THEN IdleSync
       ELSE [@ EXCEPT !.pc = "remove", !.todo = Changed(s), !.removed = Gone(s)]]
  /\ UNCHANGED <<upstream, gitVars, graph, manifest, pushes, faults, leftOut,
                 damaged>>

RemoveNode(s) ==
  /\ sync[s].pc = "remove"
  /\ \E f \in sync[s].removed :
       /\ graph' = [graph EXCEPT ![f] = Absent]
       /\ sync' = [sync EXCEPT ![s].removed = @ \ {f}]
       /\ leftOut' = leftOut \ {f}
  /\ UNCHANGED <<upstream, gitVars, manifest, pushes, faults, damaged>>

\* The second scan: its shas are written and its manifest is stored, but the
\* files to write are still those of the first one.
Scan(s) ==
  /\ sync[s].pc = "remove" /\ sync[s].removed = {}
  /\ sync' = [sync EXCEPT ![s].pc = "write", ![s].seen = Scanned(clone),
                          ![s].budget = ChangeCap]
  /\ UNCHANGED <<upstream, gitVars, graph, manifest, pushes, faults, leftOut,
                 damaged>>

\* A changed file: skipped if it is gone by now.
WriteNode(s) ==
  /\ sync[s].pc = "write" /\ sync[s].budget > 0
  /\ \E f \in sync[s].todo :
       /\ sync' = [sync EXCEPT ![s].todo = @ \ {f}, ![s].budget = @ - 1]
       /\ IF f \in Present(clone)
          THEN /\ graph' = [graph EXCEPT ![f] = NodeOf(s, f)]
               /\ leftOut' = leftOut \ {f}
          ELSE UNCHANGED <<graph, leftOut>>
  /\ UNCHANGED <<upstream, gitVars, manifest, pushes, faults, damaged>>

\* Mutant: the sync ends without storing its manifest.
StoreNothing(s) ==
  /\ sync[s].pc = "write"
  /\ sync[s].budget = 0 \/ sync[s].todo = {}
  /\ sync' = [sync EXCEPT ![s] = IdleSync]
  /\ UNCHANGED <<upstream, gitVars, graph, manifest, pushes, faults, leftOut,
                 damaged>>

Store(s) ==
  /\ sync[s].pc = "write"
  /\ sync[s].budget = 0 \/ sync[s].todo = {}
  /\ manifest' = sync[s].seen
  /\ leftOut' = leftOut \cup sync[s].todo
  /\ sync' = [sync EXCEPT ![s] = IdleSync]
  /\ UNCHANGED <<upstream, gitVars, graph, pushes, faults, damaged>>

-----------------------------------------------------------------------------
(* Faults.                                                                  *)

Fault == faults < MaxFaults /\ faults' = faults + 1

\* The fetch fails: a webhook's sync is over, the other goes on with the old tree.
PullFails(s) ==
  /\ Fault /\ sync[s].pc \in {"hook", "pull"}
  /\ sync' = [sync EXCEPT ![s].pc = IF @ = "hook" THEN "idle" ELSE "load"]
  /\ UNCHANGED <<upstream, gitVars, graph, manifest, pushes, leftOut, damaged>>

\* The manifest cannot be read: taken for none, so that all is synced anew.
LoadFails(s) ==
  /\ Fault /\ sync[s].pc = "load"
  /\ sync' = [sync EXCEPT ![s].pc = "full"]
  /\ UNCHANGED <<upstream, gitVars, graph, manifest, pushes, leftOut, damaged>>

\* A node is not written or not deleted: suppressed, and the sync goes on.
NodeFails(s) ==
  /\ Fault
  /\ \/ /\ sync[s].pc = "remove"
        /\ \E f \in sync[s].removed :
             sync' = [sync EXCEPT ![s].removed = @ \ {f}]
     \/ /\ sync[s].pc \in {"fill", "write"} /\ sync[s].budget > 0
        /\ \E f \in sync[s].todo \cap Present(clone) :
             sync' = [sync EXCEPT ![s].todo = @ \ {f}, ![s].budget = @ - 1]
  /\ damaged' = TRUE
  /\ UNCHANGED <<upstream, gitVars, graph, manifest, pushes, leftOut>>

\* The manifest is not stored: suppressed; a full sync goes on to its nodes.
StoreFails(s) ==
  /\ Fault
  /\ \/ /\ sync[s].pc = "write" /\ (sync[s].budget = 0 \/ sync[s].todo = {})
        /\ sync' = [sync EXCEPT ![s] = IdleSync]
        /\ UNCHANGED leftOut
     \/ /\ sync[s].pc = "full"
        /\ sync' = [sync EXCEPT ![s].pc = "fill", ![s].seen = Scanned(clone),
                                ![s].todo = Files, ![s].budget = FullCap]
        /\ leftOut' = leftOut \cup (Present(graph) \ Present(clone))
  /\ damaged' = TRUE
  /\ UNCHANGED <<upstream, gitVars, graph, manifest, pushes>>

\* The API process goes away, and every sync with it.  Until it comes to deletes
\* and writes, a sync can be given up without damage.
Restart ==
  /\ Fault /\ ~Idle
  /\ sync' = [s \in Syncers |-> IdleSync]
  /\ damaged' = (damaged \/ \E s \in Syncers :
                   sync[s].pc \in {"fill", "remove", "write"})
  /\ UNCHANGED <<upstream, gitVars, graph, manifest, pushes, leftOut>>

-----------------------------------------------------------------------------
SyncStep(s) ==
  \/ HookPull(s) \/ Pull(s) \/ Load(s)
  \/ FullBegin(s) \/ FullWrite(s) \/ FullEnd(s)
  \/ Diff(s) \/ RemoveNode(s) \/ Scan(s) \/ WriteNode(s) \/ Store(s)

FaultStep ==
  \/ Restart
  \/ \E s \in Syncers :
       PullFails(s) \/ LoadFails(s) \/ NodeFails(s) \/ StoreFails(s)

Next ==
  \/ \E f \in Files, v \in Absent..NumVersions : Push(f, v)
  \/ WorkerPull
  \/ \E s \in Syncers : Start(s) \/ SyncStep(s)
  \/ FaultStep

Spec == Init /\ [][Next]_vars

\* The poller syncs every repository again and again; a sync that began goes on.
FairSpec ==
  /\ Spec
  /\ WF_vars(\E s \in Syncers : Start(s))
  /\ \A s \in Syncers : WF_vars(SyncStep(s))

-----------------------------------------------------------------------------
(* Properties.                                                              *)

\* File f has the node that this listing of the files calls for: the content it
\* lists; without an entry no node, or one without sha.
Shown(listing, f) ==
  \/ graph[f] = listing[f]
  \/ listing[f] = Absent /\ graph[f] = Blank

\* At rest, the manifest tells the truth about every node except those that a sync
\* left as they were: files beyond its cap, and files that were gone before a full
\* sync.  Failed pulls and loads and restarts before the first write do no harm,
\* and neither do files that grow too large for the scan and shrink again.
ManifestTruthful ==
  Idle /\ ~damaged /\ manifest # None =>
    \A f \in Files \ leftOut : Shown(manifest, f)

\* While an incremental sync writes, the manifest it is about to store is already
\* true of every file that neither waits to be written nor was left out before:
\* between diff and second scan no other file is lost.
NothingMissed ==
  \A s \in Syncers :
    sync[s].pc = "write" /\ ~damaged =>
      \A f \in Files \ (sync[s].todo \cup leftOut) : Shown(sync[s].seen, f)

\* Once the branch rests and as long as no write was lost, the graph comes to show
\* every file of the clone that a scan lists, and no other content, except for the
\* files that a sync left as they were.
EventuallyTracks ==
  \/ <>damaged
  \/ <>[](\A f \in Files \ leftOut : Shown(Scanned(clone), f))

\* What the documents say and the code does not do.

\* "incrementally updates the graph, so the teammate's knowledge tracks reality"
\* (README): without any fault, every file of the clone is eventually shown as it is.
GraphFollowsClone ==
  <>[](\A f \in Files : clone[f] # Absent => graph[f] = clone[f])

\* "git pulls the latest commits ... so the teammate's knowledge tracks reality
\* without a manual re-onboard" (README): without any fault, every file of the
\* branch is eventually shown as it is.
KnowledgeTracksReality ==
  <>[](\A f \in Files : upstream[f] # Absent => graph[f] = upstream[f])
=============================================================================
