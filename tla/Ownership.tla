------------------------------ MODULE Ownership ------------------------------
(***************************************************************************)
(* Who owns a file: the profile read from the commits                      *)
(* (onboarding/people_profiler.py), written by the graph stage of          *)
(* concurrent Celery workers (pipeline.py, _build_graph_sync) as           *)
(* Contributor nodes and weighted OWNS edges, healed at the API's start    *)
(* (KnowledgeGraph.ensure_schema) and read back by find_owner.  MERGE of a *)
(* node is only atomic under the uniqueness constraint.  A repository has  *)
(* one file here; a commit may touch it or touch something else.           *)
(***************************************************************************)
EXTENDS Naturals, FiniteSets

CONSTANTS
    Workers,
    Repos,
    People,
    MaxCommits,  \* bound: commits made and dropped in all
    Nobody

VARIABLES
    count,       \* repository -> person -> commits
    onFile,      \* repository -> person -> commits that touch its file
    nodes,       \* Contributor nodes: [who, copy]
    owns,        \* node -> repository -> weight of the OWNS edge, 0 for none
    constraint,  \* contributor_id_unique exists
    build,       \* worker -> its graph stage
    trusted,     \* history: repository -> the owner its last undisturbed build computed
    inflated,    \* history: the repositories where healing added two weights up
    rewritten,   \* history: the repositories that lost commits
    changes      \* counts the commits made and dropped, for the bound

ownershipVars == <<count, onFile, nodes, owns, constraint, build, trusted, inflated, rewritten, changes>>

Idle == [at |-> "idle"]
AllNodes == [who : People, copy : {1, 2}]
NodesOf(p) == {n \in nodes : n.who = p}
Duplicated == {p \in People : Cardinality(NodesOf(p)) > 1}
Earned(r) == r \notin inflated \cup rewritten
Building(r) == {w \in Workers : build[w] # Idle /\ build[w].repo = r}

Init ==
    /\ count = [r \in Repos |-> [p \in People |-> 0]] /\ onFile = count
    /\ nodes = {} /\ owns = [n \in AllNodes |-> [r \in Repos |-> 0]]
    /\ constraint = FALSE /\ build = [w \in Workers |-> Idle]
    /\ trusted = [r \in Repos |-> Nobody] /\ inflated = {} /\ rewritten = {}
    /\ changes = 0

Commit ==
    /\ changes < MaxCommits /\ changes' = changes + 1
    /\ \E r \in Repos, p \in People, touches \in BOOLEAN :
          /\ count' = [count EXCEPT ![r][p] = @ + 1]
          /\ onFile' = [onFile EXCEPT ![r][p] = IF touches THEN @ + 1 ELSE @]
    /\ UNCHANGED <<nodes, owns, constraint, build, trusted, inflated, rewritten>>

\* A force-push squashes commits or drops them, one here; the next pull resets to it.
Rewrite ==
    /\ changes < MaxCommits /\ changes' = changes + 1
    /\ \E r \in Repos, p \in People, touches \in BOOLEAN :
          /\ IF touches THEN onFile[r][p] > 0 ELSE onFile[r][p] < count[r][p]
          /\ count' = [count EXCEPT ![r][p] = @ - 1]
          /\ onFile' = [onFile EXCEPT ![r][p] = IF touches THEN @ - 1 ELSE @]
          /\ rewritten' = rewritten \cup {r}
    /\ UNCHANGED <<nodes, owns, constraint, build, trusted, inflated>>

\* profile_repo: the commits to the repository of each who touched the file.
Touched(r) == {p \in People : onFile[r][p] > 0}
Profile(r) == [p \in Touched(r) |-> count[r][p]]

(***************************************************************************)
(* _compute_ownership: of those who touched the file, one with the most    *)
(* commits to the repository, whatever they were to (the comment at its    *)
(* call says most commits to the file).                                    *)
(***************************************************************************)
TopAuthors(r) == {p \in Touched(r) : \A q \in Touched(r) : Profile(r)[q] <= Profile(r)[p]}

\* The profile is taken and the batch sent; MERGE looks for the contributor.
BeginBuild(w) ==
    /\ build[w] = Idle
    /\ \E r \in Repos : \E p \in TopAuthors(r) :
          LET others == Building(r) IN
          build' = [v \in Workers |->
              IF v = w THEN [at |-> "merge", repo |-> r, owner |-> p, weight |-> Profile(r)[p],
                             absent |-> NodesOf(p) = {}, alone |-> others = {}]
              ELSE IF v \in others THEN [build[v] EXCEPT !.alone = FALSE]
              ELSE build[v]]
    /\ UNCHANGED <<count, onFile, nodes, owns, constraint, trusted, inflated, rewritten, changes>>

\* Two transactions that both found none both create one, but for the constraint.
Created(w) ==
    LET p == build[w].owner IN
    IF ~ build[w].absent \/ (constraint /\ NodesOf(p) # {}) THEN {}
    ELSE {[who |-> p, copy |-> IF NodesOf(p) = {} THEN 1 ELSE 2]}

\* As KnowledgeGraph.add_ownership does, which the pipeline does not use.
EndBuildAdding(w) ==
    /\ build[w] # Idle
    /\ LET r == build[w].repo  p == build[w].owner IN
       /\ nodes' = nodes \cup Created(w)
       /\ owns' = [n \in AllNodes |->
              IF n \in nodes' /\ n.who = p THEN [owns[n] EXCEPT ![r] = @ + build[w].weight]
              ELSE owns[n]]
       /\ trusted' = [trusted EXCEPT ![r] =
              IF build[w].alone /\ Earned(r) THEN p ELSE Nobody]
    /\ build' = [build EXCEPT ![w] = Idle]
    /\ UNCHANGED <<count, onFile, constraint, inflated, rewritten, changes>>

\* The contributor's nodes, however many, get the edge; edges of earlier owners stay.
EndBuild(w) ==
    /\ build[w] # Idle
    /\ LET r == build[w].repo  p == build[w].owner IN
       /\ nodes' = nodes \cup Created(w)
       /\ owns' = [n \in AllNodes |->
              IF n \in nodes' /\ n.who = p THEN [owns[n] EXCEPT ![r] = build[w].weight]
              ELSE owns[n]]
       /\ trusted' = [trusted EXCEPT ![r] =
              IF build[w].alone /\ Earned(r) THEN p ELSE Nobody]
    /\ build' = [build EXCEPT ![w] = Idle]
    /\ UNCHANGED <<count, onFile, constraint, inflated, rewritten, changes>>

\* A batch that fails is a warning; the stage is completed all the same.
LoseBatch(w) ==
    /\ build[w] # Idle
    /\ build' = [build EXCEPT ![w] = Idle]
    /\ UNCHANGED <<count, onFile, nodes, owns, constraint, trusted, inflated, rewritten, changes>>

(***************************************************************************)
(* ensure_schema at the API's start, two statements: duplicates are        *)
(* collapsed onto one node, which gets their edges and the sum of the      *)
(* weights of edges to one file; then the constraint is created, which     *)
(* fails while there are duplicates.                                       *)
(***************************************************************************)
Collapse ==
    LET kept(p) == CHOOSE n \in NodesOf(p) : TRUE
        weight(p, i, r) == LET n == [who |-> p, copy |-> i] IN IF n \in nodes THEN owns[n][r] ELSE 0
        sum(p, r) == weight(p, 1, r) + weight(p, 2, r)
        added == {r \in Repos : \E p \in Duplicated : \A n \in NodesOf(p) : owns[n][r] > 0}
    IN /\ nodes' = {n \in nodes : n = kept(n.who)}
       /\ owns' = [n \in AllNodes |-> [r \in Repos |-> IF n \in nodes' THEN sum(n.who, r) ELSE 0]]
       /\ inflated' = inflated \cup added
       /\ trusted' = [r \in Repos |-> IF r \in added THEN Nobody ELSE trusted[r]]
       /\ UNCHANGED <<count, onFile, constraint, build, rewritten, changes>>

AddConstraint ==
    /\ Duplicated = {}
    /\ constraint' = TRUE
    /\ UNCHANGED <<count, onFile, nodes, owns, build, trusted, inflated, rewritten, changes>>

\* Deleting a repository removes its file and the edges to it, not the contributors; a
\* delete under a running pipeline is module Onboarding's.
DeleteRepo ==
    /\ \E r \in Repos :
          /\ Building(r) = {}
          /\ owns' = [n \in AllNodes |-> [owns[n] EXCEPT ![r] = 0]]
          /\ trusted' = [trusted EXCEPT ![r] = Nobody]
          /\ inflated' = inflated \ {r} /\ rewritten' = rewritten \ {r}
    /\ UNCHANGED <<count, onFile, nodes, constraint, build, changes>>

Next ==
    \/ \E w \in Workers : BeginBuild(w) \/ EndBuild(w) \/ LoseBatch(w)
    \/ Commit \/ Rewrite \/ Collapse \/ AddConstraint \/ DeleteRepo

Spec == Init /\ [][Next]_ownershipVars

(***************************************************************************)
(* find_owner orders the edges by weight and takes one: on a tie it may be *)
(* any of the heaviest.  A file of nobody has no answer.                   *)
(***************************************************************************)
Heavier(n, m, r) == owns[m][r] < owns[n][r]
FindOwner(r) ==
    {n.who : n \in {m \in nodes : owns[m][r] > 0 /\ \A k \in nodes : ~ Heavier(k, m, r)}}

\* list_contributors: one line a person, each file once, whatever the duplicates.
Owned(p) == {r \in Repos : \E n \in NodesOf(p) : owns[n][r] > 0}

TypeOK ==
    /\ count \in [Repos -> [People -> 0 .. MaxCommits]]
    /\ onFile \in [Repos -> [People -> 0 .. MaxCommits]]
    /\ nodes \subseteq AllNodes /\ owns \in [AllNodes -> [Repos -> Nat]]
    /\ constraint \in BOOLEAN /\ inflated \subseteq Repos /\ rewritten \subseteq Repos
    /\ trusted \in [Repos -> People \cup {Nobody}] /\ changes \in 0 .. MaxCommits
    /\ \A w \in Workers : build[w].at \in {"idle", "merge"}

(***************************************************************************)
(* However workers, restarts, failed batches, force-pushes and deletions   *)
(* overlap: once the constraint exists nobody has two nodes; find_owner    *)
(* may name the owner the last undisturbed build computed, in spite of the *)
(* edges of earlier owners that no build removes; and where no weights     *)
(* were added up and no history rewritten, whoever else it names on a tie  *)
(* touched the file too and has made at least the commits that owner had   *)
(* (ensure_schema, _build_graph_sync, find_owner).                         *)
(***************************************************************************)
OwnerIsCurrent ==
    /\ constraint => Duplicated = {}
    /\ \A r \in Repos : trusted[r] # Nobody =>
          /\ trusted[r] \in FindOwner(r) /\ r \in Owned(trusted[r])
          /\ Earned(r) => \A p \in FindOwner(r) :
                /\ p \in Touched(r)
                /\ \A n \in NodesOf(trusted[r]) : owns[n][r] <= count[r][p]
=============================================================================
