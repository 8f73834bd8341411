---------------------------- MODULE AgentStateProofs ----------------------------
(***************************************************************************)
(* Safety of what the agent learns, remembers and spends, among the        *)
(* services side by side: concept cards, the code graph, memory, owners    *)
(* and the books of the language models.  A step of the service in focus   *)
(* is a step of its module and a stutter of every other.                   *)
(***************************************************************************)
EXTENDS Services, FiniteSetTheorems, TLAPS

-----------------------------------------------------------------------------
(* Concept cards.                                                            *)

LEMMA ConceptsStep == [Next]_vars => [Cpt!Next]_conceptVars
  BY DEF Next, Held, vars

\* What a session has flushed belongs to repositories that are still there: their
\* deletion waits for the session.
PendingLive == \A r \in Runs : \A card \in run[r].pending : card[1] \in live

RunFields ==
    [op : {"idle", "generate"}, todo : SUBSET Repos, at : Repos \cup {Nothing}, left : SUBSET Cards,
     sound : BOOLEAN, pending : SUBSET (Repos \X Cards), aborted : BOOLEAN,
     reported : SUBSET (Repos \X Cards)]

CardsTyped ==
    /\ live \subseteq Repos /\ concepts \subseteq Repos \X Cards /\ refused \subseteq Repos
    /\ run \in [Runs -> RunFields]

CardsKept == CardsTyped /\ PendingLive /\ Cpt!ReportTrue

-----------------------------------------------------------------------------
LEMMA CardsInit == Cpt!Init => CardsKept
  BY DEF Cpt!Init, CardsKept, CardsTyped, RunFields, PendingLive, Cpt!ReportTrue, Cpt!Idle

\* A step of one request that leaves the table alone keeps the invariant when what it
\* flushed is of a repository that is there and in no other session, and it reports
\* nothing new.
LEMMA OneRun ==
  ASSUME CardsKept, NEW r \in Runs, NEW next \in RunFields,
         run' = [run EXCEPT ![r] = next],
         \A card \in next.pending :
            /\ card[1] \in live
            /\ \A q \in Runs : q # r => card \notin run[q].pending,
         next.reported \subseteq concepts,
         UNCHANGED <<live, concepts, refused>>
  PROVE  CardsKept'
<1>1. \A q \in Runs : run'[q] = IF q = r THEN next ELSE run[q]
  BY DEF CardsKept, CardsTyped
<1>2. CardsTyped'
  BY DEF CardsKept, CardsTyped
<1>3. PendingLive'
  BY <1>1 DEF CardsKept, PendingLive
<1>4. Cpt!ReportTrue'
  <2>1. \A p \in Runs : run'[p].reported \subseteq concepts'
    BY <1>1 DEF CardsKept, Cpt!ReportTrue
  <2>2. \A card \in concepts' : card[1] \in live'
    BY DEF CardsKept, Cpt!ReportTrue
  <2>3. ASSUME NEW p \in Runs, NEW q \in Runs, p # q
        PROVE  run'[p].pending \cap run'[q].pending = {}
    BY <1>1, <2>3 DEF CardsKept, Cpt!ReportTrue
  <2>4. \A p \in refused' : \E card \in concepts' : card[1] = p
    BY DEF CardsKept, Cpt!ReportTrue
  <2> QED
    BY <2>1, <2>2, <2>3, <2>4 DEF Cpt!ReportTrue
<1> QED
  BY <1>2, <1>3, <1>4 DEF CardsKept

\* The same for a step that flushes and reports nothing.
LEMMA QuietRun ==
  ASSUME CardsKept, NEW r \in Runs, NEW next \in RunFields,
         run' = [run EXCEPT ![r] = next],
         next.pending \subseteq run[r].pending, next.reported \subseteq run[r].reported,
         UNCHANGED <<live, concepts, refused>>
  PROVE  CardsKept'
<1>1. \A card \in next.pending :
        /\ card[1] \in live
        /\ \A q \in Runs : q # r => card \notin run[q].pending
  BY DEF CardsKept, PendingLive, Cpt!ReportTrue
<1>2. next.reported \subseteq concepts
  BY DEF CardsKept, Cpt!ReportTrue
<1> QED
  BY <1>1, <1>2, OneRun

LEMMA GenerateKeeps == ASSUME CardsKept, NEW r \in Runs, Cpt!Generate(r) PROVE CardsKept'
<1> DEFINE next == run'[r]
<1>1. PICK asked \in {{p} : p \in live} \cup ({live} \ {{}}) :
        run' = [run EXCEPT ![r].op = "generate", ![r].todo = asked]
  BY DEF Cpt!Generate
<1>2. asked \in SUBSET Repos /\ run[r] \in RunFields
  BY DEF CardsKept, CardsTyped
<1>3. next = [run[r] EXCEPT !.op = "generate", !.todo = asked] /\ run' = [run EXCEPT ![r] = next]
  BY <1>1 DEF CardsKept, CardsTyped
<1>4. next \in RunFields /\ next.pending = run[r].pending /\ next.reported = run[r].reported
  BY <1>2, <1>3 DEF RunFields
<1>5. UNCHANGED <<live, concepts, refused>>
  BY DEF Cpt!Generate
<1> QED
  BY <1>3, <1>4, <1>5, QuietRun

LEMMA BeginRepoKeeps == ASSUME CardsKept, NEW r \in Runs, Cpt!BeginRepo(r) PROVE CardsKept'
<1> DEFINE next == run'[r]
<1>1. run[r] \in RunFields
  BY DEF CardsKept, CardsTyped
<1>2. PICK p \in run[r].todo :
        \/ run' = [run EXCEPT ![r].todo = @ \ {p}]
        \/ /\ p \in live
           /\ \E reply \in Cpt!Replies :
                 run' = [run EXCEPT ![r].todo = @ \ {p}, ![r].at = p,
                                    ![r].left = reply.names, ![r].sound = reply.sound]
  BY DEF Cpt!BeginRepo
<1>3. next \in RunFields /\ next.pending = run[r].pending /\ next.reported = run[r].reported
      /\ run' = [run EXCEPT ![r] = next]
  <2>1. CASE run' = [run EXCEPT ![r].todo = @ \ {p}]
    <3>1. next = [run[r] EXCEPT !.todo = @ \ {p}] /\ run' = [run EXCEPT ![r] = next]
      BY <2>1 DEF CardsKept, CardsTyped
    <3> QED
      BY <1>1, <3>1 DEF RunFields
  <2>2. ASSUME p \in live, NEW reply \in Cpt!Replies,
               run' = [run EXCEPT ![r].todo = @ \ {p}, ![r].at = p,
                                  ![r].left = reply.names, ![r].sound = reply.sound]
        PROVE  <1>3!:
    <3>1. next = [run[r] EXCEPT !.todo = @ \ {p}, !.at = p, !.left = reply.names, !.sound = reply.sound]
          /\ run' = [run EXCEPT ![r] = next]
      BY <2>2 DEF CardsKept, CardsTyped
    <3>2. p \in Repos /\ reply.names \in SUBSET Cards /\ reply.sound \in BOOLEAN
      BY <2>2 DEF CardsKept, CardsTyped, Cpt!Replies
    <3> DEFINE rest == run[r].todo \ {p}
               names == reply.names
               sound == reply.sound
    <3>3. rest \in SUBSET Repos /\ names \in SUBSET Cards /\ sound \in BOOLEAN
      BY <1>1, <3>2 DEF RunFields
    <3>4. next = [run[r] EXCEPT !.todo = rest, !.at = p, !.left = names, !.sound = sound]
      BY <3>1
    <3> HIDE DEF rest, names, sound, next
    <3>5. next \in RunFields /\ next.pending = run[r].pending /\ next.reported = run[r].reported
      BY <1>1, <3>2, <3>3, <3>4 DEF RunFields
    <3> QED
      BY <3>1, <3>5
  <2> QED
    BY <1>2, <2>1, <2>2
<1>4. UNCHANGED <<live, concepts, refused>>
  BY DEF Cpt!BeginRepo
<1> QED
  BY <1>3, <1>4, QuietRun

LEMMA UpsertKeeps == ASSUME CardsKept, NEW r \in Runs, Cpt!Upsert(r) PROVE CardsKept'
<1> DEFINE next == run'[r]
<1>1. run[r] \in RunFields /\ run[r].at \in live
  BY DEF CardsKept, CardsTyped, Cpt!Upsert
<1>2. PICK n \in run[r].left :
        /\ Cpt!Holders(<<run[r].at, n>>) \subseteq {r}
        /\ run' = [run EXCEPT ![r].left = @ \ {n}, ![r].pending = @ \cup {<<run[r].at, n>>}]
  BY DEF Cpt!Upsert
<1>3. next = [run[r] EXCEPT !.left = @ \ {n}, !.pending = @ \cup {<<run[r].at, n>>}]
      /\ run' = [run EXCEPT ![r] = next]
  BY <1>2 DEF CardsKept, CardsTyped
<1>4. n \in Cards /\ <<run[r].at, n>> \in Repos \X Cards
  BY <1>1 DEF CardsKept, CardsTyped, RunFields
<1>5. /\ next \in RunFields /\ next.reported = run[r].reported
      /\ next.pending = run[r].pending \cup {<<run[r].at, n>>}
  <2> DEFINE left == run[r].left \ {n}
             pending == run[r].pending \cup {<<run[r].at, n>>}
  <2>1. left \in SUBSET Cards /\ pending \in SUBSET (Repos \X Cards)
    BY <1>1, <1>4 DEF RunFields
  <2>2. next = [run[r] EXCEPT !.left = left, !.pending = pending]
    BY <1>3
  <2> HIDE DEF left, pending, next
  <2>3. next \in RunFields /\ next.reported = run[r].reported /\ next.pending = pending
    BY <1>1, <2>1, <2>2 DEF RunFields
  <2> QED
    BY <2>3 DEF pending
<1>6. ASSUME NEW card \in next.pending
      PROVE  card[1] \in live /\ \A q \in Runs : q # r => card \notin run[q].pending
  <2>1. CASE card \in run[r].pending
    BY <2>1 DEF CardsKept, PendingLive, Cpt!ReportTrue
  <2>2. CASE card = <<run[r].at, n>>
    BY <1>1, <1>2, <2>2 DEF Cpt!Holders
  <2> QED
    BY <1>5, <2>1, <2>2
<1>7. next.reported \subseteq concepts
  BY <1>5 DEF CardsKept, Cpt!ReportTrue
<1>8. UNCHANGED <<live, concepts, refused>>
  BY DEF Cpt!Upsert
<1> QED
  BY <1>3, <1>5, <1>6, <1>7, <1>8, OneRun

LEMMA RaiseAtItemKeeps == ASSUME CardsKept, NEW r \in Runs, Cpt!RaiseAtItem(r) PROVE CardsKept'
<1> DEFINE next == run'[r]
<1>1. run[r] \in RunFields
  BY DEF CardsKept, CardsTyped
<1>2. next = [run[r] EXCEPT !.at = Nothing, !.left = {}, !.sound = TRUE]
      /\ run' = [run EXCEPT ![r] = next]
  BY DEF CardsKept, CardsTyped, Cpt!RaiseAtItem
<1>3. next \in RunFields /\ next.pending = run[r].pending /\ next.reported = run[r].reported
  BY <1>1, <1>2 DEF RunFields
<1>4. UNCHANGED <<live, concepts, refused>>
  BY DEF Cpt!RaiseAtItem
<1> QED
  BY <1>2, <1>3, <1>4, QuietRun

LEMMA DatabaseErrorKeeps == ASSUME CardsKept, NEW r \in Runs, Cpt!DatabaseError(r) PROVE CardsKept'
<1> DEFINE next == run'[r]
<1>1. run[r] \in RunFields
  BY DEF CardsKept, CardsTyped
<1>2. next = [run[r] EXCEPT !.at = Nothing, !.left = {}, !.sound = TRUE,
                            !.pending = {}, !.aborted = TRUE]
      /\ run' = [run EXCEPT ![r] = next]
  BY DEF CardsKept, CardsTyped, Cpt!DatabaseError
<1>3. next \in RunFields /\ next.pending = {} /\ next.reported = run[r].reported
  BY <1>1, <1>2 DEF RunFields
<1>4. UNCHANGED <<live, concepts, refused>>
  BY DEF Cpt!DatabaseError
<1> QED
  BY <1>2, <1>3, <1>4, QuietRun

LEMMA ReportKeeps == ASSUME CardsKept, NEW r \in Runs, Cpt!Report(r) PROVE CardsKept'
<1>1. Cpt!Idle \in RunFields /\ Cpt!Idle.pending = {} /\ Cpt!Idle.reported = {}
  BY DEF Cpt!Idle, RunFields
<1>2. run' = [run EXCEPT ![r] = Cpt!Idle] /\ UNCHANGED <<live, concepts, refused>>
  BY DEF Cpt!Report
<1> QED
  BY <1>1, <1>2, QuietRun

LEMMA CommitRepoKeeps == ASSUME CardsKept, NEW r \in Runs, Cpt!CommitRepo(r) PROVE CardsKept'
<1> DEFINE held == {card \in run[r].pending : card[1] = run[r].at}
           next == [run[r] EXCEPT !.at = Nothing, !.pending = {}, !.reported = @ \cup held]
<1>1. run[r] \in RunFields /\ held \in SUBSET (Repos \X Cards)
  BY DEF CardsKept, CardsTyped, RunFields
<1>2. run' = [run EXCEPT ![r] = next]
  BY DEF CardsKept, CardsTyped, Cpt!CommitRepo, Cpt!Done
<1>3. /\ next \in RunFields /\ next.pending = {}
      /\ next.reported = run[r].reported \cup held
  <2> HIDE DEF held
  <2> DEFINE reported == run[r].reported \cup held
  <2>1. reported \in SUBSET (Repos \X Cards)
    BY <1>1 DEF RunFields
  <2>2. next = [run[r] EXCEPT !.at = Nothing, !.pending = {}, !.reported = reported]
    OBVIOUS
  <2> HIDE DEF reported, next
  <2>3. next \in RunFields /\ next.pending = {} /\ next.reported = reported
    BY <1>1, <2>1, <2>2 DEF RunFields
  <2> QED
    BY <2>3 DEF reported
<1>4. concepts' = concepts \cup run[r].pending /\ UNCHANGED <<live, refused>>
  BY DEF Cpt!CommitRepo
<1> HIDE DEF next
<1>5. \A q \in Runs : run'[q] = IF q = r THEN next ELSE run[q]
  BY <1>2 DEF CardsKept, CardsTyped
<1>6. CardsTyped'
  BY <1>1, <1>2, <1>3, <1>4 DEF CardsKept, CardsTyped, RunFields
<1>7. PendingLive'
  BY <1>3, <1>4, <1>5 DEF CardsKept, PendingLive
<1>8. Cpt!ReportTrue'
  <2>1. \A p \in Runs : run'[p].reported \subseteq concepts'
    BY <1>3, <1>4, <1>5 DEF CardsKept, Cpt!ReportTrue
  <2>2. \A card \in concepts' : card[1] \in live'
    BY <1>4 DEF CardsKept, PendingLive, Cpt!ReportTrue
  <2>3. ASSUME NEW p \in Runs, NEW q \in Runs, p # q
        PROVE  run'[p].pending \cap run'[q].pending = {}
    BY <1>3, <1>5, <2>3 DEF CardsKept, Cpt!ReportTrue
  <2>4. \A p \in refused' : \E card \in concepts' : card[1] = p
    BY <1>4 DEF CardsKept, Cpt!ReportTrue
  <2> QED
    BY <2>1, <2>2, <2>3, <2>4 DEF Cpt!ReportTrue
<1> QED
  BY <1>6, <1>7, <1>8 DEF CardsKept

\* A repository is deleted only when no card and no session names it.
LEMMA DeleteRepoKeeps == ASSUME CardsKept, Cpt!DeleteRepo PROVE CardsKept'
<1>1. PICK p \in live :
        /\ \A r \in Runs : \A card \in run[r].pending : card[1] # p
        /\ IF \E card \in concepts : card[1] = p
           THEN refused' = refused \cup {p} /\ live' = live
           ELSE live' = live \ {p} /\ refused' = refused
        /\ UNCHANGED <<concepts, run>>
  BY DEF Cpt!DeleteRepo
<1>2. CardsTyped'
  BY <1>1 DEF CardsKept, CardsTyped
<1>3. PendingLive'
  BY <1>1 DEF CardsKept, PendingLive
<1>4. Cpt!ReportTrue'
  BY <1>1 DEF CardsKept, Cpt!ReportTrue
<1> QED
  BY <1>2, <1>3, <1>4 DEF CardsKept

LEMMA CardsNext == ASSUME CardsKept, [Cpt!Next]_conceptVars PROVE CardsKept'
<1>1. ASSUME NEW r \in Runs, Cpt!Generate(r) PROVE CardsKept'
  BY <1>1, GenerateKeeps
<1>2. ASSUME NEW r \in Runs, Cpt!BeginRepo(r) PROVE CardsKept'
  BY <1>2, BeginRepoKeeps
<1>3. ASSUME NEW r \in Runs, Cpt!Upsert(r) PROVE CardsKept'
  BY <1>3, UpsertKeeps
<1>4. ASSUME NEW r \in Runs, Cpt!RaiseAtItem(r) PROVE CardsKept'
  BY <1>4, RaiseAtItemKeeps
<1>5. ASSUME NEW r \in Runs, Cpt!DatabaseError(r) PROVE CardsKept'
  BY <1>5, DatabaseErrorKeeps
<1>6. ASSUME NEW r \in Runs, Cpt!CommitRepo(r) PROVE CardsKept'
  BY <1>6, CommitRepoKeeps
<1>7. ASSUME NEW r \in Runs, Cpt!Report(r) PROVE CardsKept'
  BY <1>7, ReportKeeps
<1>8. CASE Cpt!DeleteRepo
  BY <1>8, DeleteRepoKeeps
<1>9. CASE UNCHANGED conceptVars
  BY <1>9 DEF CardsKept, CardsTyped, PendingLive, Cpt!ReportTrue, conceptVars
<1> QED
  BY <1>1, <1>2, <1>3, <1>4, <1>5, <1>6, <1>7, <1>8, <1>9 DEF Cpt!Next

\* The cards a request reports are in the table, no card outlives its repository, no two
\* sessions hold one card and no deletion fails but for a card, whatever fails in the
\* shared session and whatever other requests and deletions overlap (extract_for_repo,
\* extract_for_all, delete_repo).
THEOREM ServicesReportTrue == Spec => []ReportTrue
<1>1. Init => CardsKept
  BY CardsInit DEF Init
<1>2. CardsKept /\ [Next]_vars => CardsKept'
  BY ConceptsStep, CardsNext
<1>3. CardsKept => ReportTrue
  BY DEF CardsKept, ReportTrue
<1> QED
  BY <1>1, <1>2, <1>3, PTL DEF Spec


-----------------------------------------------------------------------------
(* Functions and calls in the knowledge graph.                               *)

LEMMA CodeStep == [Next]_vars => [Cod!Next]_codeVars
  BY DEF Next, Held, vars

Call(f, caller, target) == [file |-> f, caller |-> caller, target |-> target]

\* What was merged of a file is in the graph, the placeholders included; an edge stands
\* for a call that was in the code.
CallsMerged ==
    /\ code \in [Files -> Cod!FileContents] /\ built \in [Files -> Cod!FileContents]
    /\ fns \subseteq Cod!Nodes
    /\ \A f \in Files : \A n \in built[f].defs : Cod!Node(f, Cod!Bare(n)) \in fns
    /\ \A f \in Files : \A c \in built[f].calls :
          \E x : x.name = c[2] /\ <<Cod!Node(f, Cod!Bare(c[1])), x>> \in edges
    /\ \A f \in Files : \A c \in code[f].calls : Call(f, Cod!Bare(c[1]), c[2]) \in ever
    /\ \A e \in edges : Call(e[1].file, e[1].name, e[2].name) \in ever

LEMMA NodeTyped ==
    /\ \A n \in Names : Cod!Bare(n) \in Cod!Texts
    /\ \A f \in Files \cup {Nothing}, t \in Cod!Texts : Cod!Node(f, t) \in Cod!Nodes
  BY DEF Cod!Bare, Cod!Texts, Cod!Node, Cod!Nodes

LEMMA NoSourceMerged ==
    Cod!NoSource \in Cod!FileContents /\ Cod!NoSource.defs = {} /\ Cod!NoSource.calls = {}
  BY DEF Cod!NoSource, Cod!FileContents

LEMMA CallsOf ==
    ASSUME NEW f, NEW s, NEW c \in s.calls
    PROVE  Call(f, Cod!Bare(c[1]), c[2]) \in Cod!Calls(f, s)
  BY DEF Call, Cod!Calls

LEMMA CodeInit == Init => CallsMerged
<1> SUFFICES ASSUME Init PROVE CallsMerged
  OBVIOUS
<1>1. code \in [Files -> Cod!FileContents]
  BY DEF Init, Cod!Init, Cod!Small
<1>2. /\ fns = {} /\ edges = {} /\ built = [f \in Files |-> Cod!NoSource]
      /\ ever = UNION {Cod!Calls(f, code[f]) : f \in Files}
  BY DEF Init, Cod!Init
<1>3. ASSUME NEW f \in Files, NEW c \in code[f].calls PROVE Call(f, Cod!Bare(c[1]), c[2]) \in ever
  BY <1>2, CallsOf
<1> QED
  BY <1>1, <1>2, <1>3, NoSourceMerged DEF CallsMerged

LEMMA MergeMerges ==
    ASSUME CallsMerged, NEW f \in Files, Cod!MergeFile(f)
    PROVE  CallsMerged'
<1> DEFINE defined == fns \cup {Cod!Node(f, Cod!Bare(n)) : n \in code[f].defs}
           missing == {c[2] : c \in {d \in code[f].calls : Cod!Named(d[2], defined) = {}}}
<1>1. /\ fns' = defined \cup {Cod!Node(Nothing, t) : t \in missing}
      /\ edges' = edges \cup UNION {{<<Cod!Node(f, Cod!Bare(c[1])), x>> : x \in Cod!Named(c[2], fns')}
                                       : c \in code[f].calls}
      /\ built' = [built EXCEPT ![f] = code[f]]
      /\ code' = code /\ ever' = ever
  BY DEF Cod!MergeFile
<1>2. ASSUME NEW c \in code[f].calls PROVE \E x \in fns' : x.name = c[2]
  <2>1. CASE Cod!Named(c[2], defined) = {}
    <3>1. Cod!Node(Nothing, c[2]) \in fns'
      BY <1>1, <2>1
    <3> QED
      BY <3>1 DEF Cod!Node
  <2>2. CASE Cod!Named(c[2], defined) # {}
    <3>1. PICK x \in defined : x.name = c[2]
      BY <2>2 DEF Cod!Named
    <3> QED
      BY <1>1, <3>1
  <2> QED
    BY <2>1, <2>2
<1>3. ASSUME NEW c \in code[f].calls
      PROVE  \E x : x.name = c[2] /\ <<Cod!Node(f, Cod!Bare(c[1])), x>> \in edges'
  <2>1. PICK x \in fns' : x.name = c[2]
    BY <1>2
  <2>2. x \in Cod!Named(c[2], fns')
    BY <2>1 DEF Cod!Named
  <2>3. <<Cod!Node(f, Cod!Bare(c[1])), x>> \in {<<Cod!Node(f, Cod!Bare(c[1])), y>> : y \in Cod!Named(c[2], fns')}
    BY <2>2
  <2>4. <<Cod!Node(f, Cod!Bare(c[1])), x>> \in
          UNION {{<<Cod!Node(f, Cod!Bare(d[1])), y>> : y \in Cod!Named(d[2], fns')} : d \in code[f].calls}
    BY <2>3
  <2>5. <<Cod!Node(f, Cod!Bare(c[1])), x>> \in edges'
    BY <1>1, <2>4
  <2> QED
    BY <2>1, <2>5
<1>4. built' \in [Files -> Cod!FileContents] /\ fns' \subseteq Cod!Nodes
  <2>1. code[f].defs \subseteq Names /\ missing \subseteq Cod!Texts
    BY DEF CallsMerged, Cod!FileContents
  <2> QED
    <3>1. \A n \in code[f].defs : Cod!Node(f, Cod!Bare(n)) \in Cod!Nodes
      BY <2>1, NodeTyped
    <3>2. \A t \in missing : Cod!Node(Nothing, t) \in Cod!Nodes
      BY <2>1, NodeTyped
    <3>3. fns \subseteq Cod!Nodes /\ built \in [Files -> Cod!FileContents] /\ code[f] \in Cod!FileContents
      BY DEF CallsMerged
    <3> HIDE DEF missing
    <3> QED
      BY <1>1, <3>1, <3>2, <3>3
<1>5. ASSUME NEW g \in Files, NEW n \in built'[g].defs PROVE Cod!Node(g, Cod!Bare(n)) \in fns'
  BY <1>1 DEF CallsMerged
<1>6. ASSUME NEW g \in Files, NEW c \in built'[g].calls
      PROVE  \E x : x.name = c[2] /\ <<Cod!Node(g, Cod!Bare(c[1])), x>> \in edges'
  <2>1. CASE g = f
    BY <1>1, <1>3, <2>1 DEF CallsMerged
  <2>2. CASE g # f
    BY <1>1, <2>2 DEF CallsMerged
  <2> QED
    BY <2>1, <2>2
<1>7. ASSUME NEW e \in edges' PROVE Call(e[1].file, e[1].name, e[2].name) \in ever
  <2>1. CASE e \in edges
    BY <2>1 DEF CallsMerged
  <2>2. CASE e \notin edges
    <3>1. PICK c \in code[f].calls :
            e \in {<<Cod!Node(f, Cod!Bare(c[1])), x>> : x \in Cod!Named(c[2], fns')}
      BY <1>1, <2>2
    <3>2. PICK x \in Cod!Named(c[2], fns') : e = <<Cod!Node(f, Cod!Bare(c[1])), x>>
      BY <3>1
    <3>3. e[1].file = f /\ e[1].name = Cod!Bare(c[1]) /\ e[2].name = c[2]
      BY <3>2 DEF Cod!Node, Cod!Named
    <3>4. Call(f, Cod!Bare(c[1]), c[2]) \in ever
      BY DEF CallsMerged
    <3> QED
      BY <3>3, <3>4
  <2> QED
    BY <2>1, <2>2
<1> QED
  BY <1>1, <1>4, <1>5, <1>6, <1>7 DEF CallsMerged

LEMMA CodeMerged == CallsMerged /\ [Cod!Next]_codeVars => CallsMerged'
<1> SUFFICES ASSUME CallsMerged, [Cod!Next]_codeVars PROVE CallsMerged'
  OBVIOUS
<1>1. ASSUME NEW f \in Files, Cod!LoseFile(f) PROVE CallsMerged'
  <2>1. code[f].defs \subseteq Names
    BY DEF CallsMerged, Cod!FileContents
  <2>2. fns \subseteq fns' /\ fns' \subseteq Cod!Nodes
    <3>1. \A n \in code[f].defs : Cod!Node(f, Cod!Bare(n)) \in Cod!Nodes
      BY <2>1, NodeTyped
    <3> QED
      BY <1>1, <3>1 DEF Cod!LoseFile, CallsMerged
  <2>3. UNCHANGED <<code, edges, built, ever>>
    BY <1>1 DEF Cod!LoseFile
  <2>4. \A g \in Files : \A n \in built'[g].defs : Cod!Node(g, Cod!Bare(n)) \in fns'
    BY <2>2, <2>3 DEF CallsMerged
  <2>5. \A g \in Files : \A c \in built'[g].calls :
          \E x : x.name = c[2] /\ <<Cod!Node(g, Cod!Bare(c[1])), x>> \in edges'
    BY <2>3 DEF CallsMerged
  <2>6. /\ \A g \in Files : \A c \in code'[g].calls : Call(g, Cod!Bare(c[1]), c[2]) \in ever'
        /\ \A e \in edges' : Call(e[1].file, e[1].name, e[2].name) \in ever'
        /\ code' \in [Files -> Cod!FileContents] /\ built' \in [Files -> Cod!FileContents]
    BY <2>3 DEF CallsMerged
  <2> QED
    BY <2>2, <2>4, <2>5, <2>6 DEF CallsMerged
<1>2. CASE Cod!Edit
  <2>1. PICK f \in Files : \E s \in Cod!Small :
          /\ code' = [code EXCEPT ![f] = s]
          /\ ever' = ever \cup Cod!Calls(f, s)
          /\ built' = [built EXCEPT ![f] = Cod!NoSource]
    BY <1>2 DEF Cod!Edit
  <2>2. PICK s \in Cod!Small :
          /\ code' = [code EXCEPT ![f] = s]
          /\ ever' = ever \cup Cod!Calls(f, s)
          /\ built' = [built EXCEPT ![f] = Cod!NoSource]
    BY <2>1
  <2>3. UNCHANGED <<fns, edges>> /\ s \in Cod!FileContents
    BY <1>2 DEF Cod!Edit, Cod!Small
  <2>4. ASSUME NEW g \in Files, NEW c \in code'[g].calls PROVE Call(g, Cod!Bare(c[1]), c[2]) \in ever'
    BY <2>2, CallsOf DEF CallsMerged
  <2>5. ASSUME NEW g \in Files PROVE built'[g] = built[g] \/ built'[g] = Cod!NoSource
    BY <2>2 DEF CallsMerged
  <2>6. code' \in [Files -> Cod!FileContents] /\ built' \in [Files -> Cod!FileContents]
    BY <2>2, <2>3, NoSourceMerged DEF CallsMerged
  <2>7. \A f1 \in Files : \A n \in built'[f1].defs : Cod!Node(f1, Cod!Bare(n)) \in fns'
    BY <2>3, <2>5, NoSourceMerged DEF CallsMerged
  <2>8. \A f1 \in Files : \A c \in built'[f1].calls :
          \E x : x.name = c[2] /\ <<Cod!Node(f1, Cod!Bare(c[1])), x>> \in edges'
    BY <2>3, <2>5, NoSourceMerged DEF CallsMerged
  <2>9. \A e \in edges' : Call(e[1].file, e[1].name, e[2].name) \in ever'
    BY <2>2, <2>3 DEF CallsMerged
  <2>10. fns' \subseteq Cod!Nodes
    BY <2>3 DEF CallsMerged
  <2> QED
    BY <2>4, <2>6, <2>7, <2>8, <2>9, <2>10 DEF CallsMerged
<1>3. CASE Cod!Begin
  BY <1>3 DEF Cod!Begin, CallsMerged
<1>4. CASE Cod!DeleteRepo
  BY <1>4, NoSourceMerged DEF Cod!DeleteRepo, CallsMerged
<1>5. CASE UNCHANGED codeVars
  BY <1>5 DEF codeVars, CallsMerged
<1> QED
  BY <1>1, <1>2, <1>3, <1>4, <1>5, MergeMerges DEF Cod!Next

LEMMA CodeCardinality == \A S : Cod!Cardinality(S) = Cardinality(S)
  BY DEF Cod!Cardinality, Cardinality

LEMMA TextsFinite == IsFiniteSet(Cod!Texts)
<1> DEFINE h == [q \in Names \X BOOLEAN |-> [of |-> q[1], bare |-> q[2]]]
<1>1. IsFiniteSet({TRUE}) /\ IsFiniteSet({FALSE}) /\ BOOLEAN = {TRUE} \cup {FALSE}
  BY FS_Singleton
<1>2. IsFiniteSet(BOOLEAN)
  BY <1>1, FS_Union
<1>3. IsFiniteSet(Names \X BOOLEAN)
  BY <1>2, FiniteAssumption, FS_Product
<1>4. h \in [Names \X BOOLEAN -> Cod!Texts]
  BY DEF Cod!Texts
<1>5. ASSUME NEW t \in Cod!Texts PROVE \E q \in Names \X BOOLEAN : h[q] = t
  <2>1. <<t.of, t.bare>> \in Names \X BOOLEAN /\ h[<<t.of, t.bare>>] = t
    BY DEF Cod!Texts
  <2> QED
    BY <2>1
<1> HIDE DEF h
<1>6. h \in Surjection(Names \X BOOLEAN, Cod!Texts)
  BY <1>4, <1>5 DEF Surjection
<1> QED
  BY <1>3, <1>6, FS_Surjection

\* The functions of a file in the graph are at least those that were merged of it.
LEMMA FunctionsCounted ==
    ASSUME CallsMerged, NEW f \in Files
    PROVE  Cod!FunctionCount(f) >= Cod!Cardinality(built[f].defs)
<1> DEFINE D == built[f].defs
           N == {x \in fns : x.file = f}
           P == {t \in Cod!Texts : Cod!Node(f, t) \in fns}
           g == [t \in P |-> Cod!Node(f, t)]
           h == [n \in D |-> Cod!Node(f, Cod!Bare(n))]
<1>1. \A t \in P : g[t] \in N /\ g[t].name = t
  BY DEF Cod!Node
<1>2. ASSUME NEW x \in N PROVE x.name \in P /\ g[x.name] = x
  <2>1. x \in Cod!Nodes /\ x.file = f /\ x \in fns
    BY DEF CallsMerged
  <2>2. x = Cod!Node(f, x.name) /\ x.name \in Cod!Texts
    BY <2>1 DEF Cod!Nodes, Cod!Node
  <2> QED
    BY <2>1, <2>2
<1>3. g \in [P -> N]
  BY <1>1
<1>4. \A n \in D : h[n] \in N /\ h[n].name.of = n
  BY DEF CallsMerged, Cod!Node, Cod!Bare
<1>5. h \in [D -> N]
  BY <1>4
<1> HIDE DEF g, h
<1>6. g \in Surjection(P, N)
  BY <1>2, <1>3 DEF Surjection
<1>7. IsFiniteSet(P)
  BY TextsFinite, FS_Subset
<1>8. h \in Injection(D, N)
  BY <1>4, <1>5 DEF Injection, IsInjective
<1> HIDE DEF P, N, D
<1>9. IsFiniteSet(N)
  BY <1>6, <1>7, FS_Surjection
<1>10. IsFiniteSet(D) /\ Cardinality(D) <= Cardinality(N)
  BY <1>8, <1>9, FS_Injection
<1>11. Cardinality(D) \in Nat /\ Cardinality(N) \in Nat
  BY <1>9, <1>10, FS_CardinalityType
<1> QED
  BY <1>10, <1>11, CodeCardinality DEF Cod!FunctionCount, N, D

\* An answer is of edges in the graph, and of all that match when they are no more than the limit.
LEMMA AnswersLimited ==
  ASSUME NEW S, NEW found \in Cod!Limited(S)
  PROVE  found \subseteq S /\ (Cod!Cardinality(S) <= Limit => found = S)
  BY DEF Cod!Limited

\* Every call merged of a file and not edited since is found from both its ends, unless more
\* edges than the limit compete, and nothing is reported that was never in the code
\* (_build_graph_sync, find_dependents, find_dependencies).
THEOREM ServicesCallsFound == Spec => []CallsFound
<1>1. ASSUME CallsMerged, NEW f \in Files, NEW c \in built[f].calls
      PROVE  /\ Cod!Cardinality(Cod!Into(c[2])) <= Limit =>
                   \A answer \in Cod!FindDependents(c[2]) : Cod!Node(f, Cod!Bare(c[1])) \in answer
             /\ Cod!Cardinality(Cod!OutOf(Cod!Bare(c[1]))) <= Limit =>
                   \A answer \in Cod!FindDependencies(Cod!Bare(c[1])) : \E x \in answer : x.name = c[2]
  <2>1. PICK x : x.name = c[2] /\ <<Cod!Node(f, Cod!Bare(c[1])), x>> \in edges
    BY <1>1 DEF CallsMerged
  <2> DEFINE e == <<Cod!Node(f, Cod!Bare(c[1])), x>>
  <2>2. e[1] = Cod!Node(f, Cod!Bare(c[1])) /\ e[2] = x /\ e[1].name = Cod!Bare(c[1]) /\ e \in edges
    BY <2>1 DEF Cod!Node
  <2> HIDE DEF e
  <2>3. e \in Cod!Into(c[2]) /\ e \in Cod!OutOf(Cod!Bare(c[1]))
    BY <2>1, <2>2 DEF Cod!Into, Cod!OutOf
  <2>4. ASSUME Cod!Cardinality(Cod!Into(c[2])) <= Limit, NEW answer \in Cod!FindDependents(c[2])
        PROVE  Cod!Node(f, Cod!Bare(c[1])) \in answer
    <3>1. PICK found \in Cod!Limited(Cod!Into(c[2])) : answer = {d[1] : d \in found}
      BY <2>4 DEF Cod!FindDependents
    <3>2. e \in found
      BY <2>3, <2>4, AnswersLimited
    <3> QED
      BY <2>2, <3>1, <3>2
  <2>5. ASSUME Cod!Cardinality(Cod!OutOf(Cod!Bare(c[1]))) <= Limit,
               NEW answer \in Cod!FindDependencies(Cod!Bare(c[1]))
        PROVE  \E y \in answer : y.name = c[2]
    <3>1. PICK found \in Cod!Limited(Cod!OutOf(Cod!Bare(c[1]))) : answer = {d[2] : d \in found}
      BY <2>5 DEF Cod!FindDependencies
    <3>2. e \in found
      BY <2>3, <2>5, AnswersLimited
    <3> QED
      BY <2>1, <2>2, <3>1, <3>2
  <2> QED
    BY <2>4, <2>5
<1>2. ASSUME CallsMerged, NEW t \in Cod!Texts, NEW answer \in Cod!FindDependents(t), NEW x \in answer
      PROVE  Call(x.file, x.name, t) \in ever
  <2>1. PICK found \in Cod!Limited(Cod!Into(t)) : answer = {d[1] : d \in found}
    BY DEF Cod!FindDependents
  <2>2. PICK e \in found : x = e[1]
    BY <2>1
  <2>3. e \in edges /\ e[2].name = t
    BY <2>2, AnswersLimited DEF Cod!Into
  <2> QED
    BY <1>2, <2>2, <2>3 DEF CallsMerged
<1>3. CallsMerged => CallsFound
  BY <1>1, <1>2, FunctionsCounted DEF CallsFound, Cod!CallsFound, Call
<1> QED
  BY <1>3, CodeInit, CodeStep, CodeMerged, PTL DEF Spec


-----------------------------------------------------------------------------
(* Memory.                                                                   *)

LEMMA MemoryStep == [Next]_vars => [Mem!Next]_memoryVars
  BY DEF Next, Held, vars

LEMMA MemoryCardinality == \A S : Mem!Cardinality(S) = Cardinality(S)
  BY DEF Mem!Cardinality, Cardinality

\* Both memories, and the saved one, are sequences of items; working memory keeps its cap.
MemoryKept ==
    /\ working \in Seq(Nat) /\ Len(working) <= MaxWorking
    /\ episodic \in Seq(Nat) /\ savedMemory.episodic \in Seq(Nat) /\ remembered \in Nat

\* What is in a sequence that was put together, or lost its last element.
LEMMA ItemsJoined ==
  ASSUME NEW s \in Seq(Nat), NEW t \in Seq(Nat)
  PROVE  s \o t \in Seq(Nat) /\ Mem!ToSet(s \o t) = Mem!ToSet(s) \cup Mem!ToSet(t)
<1>1. s \o t \in Seq(Nat) /\ Len(s \o t) = Len(s) + Len(t) /\ Len(s) \in Nat /\ Len(t) \in Nat
  OBVIOUS
<1>2. /\ \A i \in 1..Len(s) : (s \o t)[i] = s[i]
      /\ \A i \in 1..Len(t) : (s \o t)[Len(s) + i] = t[i]
  OBVIOUS
<1>3. DOMAIN s = 1..Len(s) /\ DOMAIN t = 1..Len(t) /\ DOMAIN (s \o t) = 1..(Len(s) + Len(t))
  BY <1>1
<1>4. \A i \in 1..(Len(s) + Len(t)) : i \in 1..Len(s) \/ \E j \in 1..Len(t) : i = Len(s) + j
  <2> SUFFICES ASSUME NEW i \in 1..(Len(s) + Len(t)), i \notin 1..Len(s)
               PROVE  \E j \in 1..Len(t) : i = Len(s) + j
    OBVIOUS
  <2>1. i - Len(s) \in 1..Len(t) /\ i = Len(s) + (i - Len(s))
    BY <1>1
  <2> QED
    BY <2>1
<1>5. ASSUME NEW x PROVE x \in Mem!ToSet(s \o t) <=> x \in Mem!ToSet(s) \/ x \in Mem!ToSet(t)
  <2>1. ASSUME NEW i \in 1..(Len(s) + Len(t)), x = (s \o t)[i]
        PROVE  x \in Mem!ToSet(s) \/ x \in Mem!ToSet(t)
    <3>1. CASE i \in 1..Len(s)
      BY <1>2, <1>3, <2>1, <3>1 DEF Mem!ToSet
    <3>2. CASE i \notin 1..Len(s)
      <4>1. PICK j \in 1..Len(t) : i = Len(s) + j
        BY <1>4, <3>2
      <4>2. x = t[j]
        BY <1>2, <2>1, <4>1
      <4> QED
        BY <1>3, <4>2 DEF Mem!ToSet
    <3> QED
      BY <3>1, <3>2
  <2>2. ASSUME NEW i \in 1..Len(s), x = s[i] PROVE x \in Mem!ToSet(s \o t)
    <3>1. i \in 1..(Len(s) + Len(t)) /\ x = (s \o t)[i]
      BY <1>1, <1>2, <2>2
    <3> QED
      BY <1>3, <3>1 DEF Mem!ToSet
  <2>3. ASSUME NEW i \in 1..Len(t), x = t[i] PROVE x \in Mem!ToSet(s \o t)
    <3>1. Len(s) + i \in 1..(Len(s) + Len(t)) /\ x = (s \o t)[Len(s) + i]
      BY <1>1, <1>2, <2>3
    <3> QED
      BY <1>3, <3>1 DEF Mem!ToSet
  <2> QED
    BY <1>3, <2>1, <2>2, <2>3 DEF Mem!ToSet
<1> QED
  BY <1>1, <1>5

LEMMA ItemAlone ==
  ASSUME NEW x \in Nat
  PROVE  <<x>> \in Seq(Nat) /\ Len(<<x>>) = 1 /\ Mem!ToSet(<<x>>) = {x}
<1>1. <<x>> \in Seq(Nat) /\ Len(<<x>>) = 1 /\ DOMAIN <<x>> = {1} /\ <<x>>[1] = x
  OBVIOUS
<1> QED
  BY <1>1 DEF Mem!ToSet

LEMMA ItemInFront ==
  ASSUME NEW s \in Seq(Nat), NEW x \in Nat
  PROVE  /\ <<x>> \o s \in Seq(Nat) /\ Len(<<x>> \o s) = Len(s) + 1
         /\ Head(<<x>> \o s) = x /\ Mem!ToSet(<<x>> \o s) = {x} \cup Mem!ToSet(s)
<1>1. Len(<<x>> \o s) = Len(s) + 1 /\ Head(<<x>> \o s) = x
  OBVIOUS
<1>2. /\ <<x>> \o s \in Seq(Nat)
      /\ Mem!ToSet(<<x>> \o s) = Mem!ToSet(<<x>>) \cup Mem!ToSet(s)
  BY ItemAlone, ItemsJoined
<1> QED
  BY <1>1, <1>2, ItemAlone

LEMMA ItemAppended ==
  ASSUME NEW s \in Seq(Nat), NEW x \in Nat
  PROVE  /\ Append(s, x) \in Seq(Nat) /\ Len(Append(s, x)) = Len(s) + 1
         /\ Mem!ToSet(Append(s, x)) = Mem!ToSet(s) \cup {x}
<1>1. Append(s, x) = s \o <<x>>
  OBVIOUS
<1>2. Append(s, x) \in Seq(Nat) /\ Len(Append(s, x)) = Len(s) + 1
  OBVIOUS
<1>3. Mem!ToSet(s \o <<x>>) = Mem!ToSet(s) \cup Mem!ToSet(<<x>>)
  BY ItemAlone, ItemsJoined
<1> QED
  BY <1>1, <1>2, <1>3, ItemAlone

LEMMA LastItem ==
  ASSUME NEW s \in Seq(Nat), Len(s) > 0
  PROVE  /\ Mem!Front(s) \in Seq(Nat) /\ Len(Mem!Front(s)) = Len(s) - 1 /\ Mem!Last(s) \in Nat
         /\ Mem!ToSet(s) = Mem!ToSet(Mem!Front(s)) \cup {Mem!Last(s)}
<1>1. PICK n \in Nat : n = Len(s) - 1
  OBVIOUS
<1>2. PICK f : f = SubSeq(s, 1, n)
  OBVIOUS
<1>3. f \in Seq(Nat) /\ Len(f) = n /\ \A i \in 1..n : f[i] = s[i]
  <2>1. n <= Len(s) /\ Len(s) \in Nat
    BY <1>1
  <2>2. f = [i \in 1..n |-> s[i]]
    BY <1>2, <2>1
  <2>3. \A i \in 1..n : s[i] \in Nat
    BY <2>1
  <2>4. f \in [1..n -> Nat]
    BY <2>2, <2>3
  <2> QED
    BY <2>2, <2>4
<1>4. Mem!Front(s) = f /\ Mem!Last(s) = s[n + 1] /\ s[n + 1] \in Nat
  BY <1>1, <1>2 DEF Mem!Front, Mem!Last
<1>5. DOMAIN s = 1..(n + 1) /\ DOMAIN f = 1..n
  BY <1>1, <1>3
<1>6. \A i \in 1..(n + 1) : i \in 1..n \/ i = n + 1
  OBVIOUS
<1>7. Mem!ToSet(s) = Mem!ToSet(f) \cup {s[n + 1]}
  <2>1. \A i \in 1..n : i \in 1..(n + 1)
    OBVIOUS
  <2>2. n + 1 \in 1..(n + 1)
    OBVIOUS
  <2> QED
    BY <1>3, <1>5, <1>6, <2>1, <2>2 DEF Mem!ToSet
<1> QED
  BY <1>1, <1>3, <1>4, <1>7

\* Cutting n + 1 items down to n drops one of them.
LEMMA CutDropsOne ==
  ASSUME NEW n \in Nat, NEW best \in Mem!Injection(1..n, 1..(n + 1))
  PROVE  \E j : \A i \in 1..(n + 1) : i # j => \E k \in 1..n : best[k] = i
<1> DEFINE R == {best[k] : k \in 1..n}
<1>1. best \in [1..n -> 1..(n + 1)] /\ \A a, b \in 1..n : best[a] = best[b] => a = b
  BY DEF Mem!Injection, Mem!IsInjective
<1>2. best \in Bijection(1..n, R)
  BY <1>1 DEF Bijection, Injection, Surjection, IsInjective
<1>3. IsFiniteSet(1..n) /\ Cardinality(1..n) = n
  BY FS_Interval
<1>4. IsFiniteSet(1..(n + 1)) /\ Cardinality(1..(n + 1)) = n + 1
  BY FS_Interval
<1>5. R \subseteq 1..(n + 1)
  BY <1>1
<1> HIDE DEF R
<1>6. Cardinality(R) = n
  BY <1>2, <1>3, FS_Bijection DEF ExistsBijection
<1>7. /\ IsFiniteSet((1..(n + 1)) \ R)
      /\ Cardinality((1..(n + 1)) \ R) = Cardinality(1..(n + 1)) - Cardinality((1..(n + 1)) \cap R)
  BY <1>4, FS_Difference
<1>8. (1..(n + 1)) \cap R = R
  BY <1>5
<1>9. Cardinality((1..(n + 1)) \ R) = 1
  <2>1. Cardinality((1..(n + 1)) \cap R) = n
    BY <1>6, <1>8
  <2>2. Cardinality((1..(n + 1)) \ R) = (n + 1) - n
    BY <1>4, <1>7, <2>1
  <2> QED
    BY <2>2
<1>10. PICK j : (1..(n + 1)) \ R = {j}
  BY <1>7, <1>9, FS_Singleton
<1>11. \A i \in 1..(n + 1) : i # j => i \in R
  BY <1>10
<1> QED
  BY <1>11 DEF R

LEMMA CappedItems ==
  ASSUME NEW s \in Seq(Nat), NEW t \in Mem!Capped(s)
  PROVE  /\ t \in Seq(Nat)
         /\ Len(s) <= MaxEpisodic => t = s
         /\ Len(s) = MaxEpisodic + 1 => \E x : Mem!ToSet(s) \ Mem!ToSet(t) \subseteq {x}
<1> USE MemoryAssumption
<1>1. CASE Len(s) <= MaxEpisodic
  BY <1>1 DEF Mem!Capped
<1>2. CASE ~(Len(s) <= MaxEpisodic)
  <2>1. PICK best \in Mem!Injection(1..MaxEpisodic, 1..Len(s)) : t = [i \in 1..MaxEpisodic |-> s[best[i]]]
    BY <1>2 DEF Mem!Capped
  <2>2. best \in [1..MaxEpisodic -> 1..Len(s)]
    BY <2>1 DEF Mem!Injection
  <2>3. \A i \in 1..MaxEpisodic : s[best[i]] \in Nat
    BY <2>2
  <2>4. t \in [1..MaxEpisodic -> Nat]
    BY <2>1, <2>3
  <2>5. t \in Seq(Nat) /\ DOMAIN t = 1..MaxEpisodic
    BY <2>4
  <2>6. ASSUME Len(s) = MaxEpisodic + 1 PROVE \E x : Mem!ToSet(s) \ Mem!ToSet(t) \subseteq {x}
    <3>1. PICK j : \A i \in 1..(MaxEpisodic + 1) : i # j => \E k \in 1..MaxEpisodic : best[k] = i
      <4>1. best \in Mem!Injection(1..MaxEpisodic, 1..(MaxEpisodic + 1)) /\ MaxEpisodic \in Nat
        BY <2>1, <2>6
      <4> QED
        BY <4>1, CutDropsOne
    <3>2. ASSUME NEW x \in Mem!ToSet(s) \ Mem!ToSet(t) PROVE x = s[j]
      <4>1. PICK i \in 1..(MaxEpisodic + 1) : x = s[i]
        BY <2>6 DEF Mem!ToSet
      <4>2. CASE i = j
        BY <4>1, <4>2
      <4>3. CASE i # j
        <5>1. PICK k \in 1..MaxEpisodic : best[k] = i
          BY <3>1, <4>3
        <5>2. t[k] = x
          BY <2>1, <4>1, <5>1
        <5> QED
          BY <2>5, <5>2 DEF Mem!ToSet
      <4> QED
        BY <4>2, <4>3
    <3> QED
      BY <3>2
  <2> QED
    BY <1>2, <2>5, <2>6
<1> QED
  BY <1>1, <1>2

\* A step forgets nothing, or as ForgetsOnlyWhenFull allows.
ForgetsRightly ==
    Mem!Held \ Mem!Held' # {} =>
          \/ working' = <<>> /\ episodic' = <<>>
          \/ Len(episodic) > MaxEpisodic
          \/ /\ Len(working) = MaxWorking /\ Mem!Cardinality(Mem!Held \ Mem!Held') = 1
             /\ Len(episodic) = MaxEpisodic \/ Head(working') \in Mem!ToSet(episodic)

LEMMA OneForgotten ==
  ASSUME NEW S, NEW x, S \subseteq {x}, S # {}
  PROVE  Mem!Cardinality(S) = 1
<1>1. S = {x}
  OBVIOUS
<1> QED
  BY <1>1, FS_Singleton, MemoryCardinality

LEMMA RememberKept ==
  ASSUME MemoryKept, NEW important \in BOOLEAN, Mem!Remember(important)
  PROVE  MemoryKept' /\ ForgetsRightly
<1> USE MemoryAssumption
<1>1. PICK item \in Nat : item = remembered + 1
  BY DEF MemoryKept
<1>2. PICK all : all = IF important THEN <<item>> \o working ELSE Append(working, item)
  OBVIOUS
<1>3. /\ all \in Seq(Nat) /\ Len(all) = Len(working) + 1
      /\ Mem!ToSet(all) = Mem!ToSet(working) \cup {item}
  <2>1. working \in Seq(Nat)
    BY DEF MemoryKept
  <2>2. CASE important
    <3>1. /\ <<item>> \o working \in Seq(Nat) /\ Len(<<item>> \o working) = Len(working) + 1
          /\ Mem!ToSet(<<item>> \o working) = {item} \cup Mem!ToSet(working)
      BY <2>1, ItemInFront
    <3>2. all = <<item>> \o working
      BY <1>2, <2>2
    <3> QED
      BY <3>1, <3>2
  <2>3. CASE ~important
    BY <1>2, <2>1, <2>3, ItemAppended
  <2> QED
    BY <2>2, <2>3
<1>4. /\ remembered' = item
      /\ IF Len(all) > MaxWorking
         THEN working' = Mem!Front(all) /\ episodic' \in Mem!Capped(Append(episodic, Mem!Last(all)))
         ELSE working' = all /\ episodic' \in Mem!Capped(episodic)
      /\ savedMemory' = savedMemory
  BY <1>1, <1>2 DEF Mem!Remember
<1>5. /\ working \in Seq(Nat) /\ Len(working) \in Nat /\ Len(working) <= MaxWorking
      /\ episodic \in Seq(Nat) /\ Len(episodic) \in Nat
  BY DEF MemoryKept
<1>6. CASE Len(all) > MaxWorking
  <2>1. Len(working) = MaxWorking /\ Len(all) > 0
    BY <1>3, <1>5, <1>6
  <2>2. /\ working' \in Seq(Nat) /\ Len(working') = Len(working) /\ Mem!Last(all) \in Nat
        /\ Mem!ToSet(all) = Mem!ToSet(working') \cup {Mem!Last(all)}
    BY <1>3, <1>4, <1>6, <2>1, LastItem
  <2>3. PICK long : long = Append(episodic, Mem!Last(all))
    OBVIOUS
  <2>4. /\ long \in Seq(Nat) /\ Len(long) = Len(episodic) + 1
        /\ Mem!ToSet(long) = Mem!ToSet(episodic) \cup {Mem!Last(all)}
    BY <1>5, <2>2, <2>3, ItemAppended
  <2>5. /\ episodic' \in Seq(Nat)
        /\ Len(long) <= MaxEpisodic => episodic' = long
        /\ Len(long) = MaxEpisodic + 1 => \E x : Mem!ToSet(long) \ Mem!ToSet(episodic') \subseteq {x}
    BY <1>4, <1>6, <2>3, <2>4, CappedItems
  <2>6. MemoryKept'
    BY <1>1, <1>4, <1>5, <2>2, <2>5 DEF MemoryKept
  <2>7. Mem!Held \subseteq Mem!ToSet(working') \cup Mem!ToSet(long)
    BY <1>3, <2>2, <2>4 DEF Mem!Held
  <2>8. Mem!Held' = Mem!ToSet(working') \cup Mem!ToSet(episodic')
    BY DEF Mem!Held, Mem!ToSet
  <2>9. Mem!Held \ Mem!Held' \subseteq Mem!ToSet(long) \ Mem!ToSet(episodic')
    BY <2>7, <2>8
  <2>10. CASE Len(long) <= MaxEpisodic
    BY <2>5, <2>6, <2>9, <2>10 DEF ForgetsRightly
  <2>11. CASE Len(long) = MaxEpisodic + 1
    <3>1. Len(episodic) = MaxEpisodic
      BY <1>5, <2>4, <2>11
    <3>2. PICK x : Mem!Held \ Mem!Held' \subseteq {x}
      BY <2>5, <2>9, <2>11
    <3>3. Mem!Held \ Mem!Held' # {} => Mem!Cardinality(Mem!Held \ Mem!Held') = 1
      BY <3>2, OneForgotten
    <3> QED
      BY <2>1, <2>6, <3>1, <3>3 DEF ForgetsRightly
  <2>12. CASE Len(long) > MaxEpisodic + 1
    <3>1. Len(episodic) > MaxEpisodic
      BY <1>5, <2>4, <2>12
    <3> QED
      BY <2>6, <3>1 DEF ForgetsRightly
  <2>13. Len(long) <= MaxEpisodic \/ Len(long) = MaxEpisodic + 1 \/ Len(long) > MaxEpisodic + 1
    BY <1>5, <2>4
  <2> QED
    BY <2>10, <2>11, <2>12, <2>13
<1>7. CASE ~(Len(all) > MaxWorking)
  <2>1. working' = all /\ Len(all) <= MaxWorking
    BY <1>3, <1>4, <1>5, <1>7
  <2>2. /\ episodic' \in Seq(Nat)
        /\ Len(episodic) <= MaxEpisodic => episodic' = episodic
    BY <1>4, <1>5, <1>7, CappedItems
  <2>3. MemoryKept'
    BY <1>1, <1>3, <1>4, <2>1, <2>2 DEF MemoryKept
  <2>4. CASE Len(episodic) <= MaxEpisodic
    <3>1. Mem!ToSet(working') = Mem!ToSet(working) \cup {item} /\ Mem!ToSet(episodic') = Mem!ToSet(episodic)
      BY <1>3, <2>1, <2>2, <2>4
    <3>2. Mem!Held' = Mem!ToSet(working') \cup Mem!ToSet(episodic')
      BY DEF Mem!Held, Mem!ToSet
    <3>3. Mem!Held \ Mem!Held' = {}
      BY <3>1, <3>2 DEF Mem!Held
    <3> QED
      BY <2>3, <3>3 DEF ForgetsRightly
  <2>5. CASE ~(Len(episodic) <= MaxEpisodic)
    <3>1. Len(episodic) > MaxEpisodic
      BY <1>5, <2>5
    <3> QED
      BY <2>3, <3>1 DEF ForgetsRightly
  <2> QED
    BY <2>4, <2>5
<1> QED
  BY <1>6, <1>7

LEMMA RecallKept ==
  ASSUME MemoryKept, Mem!Recall
  PROVE  MemoryKept' /\ ForgetsRightly
<1> USE MemoryAssumption
<1>1. PICK item \in Mem!ToSet(episodic) \ Mem!ToSet(working) :
        working' = IF Len(working) = MaxWorking THEN <<item>> \o Mem!Front(working)
                   ELSE <<item>> \o working
  BY DEF Mem!Recall
<1>2. UNCHANGED <<episodic, savedMemory, remembered>>
  BY DEF Mem!Recall
<1>3. /\ working \in Seq(Nat) /\ Len(working) \in Nat /\ Len(working) <= MaxWorking
      /\ episodic \in Seq(Nat)
  BY DEF MemoryKept
<1>4. item \in Nat
  <2>1. PICK i \in DOMAIN episodic : item = episodic[i]
    BY <1>1 DEF Mem!ToSet
  <2> QED
    BY <1>3, <2>1
<1>5. Mem!Held' = Mem!ToSet(working') \cup Mem!ToSet(episodic)
  BY <1>2 DEF Mem!Held, Mem!ToSet
<1>6. CASE Len(working) = MaxWorking
  <2>1. PICK front : front = Mem!Front(working)
    OBVIOUS
  <2>2. /\ front \in Seq(Nat) /\ Len(front) = Len(working) - 1
        /\ Mem!ToSet(working) = Mem!ToSet(front) \cup {Mem!Last(working)}
    <3>1. Len(working) > 0
      BY <1>6
    <3> QED
      BY <1>3, <2>1, <3>1, LastItem
  <2>3. working' = <<item>> \o front
    BY <1>1, <1>6, <2>1
  <2>4. /\ working' \in Seq(Nat) /\ Len(working') = MaxWorking /\ Head(working') = item
        /\ Mem!ToSet(working') = {item} \cup Mem!ToSet(front)
    <3>1. /\ <<item>> \o front \in Seq(Nat) /\ Len(<<item>> \o front) = Len(front) + 1
          /\ Head(<<item>> \o front) = item
          /\ Mem!ToSet(<<item>> \o front) = {item} \cup Mem!ToSet(front)
      BY <1>4, <2>2, ItemInFront
    <3>2. Len(front) + 1 = MaxWorking
      BY <1>3, <1>6, <2>2
    <3> QED
      BY <2>3, <3>1, <3>2
  <2>5. MemoryKept'
    BY <1>2, <2>4 DEF MemoryKept
  <2>6. Mem!Held \ Mem!Held' \subseteq {Mem!Last(working)}
    BY <1>5, <2>2, <2>4 DEF Mem!Held
  <2>7. Mem!Held \ Mem!Held' # {} => Mem!Cardinality(Mem!Held \ Mem!Held') = 1
    BY <2>6, OneForgotten
  <2>8. Head(working') \in Mem!ToSet(episodic)
    BY <1>1, <2>4
  <2> QED
    BY <1>6, <2>5, <2>7, <2>8 DEF ForgetsRightly
<1>7. CASE Len(working) # MaxWorking
  <2>1. working' = <<item>> \o working
    BY <1>1, <1>7
  <2>2. /\ working' \in Seq(Nat) /\ Len(working') = Len(working) + 1
        /\ Mem!ToSet(working') = {item} \cup Mem!ToSet(working)
    BY <1>3, <1>4, <2>1, ItemInFront
  <2>3. Len(working') <= MaxWorking
    BY <1>3, <1>7, <2>2
  <2>4. MemoryKept'
    BY <1>2, <2>2, <2>3 DEF MemoryKept
  <2>5. Mem!Held \ Mem!Held' = {}
    BY <1>5, <2>2 DEF Mem!Held
  <2> QED
    BY <2>4, <2>5 DEF ForgetsRightly
<1> QED
  BY <1>6, <1>7

LEMMA MemoryNext ==
  ASSUME MemoryKept, Mem!Next
  PROVE  MemoryKept' /\ ForgetsRightly
<1> USE MemoryAssumption
<1>1. CASE Mem!NotifyChanges
  BY <1>1, RememberKept DEF Mem!NotifyChanges
<1>2. CASE Mem!Recall
  BY <1>2, RecallKept
<1>3. CASE Mem!PersistToDb
  <2>1. PICK n : n = IF Len(episodic) < MaxSaved THEN Len(episodic) ELSE MaxSaved
    OBVIOUS
  <2>2. /\ savedMemory'.episodic = SubSeq(episodic, 1, n)
        /\ UNCHANGED <<working, episodic, remembered>>
    BY <1>3, <2>1 DEF Mem!PersistToDb
  <2>3. episodic \in Seq(Nat) /\ Len(episodic) \in Nat
    BY DEF MemoryKept
  <2>4. n \in Nat /\ n <= Len(episodic)
    BY <2>1, <2>3
  <2>5. SubSeq(episodic, 1, n) \in Seq(Nat)
    BY <2>3, <2>4
  <2> QED
    BY <2>2, <2>5 DEF MemoryKept, ForgetsRightly, Mem!Held, Mem!ToSet
<1>4. CASE Mem!LoadFromDb
  <2>1. episodic' = episodic \o savedMemory.episodic /\ UNCHANGED <<working, savedMemory, remembered>>
    BY <1>4 DEF Mem!LoadFromDb
  <2>2. /\ episodic' \in Seq(Nat)
        /\ Mem!ToSet(episodic') = Mem!ToSet(episodic) \cup Mem!ToSet(savedMemory.episodic)
    BY <2>1, ItemsJoined DEF MemoryKept
  <2>3. Mem!Held' = Mem!ToSet(working) \cup Mem!ToSet(episodic')
    BY <2>1 DEF Mem!Held, Mem!ToSet
  <2>4. Mem!Held \ Mem!Held' = {}
    BY <2>2, <2>3 DEF Mem!Held
  <2> QED
    BY <2>1, <2>2, <2>4 DEF MemoryKept, ForgetsRightly
<1>5. CASE Mem!RestartApi
  <2>1. /\ working' = <<>> /\ episodic' = <<>> /\ UNCHANGED <<savedMemory, remembered>>
    BY <1>5 DEF Mem!RestartApi
  <2>2. <<>> \in Seq(Nat) /\ Len(<<>>) = 0
    OBVIOUS
  <2> QED
    BY <2>1, <2>2 DEF MemoryKept, ForgetsRightly
<1>6. CASE \E l \in Lessons : Mem!LearnPreference(l) \/ Mem!LearnConvention(l)
  <2>1. UNCHANGED <<working, episodic, savedMemory, remembered>>
    BY <1>6 DEF Mem!LearnPreference, Mem!LearnConvention
  <2> QED
    BY <2>1 DEF MemoryKept, ForgetsRightly, Mem!Held, Mem!ToSet
<1> QED
  BY <1>1, <1>2, <1>3, <1>4, <1>5, <1>6 DEF Mem!Next

\* Whatever is remembered, recalled, saved and loaded, an item is forgotten in one of the
\* ways the code means: by a restart, after a load that overfilled the memory, or one at a
\* time when it is full (remember, recall).
THEOREM ServicesForgetsOnlyWhenFull == Spec => ForgetsOnlyWhenFull
<1>1. Init => MemoryKept
  <2>1. <<>> \in Seq(Nat) /\ Len(<<>>) = 0
    OBVIOUS
  <2> QED
    BY <2>1, MemoryAssumption DEF Init, Mem!Init, Mem!NoState, MemoryKept
<1>2. MemoryKept /\ [Next]_vars => MemoryKept' /\ [ForgetsRightly]_memoryVars
  <2> SUFFICES ASSUME MemoryKept, [Next]_vars PROVE MemoryKept' /\ [ForgetsRightly]_memoryVars
    OBVIOUS
  <2>1. CASE Mem!Next
    BY <2>1, MemoryNext
  <2>2. CASE UNCHANGED memoryVars
    BY <2>2 DEF memoryVars, MemoryKept
  <2> QED
    BY <2>1, <2>2, MemoryStep
<1>3. [ForgetsRightly]_memoryVars <=>
        [Mem!Held \ Mem!Held' # {} =>
          \/ working' = <<>> /\ episodic' = <<>>
          \/ Len(episodic) > MaxEpisodic
          \/ /\ Len(working) = MaxWorking /\ Mem!Cardinality(Mem!Held \ Mem!Held') = 1
             /\ Len(episodic) = MaxEpisodic \/ Head(working') \in Mem!ToSet(episodic)]_(Mem!memoryVars)
  BY DEF ForgetsRightly, memoryVars, Mem!memoryVars
<1> QED
  BY <1>1, <1>2, <1>3, PTL DEF Spec, ForgetsOnlyWhenFull, Mem!ForgetsOnlyWhenFull

-----------------------------------------------------------------------------
(* Owners.                                                                   *)

LEMMA OwnershipStep == [Next]_vars => [Own!Next]_ownershipVars
  BY DEF Next, Held, vars

LEMMA OwnershipCardinality == \A S : Own!Cardinality(S) = Cardinality(S)
  BY DEF Own!Cardinality, Cardinality

GraphStage == [at : {"merge"}, repo : Repos, owner : People, weight : Nat,
               absent : BOOLEAN, alone : BOOLEAN]

OwnersTyped ==
    /\ count \in [Repos -> [People -> Nat]] /\ onFile \in [Repos -> [People -> Nat]]
    /\ nodes \subseteq Own!AllNodes /\ owns \in [Own!AllNodes -> [Repos -> Nat]]
    /\ inflated \subseteq Repos /\ rewritten \subseteq Repos /\ changes \in Nat
    /\ trusted \in [Repos -> People \cup {Nothing}]
    /\ build \in [Workers -> {Own!Idle} \cup GraphStage]

\* No more commits touch the file than there are; where nothing was added up or rewritten, an
\* edge weighs no more than its owner's commits, and belongs to one who touched the file.
EdgesEarned ==
    /\ \A r \in Repos : \A p \in People : onFile[r][p] <= count[r][p]
    /\ \A n \in Own!AllNodes \ nodes : \A r \in Repos : owns[n][r] = 0
    /\ \A r \in Repos : Own!Earned(r) => \A n \in Own!AllNodes :
          owns[n][r] > 0 => onFile[r][n.who] > 0 /\ owns[n][r] <= count[r][n.who]

\* A stage that no other on its repository has overlapped outweighs every edge it finds.
Outweighs(b) ==
    /\ b.weight > 0
    /\ Own!Earned(b.repo) => onFile[b.repo][b.owner] > 0 /\ b.weight <= count[b.repo][b.owner]
    /\ ~b.absent => \E n \in nodes : n.who = b.owner
    /\ b.alone /\ Own!Earned(b.repo) => \A n \in Own!AllNodes : owns[n][b.repo] <= b.weight

StagesEarned ==
    \A w \in Workers : build[w] # Own!Idle =>
        /\ Outweighs(build[w])
        /\ build[w].alone =>
              \A v \in Workers \ {w} : build[v] # Own!Idle => build[v].repo # build[w].repo

OneNodeEach == constraint => \A n, m \in nodes : n.who = m.who => n = m

Heaviest(r) ==
    \E m \in nodes : /\ m.who = trusted[r] /\ owns[m][r] > 0
                     /\ \A k \in nodes : owns[k][r] <= owns[m][r]

OwnersKept ==
    /\ OwnersTyped /\ EdgesEarned /\ StagesEarned /\ OneNodeEach
    /\ \A r \in Repos : trusted[r] # Nothing => Heaviest(r)

LEMMA StageIs ==
  ASSUME OwnersTyped, NEW w \in Workers, build[w] # Own!Idle
  PROVE  /\ build[w] \in GraphStage /\ build[w].repo \in Repos /\ build[w].owner \in People
         /\ build[w].weight \in Nat
<1>1. build[w] \in GraphStage
  BY DEF OwnersTyped
<1> QED
  BY <1>1 DEF GraphStage

\* Nobody is duplicated when each person has one node.
LEMMA NotDuplicated ==
  ASSUME nodes \subseteq Own!AllNodes
  PROVE  Own!Duplicated = {} <=> \A n, m \in nodes : n.who = m.who => n = m
<1>1. ASSUME NEW p \in People
      PROVE  Own!Cardinality(Own!NodesOf(p)) > 1 <=> \E n, m \in Own!NodesOf(p) : n # m
  <2> DEFINE one == [who |-> p, copy |-> 1]
             two == [who |-> p, copy |-> 2]
             N == Own!NodesOf(p)
  <2>1. N \subseteq {one, two}
    BY DEF Own!NodesOf, Own!AllNodes
  <2> HIDE DEF one, two
  <2>2. IsFiniteSet({one, two})
    <3>1. {one, two} = {one} \cup {two}
      OBVIOUS
    <3>2. IsFiniteSet({one}) /\ IsFiniteSet({two})
      BY FS_Singleton
    <3>3. IsFiniteSet({one} \cup {two})
      BY <3>2, FS_Union
    <3> QED
      BY <3>1, <3>3
  <2>3. IsFiniteSet(N) /\ Own!Cardinality(N) = Cardinality(N) /\ Cardinality(N) \in Nat
    BY <2>1, <2>2, FS_Subset, FS_CardinalityType, OwnershipCardinality
  <2>4. Cardinality(N) = 1 <=> \E x : N = {x}
    BY <2>3, FS_Singleton
  <2>5. Cardinality(N) = 0 <=> N = {}
    BY <2>3, FS_EmptySet
  <2> HIDE DEF N
  <2>6. Cardinality(N) > 1 <=> Cardinality(N) # 0 /\ Cardinality(N) # 1
    BY <2>3
  <2>7. N # {} /\ (~ \E x : N = {x}) <=> \E n, m \in N : n # m
    OBVIOUS
  <2> QED
    BY <2>3, <2>4, <2>5, <2>6, <2>7 DEF N
<1>2. \A n \in nodes : n.who \in People
  BY DEF Own!AllNodes
<1>3. ASSUME Own!Duplicated = {}, NEW n \in nodes, NEW m \in nodes, n.who = m.who PROVE n = m
  <2>1. n.who \in People /\ n \in Own!NodesOf(n.who) /\ m \in Own!NodesOf(n.who)
    BY <1>2, <1>3 DEF Own!NodesOf
  <2>2. ~ (Own!Cardinality(Own!NodesOf(n.who)) > 1)
    BY <1>3, <2>1 DEF Own!Duplicated
  <2> QED
    BY <1>1, <2>1, <2>2
<1>4. ASSUME \A n, m \in nodes : n.who = m.who => n = m PROVE Own!Duplicated = {}
  <2>1. \A p \in People : \A n, m \in Own!NodesOf(p) : n = m
    BY <1>4 DEF Own!NodesOf
  <2>2. \A p \in People : ~ (Own!Cardinality(Own!NodesOf(p)) > 1)
    BY <1>1, <2>1
  <2> QED
    BY <2>2 DEF Own!Duplicated
<1> QED
  BY <1>3, <1>4

LEMMA NodeIs ==
  ASSUME OwnersTyped, NEW n \in Own!AllNodes
  PROVE  /\ n.who \in People /\ n.copy \in {1, 2} /\ n = [who |-> n.who, copy |-> n.copy]
         /\ \A r \in Repos : owns[n][r] \in Nat
  BY DEF OwnersTyped, Own!AllNodes

LEMMA CommitKeepsOwners ==
  ASSUME OwnersKept, Own!Commit
  PROVE  OwnersKept'
<1>1. PICK r \in Repos, p \in People, touches \in BOOLEAN :
          /\ count' = [count EXCEPT ![r][p] = @ + 1]
          /\ onFile' = [onFile EXCEPT ![r][p] = IF touches THEN @ + 1 ELSE @]
  BY DEF Own!Commit
<1>2. UNCHANGED <<nodes, owns, constraint, build, trusted, inflated, rewritten>> /\ changes' = changes + 1
  BY DEF Own!Commit
<1>3. /\ count \in [Repos -> [People -> Nat]] /\ onFile \in [Repos -> [People -> Nat]] /\ changes \in Nat
      /\ \A q \in Repos : \A o \in People : onFile[q][o] <= count[q][o]
  BY DEF OwnersKept, OwnersTyped, EdgesEarned
<1>4. /\ count' \in [Repos -> [People -> Nat]] /\ onFile' \in [Repos -> [People -> Nat]]
      /\ \A q \in Repos : \A o \in People :
            /\ count'[q][o] = IF q = r /\ o = p THEN count[q][o] + 1 ELSE count[q][o]
            /\ onFile'[q][o] = IF q = r /\ o = p /\ touches THEN onFile[q][o] + 1 ELSE onFile[q][o]
  BY <1>1, <1>3
<1>5. \A q \in Repos : \A o \in People :
        /\ count[q][o] \in Nat /\ count'[q][o] \in Nat /\ count[q][o] <= count'[q][o]
        /\ onFile[q][o] \in Nat /\ onFile'[q][o] \in Nat /\ onFile[q][o] <= onFile'[q][o]
        /\ onFile'[q][o] <= count'[q][o]
  <2> SUFFICES ASSUME NEW q \in Repos, NEW o \in People
               PROVE  /\ count[q][o] \in Nat /\ count'[q][o] \in Nat /\ count[q][o] <= count'[q][o]
                      /\ onFile[q][o] \in Nat /\ onFile'[q][o] \in Nat /\ onFile[q][o] <= onFile'[q][o]
                      /\ onFile'[q][o] <= count'[q][o]
    OBVIOUS
  <2>1. count[q][o] \in Nat /\ onFile[q][o] \in Nat /\ onFile[q][o] <= count[q][o]
    BY <1>3
  <2> QED
    BY <1>4, <2>1
<1>6. Own!AllNodes' = Own!AllNodes /\ Own!Idle' = Own!Idle /\ \A q : Own!Earned(q)' = Own!Earned(q)
  BY <1>2 DEF Own!AllNodes, Own!Idle, Own!Earned
<1>7. OwnersTyped'
  BY <1>2, <1>3, <1>4, <1>6 DEF OwnersKept, OwnersTyped
<1>8. EdgesEarned'
  <2>1. ASSUME NEW q \in Repos, Own!Earned(q), NEW n \in Own!AllNodes, owns[n][q] > 0
        PROVE  onFile'[q][n.who] > 0 /\ owns[n][q] <= count'[q][n.who]
    <3>1. /\ onFile[q][n.who] > 0 /\ owns[n][q] <= count[q][n.who]
          /\ n.who \in People /\ owns[n][q] \in Nat
      BY <2>1, NodeIs DEF OwnersKept, EdgesEarned
    <3> QED
      BY <1>5, <3>1
  <2> QED
    BY <1>2, <1>5, <1>6, <2>1 DEF OwnersKept, EdgesEarned
<1>9. StagesEarned'
  <2>1. ASSUME NEW w \in Workers, build[w] # Own!Idle PROVE Outweighs(build[w])'
    <3>1. PICK b \in GraphStage : b = build[w]
      BY <2>1, StageIs DEF OwnersKept
    <3>2. Outweighs(b) /\ b.repo \in Repos /\ b.owner \in People /\ b.weight \in Nat
      BY <2>1, <3>1 DEF OwnersKept, StagesEarned, GraphStage
    <3>3. Own!Earned(b.repo) => onFile'[b.repo][b.owner] > 0 /\ b.weight <= count'[b.repo][b.owner]
      BY <1>5, <3>2 DEF Outweighs
    <3>4. Outweighs(b)'
      BY <1>2, <1>6, <3>2, <3>3 DEF Outweighs
    <3> QED
      BY <1>2, <3>1, <3>4
  <2> QED
    BY <1>2, <1>6, <2>1 DEF OwnersKept, StagesEarned
<1>10. OneNodeEach' /\ \A q \in Repos : trusted'[q] # Nothing => Heaviest(q)'
  BY <1>2 DEF OwnersKept, OneNodeEach, Heaviest
<1> QED
  BY <1>7, <1>8, <1>9, <1>10 DEF OwnersKept

\* The repository that loses commits is earned no more; its edges and its owner stay.
LEMMA RewriteKeepsOwners ==
  ASSUME OwnersKept, Own!Rewrite
  PROVE  OwnersKept'
<1>1. PICK r \in Repos, p \in People, touches \in BOOLEAN :
          /\ IF touches THEN onFile[r][p] > 0 ELSE onFile[r][p] < count[r][p]
          /\ count' = [count EXCEPT ![r][p] = @ - 1]
          /\ onFile' = [onFile EXCEPT ![r][p] = IF touches THEN @ - 1 ELSE @]
          /\ rewritten' = rewritten \cup {r}
  BY DEF Own!Rewrite
<1>2. UNCHANGED <<nodes, owns, constraint, build, trusted, inflated>> /\ changes' = changes + 1
  BY DEF Own!Rewrite
<1>3. /\ count \in [Repos -> [People -> Nat]] /\ onFile \in [Repos -> [People -> Nat]] /\ changes \in Nat
      /\ \A q \in Repos : \A o \in People : onFile[q][o] <= count[q][o]
  BY DEF OwnersKept, OwnersTyped, EdgesEarned
<1>4. \A q \in Repos : \A o \in People :
            /\ count'[q][o] = IF q = r /\ o = p THEN count[q][o] - 1 ELSE count[q][o]
            /\ onFile'[q][o] = IF q = r /\ o = p /\ touches THEN onFile[q][o] - 1 ELSE onFile[q][o]
  BY <1>1, <1>3
<1>5. \A q \in Repos : \A o \in People :
        count'[q][o] \in Nat /\ onFile'[q][o] \in Nat /\ onFile'[q][o] <= count'[q][o]
  <2> SUFFICES ASSUME NEW q \in Repos, NEW o \in People
               PROVE  count'[q][o] \in Nat /\ onFile'[q][o] \in Nat /\ onFile'[q][o] <= count'[q][o]
    OBVIOUS
  <2>1. count[q][o] \in Nat /\ onFile[q][o] \in Nat /\ onFile[q][o] <= count[q][o]
    BY <1>3
  <2>2. CASE q = r /\ o = p
    <3>1. IF touches THEN onFile[q][o] > 0 ELSE onFile[q][o] < count[q][o]
      BY <1>1, <2>2
    <3> QED
      BY <1>4, <2>1, <2>2, <3>1
  <2>3. CASE ~(q = r /\ o = p)
    BY <1>4, <2>1, <2>3
  <2> QED
    BY <2>2, <2>3
<1>6. count' \in [Repos -> [People -> Nat]] /\ onFile' \in [Repos -> [People -> Nat]]
  <2>1. /\ DOMAIN count' = Repos /\ DOMAIN onFile' = Repos
        /\ count' = [q \in Repos |-> count'[q]] /\ onFile' = [q \in Repos |-> onFile'[q]]
    BY <1>1, <1>3
  <2>2. ASSUME NEW q \in Repos
        PROVE  count'[q] = [o \in People |-> count'[q][o]] /\ onFile'[q] = [o \in People |-> onFile'[q][o]]
    BY <1>1, <1>3
  <2>3. \A q \in Repos : count'[q] \in [People -> Nat] /\ onFile'[q] \in [People -> Nat]
    BY <1>5, <2>2
  <2> QED
    BY <2>1, <2>3
<1>7. /\ Own!AllNodes' = Own!AllNodes /\ Own!Idle' = Own!Idle
      /\ \A q : Own!Earned(q)' => Own!Earned(q) /\ q # r
  BY <1>1, <1>2 DEF Own!AllNodes, Own!Idle, Own!Earned
<1>8. OwnersTyped'
  BY <1>1, <1>2, <1>3, <1>6, <1>7 DEF OwnersKept, OwnersTyped
<1>9. EdgesEarned'
  <2>1. ASSUME NEW q \in Repos, Own!Earned(q)', NEW n \in Own!AllNodes, owns[n][q] > 0
        PROVE  onFile'[q][n.who] > 0 /\ owns[n][q] <= count'[q][n.who]
    <3>1. Own!Earned(q) /\ q # r /\ n.who \in People
      BY <1>7, <2>1, NodeIs DEF OwnersKept
    <3> QED
      BY <1>4, <2>1, <3>1 DEF OwnersKept, EdgesEarned
  <2> QED
    BY <1>2, <1>5, <1>7, <2>1 DEF OwnersKept, EdgesEarned
<1>10. StagesEarned'
  <2>1. ASSUME NEW w \in Workers, build[w] # Own!Idle PROVE Outweighs(build[w])'
    <3>1. PICK b \in GraphStage : b = build[w]
      BY <2>1, StageIs DEF OwnersKept
    <3>2. Outweighs(b) /\ b.repo \in Repos /\ b.owner \in People
      BY <2>1, <3>1 DEF OwnersKept, StagesEarned, GraphStage
    <3>3. Own!Earned(b.repo)' => onFile'[b.repo][b.owner] > 0 /\ b.weight <= count'[b.repo][b.owner]
      BY <1>4, <1>7, <3>2 DEF Outweighs
    <3>4. Outweighs(b)'
      BY <1>2, <1>7, <3>2, <3>3 DEF Outweighs
    <3> QED
      BY <1>2, <3>1, <3>4
  <2> QED
    BY <1>2, <1>7, <2>1 DEF OwnersKept, StagesEarned
<1>11. OneNodeEach' /\ \A q \in Repos : trusted'[q] # Nothing => Heaviest(q)'
  BY <1>2 DEF OwnersKept, OneNodeEach, Heaviest
<1> QED
  BY <1>8, <1>9, <1>10, <1>11 DEF OwnersKept

LEMMA DeleteRepoKeepsOwners ==
  ASSUME OwnersKept, Own!DeleteRepo
  PROVE  OwnersKept'
<1>1. PICK r \in Repos :
          /\ Own!Building(r) = {}
          /\ owns' = [n \in Own!AllNodes |-> [owns[n] EXCEPT ![r] = 0]]
          /\ trusted' = [trusted EXCEPT ![r] = Nothing]
          /\ inflated' = inflated \ {r} /\ rewritten' = rewritten \ {r}
  BY DEF Own!DeleteRepo
<1>2. UNCHANGED <<count, onFile, nodes, constraint, build, changes>>
  BY DEF Own!DeleteRepo
<1>3. /\ owns \in [Own!AllNodes -> [Repos -> Nat]] /\ trusted \in [Repos -> People \cup {Nothing}]
      /\ nodes \subseteq Own!AllNodes
  BY DEF OwnersKept, OwnersTyped
<1>4. /\ owns' \in [Own!AllNodes -> [Repos -> Nat]]
      /\ \A n \in Own!AllNodes : \A q \in Repos : owns'[n][q] = IF q = r THEN 0 ELSE owns[n][q]
  BY <1>1, <1>3
<1>5. /\ trusted' \in [Repos -> People \cup {Nothing}]
      /\ \A q \in Repos : trusted'[q] = IF q = r THEN Nothing ELSE trusted[q]
  BY <1>1, <1>3
<1>6. /\ Own!AllNodes' = Own!AllNodes /\ Own!Idle' = Own!Idle
      /\ \A q : q # r => Own!Earned(q)' = Own!Earned(q)
  BY <1>1 DEF Own!AllNodes, Own!Idle, Own!Earned
<1>7. OwnersTyped'
  BY <1>1, <1>2, <1>4, <1>5, <1>6 DEF OwnersKept, OwnersTyped
<1>8. EdgesEarned'
  BY <1>1, <1>2, <1>4, <1>6 DEF OwnersKept, EdgesEarned
<1>9. StagesEarned'
  <2>1. ASSUME NEW w \in Workers, build[w] # Own!Idle PROVE Outweighs(build[w])'
    <3>1. Outweighs(build[w]) /\ build[w].repo \in Repos /\ build[w].repo # r
      BY <1>1, <2>1, StageIs DEF OwnersKept, StagesEarned, Own!Building
    <3> QED
      BY <1>1, <1>2, <1>4, <1>6, <3>1 DEF Outweighs
  <2> QED
    BY <1>2, <1>6, <2>1 DEF OwnersKept, StagesEarned
<1>10. OneNodeEach'
  BY <1>2 DEF OwnersKept, OneNodeEach
<1>11. ASSUME NEW q \in Repos, trusted'[q] # Nothing PROVE Heaviest(q)'
  <2>1. q # r /\ trusted'[q] = trusted[q]
    BY <1>5, <1>11
  <2>2. Heaviest(q)
    BY <1>11, <2>1 DEF OwnersKept
  <2> QED
    BY <1>2, <1>3, <1>4, <2>1, <2>2 DEF Heaviest
<1> QED
  BY <1>7, <1>8, <1>9, <1>10, <1>11 DEF OwnersKept

LEMMA ConstraintKeepsOwners ==
  ASSUME OwnersKept, Own!AddConstraint
  PROVE  OwnersKept'
<1>1. Own!Duplicated = {} /\ UNCHANGED <<count, onFile, nodes, owns, build, trusted, inflated, rewritten, changes>>
  BY DEF Own!AddConstraint
<1>2. \A n, m \in nodes : n.who = m.who => n = m
  BY <1>1, NotDuplicated DEF OwnersKept, OwnersTyped
<1>3. Own!AllNodes' = Own!AllNodes /\ Own!Idle' = Own!Idle /\ \A q : Own!Earned(q)' = Own!Earned(q)
  BY <1>1 DEF Own!AllNodes, Own!Idle, Own!Earned
<1>4. OwnersTyped' /\ EdgesEarned' /\ StagesEarned'
  BY <1>1, <1>3 DEF OwnersKept, OwnersTyped, EdgesEarned, StagesEarned, Outweighs
<1>5. OneNodeEach' /\ \A q \in Repos : trusted'[q] # Nothing => Heaviest(q)'
  BY <1>1, <1>2 DEF OwnersKept, OneNodeEach, Heaviest
<1> QED
  BY <1>4, <1>5 DEF OwnersKept

LEMMA LoseBatchKeepsOwners ==
  ASSUME OwnersKept, NEW w \in Workers, Own!LoseBatch(w)
  PROVE  OwnersKept'
<1>1. /\ build' = [build EXCEPT ![w] = Own!Idle]
      /\ UNCHANGED <<count, onFile, nodes, owns, constraint, trusted, inflated, rewritten, changes>>
  BY DEF Own!LoseBatch
<1>2. Own!AllNodes' = Own!AllNodes /\ Own!Idle' = Own!Idle /\ \A q : Own!Earned(q)' = Own!Earned(q)
  BY <1>1 DEF Own!AllNodes, Own!Idle, Own!Earned
<1>3. /\ build' \in [Workers -> {Own!Idle} \cup GraphStage]
      /\ \A v \in Workers : build'[v] # Own!Idle => build'[v] = build[v]
  BY <1>1 DEF OwnersKept, OwnersTyped
<1>4. OwnersTyped' /\ EdgesEarned'
  BY <1>1, <1>2, <1>3 DEF OwnersKept, OwnersTyped, EdgesEarned
<1>5. StagesEarned'
  <2>1. ASSUME NEW v \in Workers, build'[v] # Own!Idle
        PROVE  /\ Outweighs(build[v])'
               /\ build[v].alone => \A u \in Workers \ {v} : build'[u] # Own!Idle => build'[u].repo # build[v].repo
    <3>1. build'[v] = build[v] /\ Outweighs(build[v])
      BY <1>3, <2>1 DEF OwnersKept, StagesEarned
    <3>2. PICK b : b = build[v]
      OBVIOUS
    <3>3. Outweighs(b)'
      BY <1>1, <1>2, <3>1, <3>2 DEF Outweighs
    <3>4. b.alone => \A u \in Workers \ {v} : build[u] # Own!Idle => build[u].repo # b.repo
      BY <2>1, <3>1, <3>2 DEF OwnersKept, StagesEarned
    <3> QED
      BY <1>3, <3>1, <3>2, <3>3, <3>4
  <2> QED
    BY <1>2, <1>3, <2>1 DEF StagesEarned
<1>6. OneNodeEach' /\ \A q \in Repos : trusted'[q] # Nothing => Heaviest(q)'
  BY <1>1 DEF OwnersKept, OneNodeEach, Heaviest
<1> QED
  BY <1>4, <1>5, <1>6 DEF OwnersKept

LEMMA BeginBuildKeepsOwners ==
  ASSUME OwnersKept, NEW w \in Workers, Own!BeginBuild(w)
  PROVE  OwnersKept'
<1>1. PICK r \in Repos : \E p \in Own!TopAuthors(r) :
          build' = [v \in Workers |->
              IF v = w THEN [at |-> "merge", repo |-> r, owner |-> p, weight |-> Own!Profile(r)[p],
                             absent |-> Own!NodesOf(p) = {}, alone |-> Own!Building(r) = {}]
              ELSE IF v \in Own!Building(r) THEN [build[v] EXCEPT !.alone = FALSE]
              ELSE build[v]]
  BY DEF Own!BeginBuild
<1>2. PICK p \in Own!TopAuthors(r) :
          build' = [v \in Workers |->
              IF v = w THEN [at |-> "merge", repo |-> r, owner |-> p, weight |-> Own!Profile(r)[p],
                             absent |-> Own!NodesOf(p) = {}, alone |-> Own!Building(r) = {}]
              ELSE IF v \in Own!Building(r) THEN [build[v] EXCEPT !.alone = FALSE]
              ELSE build[v]]
  BY <1>1
<1>3. UNCHANGED <<count, onFile, nodes, owns, constraint, trusted, inflated, rewritten, changes>> /\ build[w] = Own!Idle
  BY DEF Own!BeginBuild
<1>4. /\ count \in [Repos -> [People -> Nat]] /\ onFile \in [Repos -> [People -> Nat]]
      /\ build \in [Workers -> {Own!Idle} \cup GraphStage]
      /\ owns \in [Own!AllNodes -> [Repos -> Nat]]
  BY DEF OwnersKept, OwnersTyped
<1>5. /\ p \in People /\ onFile[r][p] > 0 /\ Own!Profile(r)[p] = count[r][p] /\ count[r][p] \in Nat
      /\ \A q \in People : onFile[r][q] > 0 => count[r][q] <= count[r][p]
  BY <1>4 DEF Own!TopAuthors, Own!Profile, Own!Touched
<1>6. PICK absent \in BOOLEAN : absent <=> Own!NodesOf(p) = {}
  OBVIOUS
<1>7. PICK alone \in BOOLEAN : alone <=> Own!Building(r) = {}
  OBVIOUS
<1>8. PICK b : b = [at |-> "merge", repo |-> r, owner |-> p, weight |-> count[r][p],
                    absent |-> absent, alone |-> alone]
  OBVIOUS
<1>9. b \in GraphStage
  BY <1>5, <1>8 DEF GraphStage
<1>10. build' = [v \in Workers |->
              IF v = w THEN b
              ELSE IF v \in Own!Building(r) THEN [build[v] EXCEPT !.alone = FALSE]
              ELSE build[v]]
  <2>1. (Own!NodesOf(p) = {}) = absent /\ (Own!Building(r) = {}) = alone
    BY <1>6, <1>7
  <2> QED
    BY <1>2, <1>5, <1>8, <2>1
<1>11. build'[w] = b
  BY <1>10
<1>12. ASSUME NEW v \in Workers \ {w}, build[v] # Own!Idle
       PROVE  /\ build'[v] \in GraphStage
              /\ build'[v].repo = build[v].repo /\ build'[v].owner = build[v].owner
              /\ build'[v].weight = build[v].weight /\ build'[v].absent = build[v].absent
              /\ build'[v].alone => build[v].alone /\ build[v].repo # r
  <2>1. build[v] \in GraphStage
    BY <1>12, StageIs DEF OwnersKept
  <2>2. CASE v \in Own!Building(r)
    <3>1. build'[v] = [build[v] EXCEPT !.alone = FALSE]
      BY <1>10, <2>2
    <3> QED
      BY <2>1, <3>1 DEF GraphStage
  <2>3. CASE v \notin Own!Building(r)
    <3>1. build'[v] = build[v] /\ build[v].repo # r
      BY <1>10, <1>12, <2>3 DEF Own!Building
    <3> QED
      BY <2>1, <3>1
  <2> QED
    BY <2>2, <2>3
<1>13. \A v \in Workers \ {w} : build[v] = Own!Idle => build'[v] = Own!Idle
  BY <1>10 DEF Own!Building
<1>14. Own!AllNodes' = Own!AllNodes /\ Own!Idle' = Own!Idle /\ \A q : Own!Earned(q)' = Own!Earned(q)
  BY <1>3 DEF Own!AllNodes, Own!Idle, Own!Earned
<1>15. build' \in [Workers -> {Own!Idle} \cup GraphStage]
  <2>1. \A v \in Workers : build'[v] \in {Own!Idle} \cup GraphStage
    BY <1>9, <1>11, <1>12, <1>13
  <2>2. DOMAIN build' = Workers /\ build' = [v \in Workers |-> build'[v]]
    BY <1>10
  <2> QED
    BY <2>1, <2>2
<1>16. OwnersTyped' /\ EdgesEarned'
  BY <1>3, <1>14, <1>15 DEF OwnersKept, OwnersTyped, EdgesEarned
<1>17. StagesEarned'
  <2>1. Outweighs(b)
    <3>1. b.owner = p /\ b.repo = r /\ b.weight = count[r][p] /\ b.absent = absent /\ b.alone = alone
      BY <1>8
    <3>2. count[r][p] > 0
      <4>1. onFile[r][p] \in Nat /\ onFile[r][p] <= count[r][p]
        BY <1>4, <1>5 DEF OwnersKept, EdgesEarned
      <4> QED
        BY <1>5, <4>1
    <3>3. ~absent => \E n \in nodes : n.who = p
      BY <1>6 DEF Own!NodesOf
    <3>4. ASSUME Own!Earned(r), NEW n \in Own!AllNodes PROVE owns[n][r] <= count[r][p]
      <4>1. owns[n][r] \in Nat
        BY <1>4
      <4>2. CASE owns[n][r] > 0
        <5>1. n.who \in People /\ onFile[r][n.who] > 0 /\ owns[n][r] <= count[r][n.who]
          BY <3>4, <4>2, NodeIs DEF OwnersKept, EdgesEarned
        <5>2. count[r][n.who] \in Nat /\ count[r][n.who] <= count[r][p]
          BY <1>4, <1>5, <5>1
        <5> QED
          BY <1>5, <4>1, <5>1, <5>2
      <4>3. CASE ~(owns[n][r] > 0)
        BY <1>5, <4>1, <4>3
      <4> QED
        BY <4>2, <4>3
    <3> QED
      BY <1>5, <3>1, <3>2, <3>3, <3>4 DEF Outweighs
  <2>2. ASSUME NEW c, Outweighs(c) PROVE Outweighs(c)'
    BY <1>3, <1>14, <2>2 DEF Outweighs
  <2>3. ASSUME NEW v \in Workers \ {w}, build'[v] # Own!Idle
        PROVE  Outweighs(build'[v])
    <3>1. build[v] # Own!Idle
      BY <1>13, <2>3
    <3>2. Outweighs(build[v])
      BY <3>1 DEF OwnersKept, StagesEarned
    <3> QED
      BY <1>12, <3>1, <3>2 DEF Outweighs
  <2>4. ASSUME NEW v \in Workers, build'[v] # Own!Idle
        PROVE  /\ Outweighs(build[v])'
               /\ build'[v].alone =>
                     \A u \in Workers \ {v} : build'[u] # Own!Idle => build'[u].repo # build'[v].repo
    <3>1. PICK c : c = build'[v]
      OBVIOUS
    <3>2. Outweighs(c)
      BY <1>11, <2>1, <2>3, <2>4, <3>1
    <3>3. Outweighs(c)'
      BY <2>2, <3>2
    <3>4. Outweighs(build[v])'
      BY <3>1, <3>3 DEF Outweighs
    <3>5. ASSUME build'[v].alone, NEW u \in Workers \ {v}, build'[u] # Own!Idle
          PROVE  build'[u].repo # build'[v].repo
      <4>1. CASE v = w
        <5>1. Own!Building(r) = {} /\ build'[v].repo = r
          BY <1>7, <1>8, <1>11, <3>5, <4>1
        <5>2. build[u] # Own!Idle /\ build'[u].repo = build[u].repo
          BY <1>12, <1>13, <3>5, <4>1
        <5> QED
          BY <5>1, <5>2 DEF Own!Building
      <4>2. CASE v # w
        <5>1. build[v] # Own!Idle /\ build[v].alone /\ build[v].repo # r /\ build'[v].repo = build[v].repo
          BY <1>12, <1>13, <2>4, <3>5, <4>2
        <5>2. CASE u = w
          BY <1>8, <1>11, <5>1, <5>2
        <5>3. CASE u # w
          <6>1. build[u] # Own!Idle /\ build'[u].repo = build[u].repo
            BY <1>12, <1>13, <3>5, <5>3
          <6> QED
            BY <5>1, <6>1 DEF OwnersKept, StagesEarned
        <5> QED
          BY <5>2, <5>3
      <4> QED
        BY <4>1, <4>2
    <3> QED
      BY <3>4, <3>5
  <2> QED
    BY <1>14, <2>4 DEF StagesEarned
<1>18. OneNodeEach' /\ \A q \in Repos : trusted'[q] # Nothing => Heaviest(q)'
  BY <1>3 DEF OwnersKept, OneNodeEach, Heaviest
<1> QED
  BY <1>16, <1>17, <1>18 DEF OwnersKept

LEMMA EndBuildKeepsOwners ==
  ASSUME OwnersKept, NEW w \in Workers, Own!EndBuild(w)
  PROVE  OwnersKept'
<1>1. PICK b \in GraphStage : b = build[w]
  BY StageIs DEF OwnersKept, Own!EndBuild
<1>2. PICK created : created = Own!Created(w)
  OBVIOUS
<1>3. PICK r : r = b.repo
  OBVIOUS
<1>4. PICK p : p = b.owner
  OBVIOUS
<1>5. PICK wt : wt = b.weight
  OBVIOUS
<1>6. /\ build[w] # Own!Idle
      /\ nodes' = nodes \cup created
      /\ owns' = [n \in Own!AllNodes |->
              IF n \in nodes' /\ n.who = p THEN [owns[n] EXCEPT ![r] = wt] ELSE owns[n]]
      /\ trusted' = [trusted EXCEPT ![r] = IF b.alone /\ Own!Earned(r) THEN p ELSE Nothing]
      /\ build' = [build EXCEPT ![w] = Own!Idle]
      /\ UNCHANGED <<count, onFile, constraint, inflated, rewritten, changes>>
  BY <1>1, <1>2, <1>3, <1>4, <1>5 DEF Own!EndBuild
<1>7. r \in Repos /\ p \in People /\ wt \in Nat /\ b.alone \in BOOLEAN /\ b.absent \in BOOLEAN
  BY <1>1, <1>3, <1>4, <1>5 DEF GraphStage
<1>8. /\ wt > 0
      /\ Own!Earned(r) => onFile[r][p] > 0 /\ wt <= count[r][p]
      /\ ~b.absent => \E n \in nodes : n.who = p
      /\ b.alone /\ Own!Earned(r) => \A n \in Own!AllNodes : owns[n][r] <= wt
  BY <1>1, <1>3, <1>4, <1>5, <1>6 DEF OwnersKept, StagesEarned, Outweighs
<1>9. /\ count \in [Repos -> [People -> Nat]] /\ onFile \in [Repos -> [People -> Nat]]
      /\ build \in [Workers -> {Own!Idle} \cup GraphStage] /\ nodes \subseteq Own!AllNodes
      /\ owns \in [Own!AllNodes -> [Repos -> Nat]] /\ trusted \in [Repos -> People \cup {Nothing}]
  BY DEF OwnersKept, OwnersTyped
<1>10. created = IF ~b.absent \/ (constraint /\ Own!NodesOf(p) # {}) THEN {}
                 ELSE {[who |-> p, copy |-> IF Own!NodesOf(p) = {} THEN 1 ELSE 2]}
  BY <1>1, <1>2, <1>4 DEF Own!Created
<1>11. /\ created \subseteq Own!AllNodes
       /\ \A c \in created : c.who = p /\ (constraint => Own!NodesOf(p) = {})
       /\ \A c, d \in created : c = d
       /\ \E n \in nodes \cup created : n.who = p
  <2>1. CASE ~b.absent \/ (constraint /\ Own!NodesOf(p) # {})
    <3>1. created = {}
      BY <1>10, <2>1
    <3>2. \E n \in nodes : n.who = p
      BY <1>8, <2>1 DEF Own!NodesOf
    <3> QED
      BY <3>1, <3>2
  <2>2. CASE ~(~b.absent \/ (constraint /\ Own!NodesOf(p) # {}))
    <3>1. PICK i \in {1, 2} : i = IF Own!NodesOf(p) = {} THEN 1 ELSE 2
      OBVIOUS
    <3>2. created = {[who |-> p, copy |-> i]}
      BY <1>10, <2>2, <3>1
    <3>3. [who |-> p, copy |-> i] \in Own!AllNodes /\ [who |-> p, copy |-> i].who = p
      BY <1>7 DEF Own!AllNodes
    <3> QED
      BY <2>2, <3>2, <3>3
  <2> QED
    BY <2>1, <2>2
<1>12. /\ owns' \in [Own!AllNodes -> [Repos -> Nat]]
       /\ \A n \in Own!AllNodes : \A q \in Repos :
             owns'[n][q] = IF q = r /\ n \in nodes' /\ n.who = p THEN wt ELSE owns[n][q]
  BY <1>6, <1>7, <1>9
<1>13. /\ trusted' \in [Repos -> People \cup {Nothing}]
       /\ \A q \in Repos : q # r => trusted'[q] = trusted[q]
       /\ trusted'[r] # Nothing => trusted'[r] = p /\ b.alone /\ Own!Earned(r)
  BY <1>6, <1>7, <1>9
<1>14. /\ build' \in [Workers -> {Own!Idle} \cup GraphStage] /\ build'[w] = Own!Idle
       /\ \A v \in Workers \ {w} : build'[v] = build[v]
  BY <1>6, <1>9
<1>15. Own!AllNodes' = Own!AllNodes /\ Own!Idle' = Own!Idle /\ \A q : Own!Earned(q)' = Own!Earned(q)
  BY <1>6 DEF Own!AllNodes, Own!Idle, Own!Earned
<1>16. OwnersTyped'
  BY <1>6, <1>9, <1>11, <1>12, <1>13, <1>14, <1>15 DEF OwnersKept, OwnersTyped
<1>17. EdgesEarned'
  <2>1. ASSUME NEW n \in Own!AllNodes \ nodes', NEW q \in Repos PROVE owns'[n][q] = 0
    <3>1. owns'[n][q] = owns[n][q] /\ n \notin nodes
      BY <1>6, <1>12, <2>1
    <3> QED
      BY <2>1, <3>1 DEF OwnersKept, EdgesEarned
  <2>2. ASSUME NEW q \in Repos, Own!Earned(q), NEW n \in Own!AllNodes, owns'[n][q] > 0
        PROVE  onFile[q][n.who] > 0 /\ owns'[n][q] <= count[q][n.who]
    <3>1. CASE q = r /\ n \in nodes' /\ n.who = p
      BY <1>8, <1>12, <2>2, <3>1
    <3>2. CASE ~(q = r /\ n \in nodes' /\ n.who = p)
      <4>1. owns'[n][q] = owns[n][q]
        BY <1>12, <3>2
      <4> QED
        BY <2>2, <4>1 DEF OwnersKept, EdgesEarned
    <3> QED
      BY <3>1, <3>2
  <2>3. \A q \in Repos : \A o \in People : onFile[q][o] <= count[q][o]
    BY DEF OwnersKept, EdgesEarned
  <2> QED
    BY <1>6, <1>15, <2>1, <2>2, <2>3 DEF EdgesEarned
<1>18. StagesEarned'
  <2>1. ASSUME NEW v \in Workers, build'[v] # Own!Idle
        PROVE  /\ Outweighs(build[v])'
               /\ build'[v].alone =>
                     \A u \in Workers \ {v} : build'[u] # Own!Idle => build'[u].repo # build'[v].repo
    <3>1. PICK c : c = build[v]
      OBVIOUS
    <3>2. v # w /\ build'[v] = c /\ c # Own!Idle
      BY <1>14, <2>1, <3>1
    <3>3. /\ Outweighs(c) /\ c.repo \in Repos
          /\ c.alone => \A u \in Workers \ {v} : build[u] # Own!Idle => build[u].repo # c.repo
      BY <3>1, <3>2, StageIs DEF OwnersKept, StagesEarned
    <3>4. c.alone => c.repo # r
      BY <1>1, <1>3, <1>6, <3>2, <3>3
    <3>5. c.alone => \A n \in Own!AllNodes : owns'[n][c.repo] = owns[n][c.repo]
      BY <1>12, <3>3, <3>4
    <3>6. Outweighs(c)'
      <4>1. /\ c.weight > 0
            /\ Own!Earned(c.repo) => onFile'[c.repo][c.owner] > 0 /\ c.weight <= count'[c.repo][c.owner]
        BY <1>6, <3>3 DEF Outweighs
      <4>2. ~c.absent => \E n \in nodes' : n.who = c.owner
        BY <1>6, <3>3 DEF Outweighs
      <4>3. c.alone /\ Own!Earned(c.repo) => \A n \in Own!AllNodes : owns'[n][c.repo] <= c.weight
        BY <1>6, <3>3, <3>5 DEF Outweighs
      <4> QED
        BY <1>15, <4>1, <4>2, <4>3 DEF Outweighs
    <3>7. Outweighs(build[v])'
      BY <3>2, <3>6 DEF Outweighs
    <3> QED
      BY <1>14, <3>2, <3>3, <3>7
  <2> QED
    BY <1>15, <2>1 DEF StagesEarned
<1>19. OneNodeEach'
  <2> SUFFICES ASSUME constraint, NEW n \in nodes', NEW m \in nodes', n.who = m.who PROVE n = m
    BY <1>6 DEF OneNodeEach
  <2>1. CASE n \in nodes /\ m \in nodes
    BY <2>1 DEF OwnersKept, OneNodeEach
  <2>2. CASE n \in created \/ m \in created
    <3>1. n.who = p /\ m.who = p /\ Own!NodesOf(p) = {}
      BY <1>11, <2>2
    <3>2. n \notin nodes /\ m \notin nodes
      BY <3>1 DEF Own!NodesOf
    <3> QED
      BY <1>6, <1>11, <3>2
  <2> QED
    BY <1>6, <2>1, <2>2
<1>20. ASSUME NEW q \in Repos, trusted'[q] # Nothing PROVE Heaviest(q)'
  <2>1. CASE q = r
    <3>1. trusted'[q] = p /\ b.alone /\ Own!Earned(r)
      BY <1>13, <1>20, <2>1
    <3>2. PICK m \in nodes' : m.who = p
      BY <1>6, <1>11
    <3>3. owns'[m][q] = wt
      BY <1>6, <1>9, <1>7, <1>11, <1>12, <2>1, <3>2
    <3>4. \A k \in nodes' : owns'[k][q] <= wt
      <4> SUFFICES ASSUME NEW k \in nodes' PROVE owns'[k][q] <= wt
        OBVIOUS
      <4>1. k \in Own!AllNodes
        BY <1>6, <1>9, <1>11
      <4>2. owns'[k][q] = wt \/ owns'[k][q] = owns[k][q]
        BY <1>7, <1>12, <2>1, <4>1
      <4>3. owns[k][q] <= wt
        BY <1>8, <2>1, <3>1, <4>1
      <4> QED
        BY <1>7, <4>2, <4>3
    <3> QED
      BY <1>8, <3>1, <3>2, <3>3, <3>4 DEF Heaviest
  <2>2. CASE q # r
    <3>1. trusted'[q] = trusted[q] /\ Heaviest(q)
      BY <1>13, <1>20, <2>2 DEF OwnersKept
    <3>2. PICK m \in nodes : m.who = trusted[q] /\ owns[m][q] > 0 /\ \A k \in nodes : owns[k][q] <= owns[m][q]
      BY <3>1 DEF Heaviest
    <3>3. \A k \in Own!AllNodes : owns'[k][q] = owns[k][q] /\ owns[k][q] \in Nat
      BY <1>9, <1>12, <2>2
    <3>4. ASSUME NEW k \in nodes' PROVE owns'[k][q] <= owns'[m][q]
      <4>1. k \in Own!AllNodes /\ m \in Own!AllNodes
        BY <1>6, <1>9, <1>11
      <4>2. CASE k \in nodes
        BY <3>2, <3>3, <4>1, <4>2
      <4>3. CASE k \notin nodes
        <5>1. owns[k][q] = 0
          BY <4>1, <4>3 DEF OwnersKept, EdgesEarned
        <5> QED
          BY <3>3, <4>1, <5>1
      <4> QED
        BY <4>2, <4>3
    <3>5. m \in nodes' /\ owns'[m][q] > 0
      BY <1>6, <1>9, <3>2, <3>3
    <3> QED
      BY <3>1, <3>2, <3>4, <3>5 DEF Heaviest
  <2> QED
    BY <2>1, <2>2
<1> QED
  BY <1>16, <1>17, <1>18, <1>19, <1>20 DEF OwnersKept

LEMMA CollapseKeepsOwners ==
  ASSUME OwnersKept, Own!Collapse
  PROVE  OwnersKept'
<1> DEFINE one(p) == [who |-> p, copy |-> 1]
           two(p) == [who |-> p, copy |-> 2]
<1>1. PICK kept : kept = [p \in People |-> CHOOSE n \in Own!NodesOf(p) : TRUE]
  OBVIOUS
<1>2. PICK added : added = {r \in Repos : \E p \in Own!Duplicated : \A n \in Own!NodesOf(p) : owns[n][r] > 0}
  OBVIOUS
<1>3. /\ count \in [Repos -> [People -> Nat]] /\ onFile \in [Repos -> [People -> Nat]]
      /\ build \in [Workers -> {Own!Idle} \cup GraphStage] /\ nodes \subseteq Own!AllNodes
      /\ owns \in [Own!AllNodes -> [Repos -> Nat]] /\ trusted \in [Repos -> People \cup {Nothing}]
      /\ inflated \subseteq Repos /\ rewritten \subseteq Repos /\ changes \in Nat
  BY DEF OwnersKept, OwnersTyped
<1>4. \A n \in Own!AllNodes : n.who \in People /\ (n = one(n.who) \/ n = two(n.who))
  BY DEF Own!AllNodes
<1>5. \A p \in People : one(p) \in Own!AllNodes /\ two(p) \in Own!AllNodes /\ one(p) # two(p)
                        /\ one(p).who = p /\ two(p).who = p
  BY DEF Own!AllNodes
<1>6. /\ nodes' = {n \in nodes : n = kept[n.who]}
      /\ inflated' = inflated \cup added
      /\ trusted' = [r \in Repos |-> IF r \in added THEN Nothing ELSE trusted[r]]
      /\ UNCHANGED <<count, onFile, constraint, build, rewritten, changes>>
  <2>1. \A n \in nodes : kept[n.who] = CHOOSE m \in Own!NodesOf(n.who) : TRUE
    BY <1>1, <1>3, <1>4
  <2>2. nodes' = {n \in nodes : n = CHOOSE m \in Own!NodesOf(n.who) : TRUE}
    BY DEF Own!Collapse
  <2>3. /\ inflated' = inflated \cup added
        /\ trusted' = [r \in Repos |-> IF r \in added THEN Nothing ELSE trusted[r]]
        /\ UNCHANGED <<count, onFile, constraint, build, rewritten, changes>>
    BY <1>2 DEF Own!Collapse
  <2> QED
    BY <2>1, <2>2, <2>3
<1>7. owns' = [n \in Own!AllNodes |-> [r \in Repos |->
         IF n \in nodes'
         THEN (IF one(n.who) \in nodes THEN owns[one(n.who)][r] ELSE 0)
              + (IF two(n.who) \in nodes THEN owns[two(n.who)][r] ELSE 0)
         ELSE 0]]
  BY DEF Own!Collapse
<1>8. \A n \in Own!AllNodes : \A r \in Repos : owns[n][r] \in Nat /\ (n \notin nodes => owns[n][r] = 0)
  BY <1>3 DEF OwnersKept, EdgesEarned
<1> HIDE DEF one, two
<1>9. \A n \in Own!AllNodes : \A r \in Repos :
        owns'[n][r] = IF n \in nodes' THEN owns[one(n.who)][r] + owns[two(n.who)][r] ELSE 0
  <2> SUFFICES ASSUME NEW n \in Own!AllNodes, NEW r \in Repos
               PROVE  owns'[n][r] = IF n \in nodes' THEN owns[one(n.who)][r] + owns[two(n.who)][r] ELSE 0
    OBVIOUS
  <2>1. owns'[n][r] = IF n \in nodes'
         THEN (IF one(n.who) \in nodes THEN owns[one(n.who)][r] ELSE 0)
              + (IF two(n.who) \in nodes THEN owns[two(n.who)][r] ELSE 0)
         ELSE 0
    BY <1>7
  <2>2. /\ (IF one(n.who) \in nodes THEN owns[one(n.who)][r] ELSE 0) = owns[one(n.who)][r]
        /\ (IF two(n.who) \in nodes THEN owns[two(n.who)][r] ELSE 0) = owns[two(n.who)][r]
    BY <1>4, <1>5, <1>8
  <2> QED
    BY <2>1, <2>2
<1>10. owns' \in [Own!AllNodes -> [Repos -> Nat]]
  <2>1. \A n \in Own!AllNodes : \A r \in Repos : owns'[n][r] \in Nat
    BY <1>4, <1>5, <1>8, <1>9
  <2>2. owns' = [n \in Own!AllNodes |-> [r \in Repos |-> owns'[n][r]]]
    BY <1>7
  <2> QED
    BY <2>1, <2>2
\* A person who has a node keeps one.
<1>11. \A n \in nodes : kept[n.who] \in nodes' /\ kept[n.who].who = n.who
  <2> SUFFICES ASSUME NEW n \in nodes PROVE kept[n.who] \in nodes' /\ kept[n.who].who = n.who
    OBVIOUS
  <2>1. n.who \in People /\ n \in Own!NodesOf(n.who)
    BY <1>3, <1>4 DEF Own!NodesOf
  <2>2. kept[n.who] \in Own!NodesOf(n.who)
    BY <1>1, <2>1
  <2>3. kept[n.who] \in nodes /\ kept[n.who].who = n.who
    BY <2>2 DEF Own!NodesOf
  <2> QED
    BY <1>6, <2>3
\* Where nothing was added up, one of the two edges has no weight.
<1>12. ASSUME NEW r \in Repos, r \notin added, NEW p \in People
       PROVE  owns[one(p)][r] = 0 \/ owns[two(p)][r] = 0
  <2> SUFFICES ASSUME owns[one(p)][r] > 0, owns[two(p)][r] > 0 PROVE FALSE
    BY <1>5, <1>8
  <2>1. one(p) \in nodes /\ two(p) \in nodes
    BY <1>5, <1>8
  <2>2. \A n \in Own!NodesOf(p) : n = one(p) \/ n = two(p)
    BY <1>3, <1>4 DEF Own!NodesOf
  <2>3. one(p) \in Own!NodesOf(p) /\ two(p) \in Own!NodesOf(p)
    BY <1>5, <2>1 DEF Own!NodesOf
  <2>4. p \in Own!Duplicated
    <3>1. IsFiniteSet(Own!NodesOf(p)) /\ Own!NodesOf(p) = {one(p), two(p)}
      <4>1. Own!NodesOf(p) = {one(p)} \cup {two(p)} /\ {one(p), two(p)} = {one(p)} \cup {two(p)}
        BY <2>2, <2>3
      <4>2. IsFiniteSet({one(p)}) /\ IsFiniteSet({two(p)})
        BY FS_Singleton
      <4>3. IsFiniteSet({one(p)} \cup {two(p)})
        BY <4>2, FS_Union
      <4> QED
        BY <4>1, <4>3
    <3>2. Cardinality(Own!NodesOf(p)) \in Nat
      BY <3>1, FS_CardinalityType
    <3>3. Cardinality(Own!NodesOf(p)) # 0 /\ Cardinality(Own!NodesOf(p)) # 1
      <4>1. Own!NodesOf(p) # {} /\ ~ \E x : Own!NodesOf(p) = {x}
        BY <1>5, <3>1
      <4> QED
        BY <3>1, <4>1, FS_EmptySet, FS_Singleton
    <3>4. Own!Cardinality(Own!NodesOf(p)) > 1
      BY <3>2, <3>3, OwnershipCardinality
    <3> QED
      BY <3>4 DEF Own!Duplicated
  <2>5. \A n \in Own!NodesOf(p) : owns[n][r] > 0
    BY <2>2
  <2> QED
    BY <1>2, <1>12, <2>4, <2>5
<1>13. ASSUME NEW r \in Repos, r \notin added, NEW n \in nodes'
       PROVE  \E m \in Own!AllNodes : m.who = n.who /\ owns'[n][r] = owns[m][r]
  <2>1. n \in Own!AllNodes /\ n.who \in People
    BY <1>3, <1>4, <1>6
  <2>2. owns[one(n.who)][r] \in Nat /\ owns[two(n.who)][r] \in Nat
    BY <1>5, <1>8, <2>1
  <2>3. owns[one(n.who)][r] = 0 \/ owns[two(n.who)][r] = 0
    BY <1>12, <1>13, <2>1
  <2>4. owns'[n][r] = owns[one(n.who)][r] \/ owns'[n][r] = owns[two(n.who)][r]
    BY <1>9, <1>13, <2>1, <2>2, <2>3
  <2> QED
    BY <1>5, <2>1, <2>4
<1>14. ASSUME NEW r \in Repos, r \notin added, NEW m \in nodes, owns[m][r] > 0
       PROVE  owns'[kept[m.who]][r] = owns[m][r]
  <2>1. m \in Own!AllNodes /\ m.who \in People /\ (m = one(m.who) \/ m = two(m.who))
    BY <1>3, <1>4
  <2>2. kept[m.who] \in nodes' /\ kept[m.who].who = m.who /\ kept[m.who] \in Own!AllNodes
    BY <1>3, <1>6, <1>11
  <2>3. owns'[kept[m.who]][r] = owns[one(m.who)][r] + owns[two(m.who)][r]
    BY <1>9, <2>2
  <2>4. owns[one(m.who)][r] = 0 \/ owns[two(m.who)][r] = 0
    BY <1>12, <1>14, <2>1
  <2>5. owns[one(m.who)][r] \in Nat /\ owns[two(m.who)][r] \in Nat
    BY <1>5, <1>8, <2>1
  <2>6. CASE m = one(m.who)
    <3>1. owns[one(m.who)][r] = owns[m][r]
      BY <2>6
    <3> QED
      BY <1>14, <2>3, <2>4, <2>5, <3>1
  <2>7. CASE m = two(m.who)
    <3>1. owns[two(m.who)][r] = owns[m][r]
      BY <2>7
    <3> QED
      BY <1>14, <2>3, <2>4, <2>5, <3>1
  <2> QED
    BY <2>1, <2>6, <2>7
<1>15. /\ Own!AllNodes' = Own!AllNodes /\ Own!Idle' = Own!Idle
       /\ \A q : Own!Earned(q)' => Own!Earned(q) /\ q \notin added
  BY <1>6 DEF Own!AllNodes, Own!Idle, Own!Earned
<1>16. nodes' \subseteq nodes /\ nodes' \subseteq Own!AllNodes
  BY <1>3, <1>6
<1>17. OwnersTyped'
  <2>1. trusted' \in [Repos -> People \cup {Nothing}]
    BY <1>3, <1>6
  <2>2. added \subseteq Repos
    BY <1>2
  <2> QED
    BY <1>3, <1>6, <1>10, <1>15, <1>16, <2>1, <2>2 DEF OwnersTyped
<1>18. EdgesEarned'
  <2>1. \A n \in Own!AllNodes \ nodes' : \A r \in Repos : owns'[n][r] = 0
    BY <1>9
  <2>2. ASSUME NEW r \in Repos, Own!Earned(r)', NEW n \in Own!AllNodes, owns'[n][r] > 0
        PROVE  onFile[r][n.who] > 0 /\ owns'[n][r] <= count[r][n.who]
    <3>1. Own!Earned(r) /\ r \notin added /\ n \in nodes'
      BY <1>9, <1>15, <2>2
    <3>2. PICK m \in Own!AllNodes : m.who = n.who /\ owns'[n][r] = owns[m][r]
      BY <1>13, <3>1
    <3> QED
      BY <2>2, <3>1, <3>2 DEF OwnersKept, EdgesEarned
  <2>3. \A q \in Repos : \A o \in People : onFile[q][o] <= count[q][o]
    BY DEF OwnersKept, EdgesEarned
  <2> QED
    BY <1>6, <1>15, <2>1, <2>2, <2>3 DEF EdgesEarned
<1>19. StagesEarned'
  <2>1. ASSUME NEW c \in GraphStage, Outweighs(c) PROVE Outweighs(c)'
    <3>1. /\ c.weight > 0
          /\ Own!Earned(c.repo)' => onFile'[c.repo][c.owner] > 0 /\ c.weight <= count'[c.repo][c.owner]
      BY <1>6, <1>15, <2>1 DEF Outweighs
    <3>2. ~c.absent => \E n \in nodes' : n.who = c.owner
      BY <1>11, <2>1 DEF Outweighs
    <3>3. ASSUME c.alone, Own!Earned(c.repo)', NEW n \in Own!AllNodes PROVE owns'[n][c.repo] <= c.weight
      <4>1. c.repo \in Repos /\ Own!Earned(c.repo) /\ c.repo \notin added /\ c.weight \in Nat
        BY <1>15, <3>3 DEF GraphStage
      <4>2. CASE n \in nodes'
        <5>1. PICK m \in Own!AllNodes : m.who = n.who /\ owns'[n][c.repo] = owns[m][c.repo]
          BY <1>13, <4>1, <4>2
        <5> QED
          BY <2>1, <3>3, <4>1, <5>1 DEF Outweighs
      <4>3. CASE n \notin nodes'
        BY <1>9, <4>1, <4>3
      <4> QED
        BY <4>2, <4>3
    <3> QED
      BY <1>15, <3>1, <3>2, <3>3 DEF Outweighs
  <2>2. ASSUME NEW v \in Workers, build[v] # Own!Idle PROVE Outweighs(build[v])'
    <3>1. PICK c \in GraphStage : c = build[v]
      BY <2>2, StageIs DEF OwnersKept
    <3>2. Outweighs(c)'
      BY <2>1, <2>2, <3>1 DEF OwnersKept, StagesEarned
    <3>3. build'[v] = c
      BY <1>6, <3>1
    <3> QED
      BY <3>2, <3>3 DEF Outweighs
  <2> QED
    BY <1>6, <1>15, <2>2 DEF OwnersKept, StagesEarned
<1>20. OneNodeEach'
  BY <1>6 DEF OneNodeEach
<1>21. ASSUME NEW r \in Repos, trusted'[r] # Nothing PROVE Heaviest(r)'
  <2>1. r \notin added /\ trusted'[r] = trusted[r] /\ Heaviest(r)
    BY <1>6, <1>21 DEF OwnersKept
  <2>2. PICK m \in nodes : m.who = trusted[r] /\ owns[m][r] > 0 /\ \A k \in nodes : owns[k][r] <= owns[m][r]
    BY <2>1 DEF Heaviest
  <2>3. kept[m.who] \in nodes' /\ kept[m.who].who = trusted[r] /\ owns'[kept[m.who]][r] = owns[m][r]
    BY <1>11, <1>14, <2>1, <2>2
  <2>4. ASSUME NEW k \in nodes' PROVE owns'[k][r] <= owns[m][r]
    <3>1. PICK j \in Own!AllNodes : j.who = k.who /\ owns'[k][r] = owns[j][r]
      BY <1>13, <2>1
    <3>2. CASE j \in nodes
      BY <2>2, <3>1, <3>2
    <3>3. CASE j \notin nodes
      <4>1. owns[j][r] = 0
        BY <1>8, <3>3
      <4>2. owns[m][r] \in Nat
        BY <1>3, <1>8
      <4> QED
        BY <3>1, <4>1, <4>2
    <3> QED
      BY <3>2, <3>3
  <2> QED
    BY <2>1, <2>2, <2>3, <2>4 DEF Heaviest
<1> QED
  BY <1>17, <1>18, <1>19, <1>20, <1>21 DEF OwnersKept

LEMMA OwnersInit == Init => OwnersKept
<1> SUFFICES ASSUME Own!Init PROVE OwnersKept
  BY DEF Init
<1>1. /\ count = [r \in Repos |-> [p \in People |-> 0]] /\ onFile = count
      /\ nodes = {} /\ owns = [n \in Own!AllNodes |-> [r \in Repos |-> 0]]
      /\ constraint = FALSE /\ build = [w \in Workers |-> Own!Idle]
      /\ trusted = [r \in Repos |-> Nothing] /\ inflated = {} /\ rewritten = {} /\ changes = 0
  BY DEF Own!Init
<1>2. OwnersTyped
  BY <1>1 DEF OwnersTyped
<1>3. EdgesEarned
  BY <1>1 DEF EdgesEarned
<1> QED
  BY <1>1, <1>2, <1>3 DEF OwnersKept, StagesEarned, OneNodeEach

LEMMA OwnersNext == OwnersKept /\ [Own!Next]_ownershipVars => OwnersKept'
<1> SUFFICES ASSUME OwnersKept, [Own!Next]_ownershipVars PROVE OwnersKept'
  OBVIOUS
<1>1. CASE UNCHANGED ownershipVars
  BY <1>1 DEF ownershipVars, OwnersKept, OwnersTyped, EdgesEarned, StagesEarned, Outweighs,
              OneNodeEach, Heaviest, Own!AllNodes, Own!Idle, Own!Earned
<1> QED
  BY <1>1, CommitKeepsOwners, RewriteKeepsOwners, DeleteRepoKeepsOwners, ConstraintKeepsOwners, LoseBatchKeepsOwners,
     BeginBuildKeepsOwners, EndBuildKeepsOwners, CollapseKeepsOwners DEF Own!Next

\* Once the constraint exists nobody has two nodes; find_owner may name the owner the last
\* undisturbed build computed, however builds, lost batches, repairs, force-pushes and
\* deletions overlap; and where no weight was added up and no commit dropped, whoever else it
\* names on a tie touched the file and has made at least the commits that owner had
\* (ensure_schema, _build_graph_sync, find_owner).
THEOREM ServicesOwnerIsCurrent == Spec => []OwnerIsCurrent
<1>1. OwnersKept => OwnerIsCurrent
  <2> SUFFICES ASSUME OwnersKept PROVE Own!OwnerIsCurrent
    BY DEF OwnerIsCurrent
  <2>1. constraint => Own!Duplicated = {}
    BY NotDuplicated DEF OwnersKept, OwnersTyped, OneNodeEach
  <2>2. ASSUME NEW r \in Repos, trusted[r] # Nothing
        PROVE  /\ trusted[r] \in Own!FindOwner(r) /\ r \in Own!Owned(trusted[r])
               /\ Own!Earned(r) => \A p \in Own!FindOwner(r) :
                     /\ p \in Own!Touched(r)
                     /\ \A n \in Own!NodesOf(trusted[r]) : owns[n][r] <= count[r][p]
    <3>1. PICK m \in nodes : /\ m.who = trusted[r] /\ owns[m][r] > 0
                             /\ \A k \in nodes : owns[k][r] <= owns[m][r]
      BY <2>2 DEF OwnersKept, Heaviest
    <3>2. \A k \in nodes : k \in Own!AllNodes /\ owns[k][r] \in Nat /\ k.who \in People
      BY NodeIs DEF OwnersKept, OwnersTyped
    <3>3. \A k \in nodes : ~ Own!Heavier(k, m, r)
      BY <3>1, <3>2 DEF Own!Heavier
    <3>4. trusted[r] \in Own!FindOwner(r) /\ r \in Own!Owned(trusted[r])
      BY <3>1, <3>3 DEF Own!FindOwner, Own!Owned, Own!NodesOf
    <3>5. ASSUME Own!Earned(r), NEW p \in Own!FindOwner(r)
          PROVE  /\ p \in Own!Touched(r)
                 /\ \A n \in Own!NodesOf(trusted[r]) : owns[n][r] <= count[r][p]
      <4>1. PICK k \in nodes : k.who = p /\ owns[k][r] > 0 /\ \A n \in nodes : ~ Own!Heavier(n, k, r)
        BY <3>5 DEF Own!FindOwner
      <4>2. k.who \in People /\ onFile[r][k.who] > 0 /\ owns[k][r] <= count[r][k.who]
        BY <3>2, <3>5, <4>1 DEF OwnersKept, EdgesEarned
      <4>3. count[r][p] \in Nat
        BY <4>1, <4>2 DEF OwnersKept, OwnersTyped
      <4>4. ASSUME NEW n \in nodes PROVE owns[n][r] <= count[r][p]
        <5>1. ~ (owns[k][r] < owns[n][r])
          BY <4>1 DEF Own!Heavier
        <5> QED
          BY <3>2, <4>1, <4>2, <4>3, <5>1
      <4> QED
        BY <4>1, <4>2, <4>4 DEF Own!Touched, Own!NodesOf
    <3> QED
      BY <3>4, <3>5
  <2> QED
    BY <2>1, <2>2 DEF Own!OwnerIsCurrent
<1> QED
  BY <1>1, OwnersInit, OwnersNext, OwnershipStep, PTL DEF Spec

-----------------------------------------------------------------------------
(* Sums.  The sum over a finite set is a recursive function on its subsets.  *)
(* What holds of every subset is shown by a smallest subset for which it     *)
(* would not hold.                                                           *)

\* The recursion that the fold of a sum unfolds to.
Sums(g, f, S) ==
    g = [s \in SUBSET S |-> IF s = {} THEN 0
                            ELSE LET x == CHOOSE y \in s : TRUE IN f[x] + g[s \ {x}]]

LEMMA SmallestSubset ==
  ASSUME NEW S, IsFiniteSet(S), NEW Bad \in SUBSET SUBSET S, Bad # {}
  PROVE  \E s \in Bad : \A t \in SUBSET s : t # s => t \notin Bad
<1>1. IsWellFoundedOn(StrictSubsetOrdering(S), SUBSET S)
  BY FS_StrictSubsetOrderingWellFounded, FS_FiniteSubsetsOfFinite
<1>2. PICK s \in Bad : \A t \in Bad : ~ (<<t, s>> \in StrictSubsetOrdering(S))
  BY <1>1, WFMin
<1>3. ASSUME NEW t \in SUBSET s, t # s, t \in Bad PROVE FALSE
  <2>1. <<t, s>> \in StrictSubsetOrdering(S)
    BY <1>3 DEF StrictSubsetOrdering
  <2> QED
    BY <2>1, <1>2, <1>3
<1> QED
  BY <1>3

LEMMA Picked == \A s : s # {} => (CHOOSE y \in s : TRUE) \in s
  OBVIOUS

LEMMA SumUnfolds ==
  ASSUME NEW S, NEW f, NEW g, Sums(g, f, S), NEW s \in SUBSET S
  PROVE  /\ s = {} => g[s] = 0
         /\ s # {} => /\ (CHOOSE y \in s : TRUE) \in s
                      /\ g[s] = f[CHOOSE y \in s : TRUE] + g[s \ {CHOOSE y \in s : TRUE}]
<1>1. g[s] = IF s = {} THEN 0 ELSE LET x == CHOOSE y \in s : TRUE IN f[x] + g[s \ {x}]
  BY DEF Sums
<1> QED
  BY <1>1, Picked

\* Two sums of one function agree wherever both are defined.
LEMMA SumsAgree ==
  ASSUME NEW S, IsFiniteSet(S), NEW T \in SUBSET S, NEW f, NEW g, NEW h, Sums(g, f, S), Sums(h, f, T)
  PROVE  \A s \in SUBSET T : g[s] = h[s]
<1> DEFINE Bad == {s \in SUBSET T : g[s] # h[s]}
<1>1. SUFFICES ASSUME Bad # {} PROVE FALSE
  OBVIOUS
<1>2. Bad \in SUBSET SUBSET S
  OBVIOUS
<1>3. PICK s \in Bad : \A t \in SUBSET s : t # s => t \notin Bad
  <2> HIDE DEF Bad
  <2> QED
    BY <1>1, <1>2, SmallestSubset
<1>4. s \in SUBSET T /\ s \in SUBSET S /\ g[s] # h[s]
  OBVIOUS
<1>5. s # {}
  BY <1>4, SumUnfolds
<1>6. PICK x \in s : g[s] = f[x] + g[s \ {x}] /\ h[s] = f[x] + h[s \ {x}]
  <2> HIDE DEF Bad
  <2>1. /\ (CHOOSE y \in s : TRUE) \in s
        /\ g[s] = f[CHOOSE y \in s : TRUE] + g[s \ {CHOOSE y \in s : TRUE}]
    BY <1>4, <1>5, SumUnfolds
  <2>2. h[s] = f[CHOOSE y \in s : TRUE] + h[s \ {CHOOSE y \in s : TRUE}]
    BY <1>4, <1>5, SumUnfolds
  <2> QED
    BY <2>1, <2>2
<1>7. s \ {x} \in SUBSET T /\ s \ {x} \in SUBSET s /\ s \ {x} # s
  BY <1>4
<1>8. s \ {x} \notin Bad
  BY <1>3, <1>7
<1>9. g[s \ {x}] = h[s \ {x}]
  BY <1>7, <1>8
<1> QED
  BY <1>4, <1>6, <1>9

LEMMA SumExists ==
  ASSUME NEW S, IsFiniteSet(S), NEW f
  PROVE  \E g : Sums(g, f, S)
<1> DEFINE Bad == {s \in SUBSET S : \A g : ~ Sums(g, f, s)}
<1>1. SUFFICES ASSUME Bad # {} PROVE FALSE
  OBVIOUS
<1>2. Bad \in SUBSET SUBSET S
  OBVIOUS
<1>3. PICK s \in Bad : \A t \in SUBSET s : t # s => t \notin Bad
  <2> HIDE DEF Bad
  <2> QED
    BY <1>1, <1>2, SmallestSubset
<1>4. s \in SUBSET S /\ \A g : ~ Sums(g, f, s)
  OBVIOUS
<1> DEFINE G(t) == CHOOSE g : Sums(g, f, t)
<1>5. \A t \in SUBSET s : t # s => Sums(G(t), f, t)
  <2> SUFFICES ASSUME NEW t \in SUBSET s, t # s PROVE Sums(G(t), f, t)
    OBVIOUS
  <2>1. t \in SUBSET S /\ t \notin Bad
    BY <1>3, <1>4
  <2>2. \E g : Sums(g, f, t)
    BY <2>1
  <2> QED
    BY <2>2
<1> DEFINE g == [t \in SUBSET s |-> IF t = {} THEN 0
                                    ELSE LET x == CHOOSE y \in t : TRUE IN f[x] + G(t \ {x})[t \ {x}]]
<1>6. \A t \in SUBSET s : t # s => g[t] = G(t)[t]
  <2> SUFFICES ASSUME NEW t \in SUBSET s, t # s PROVE g[t] = G(t)[t]
    OBVIOUS
  <2>1. Sums(G(t), f, t)
    BY <1>5
  <2>2. CASE t = {}
    <3>1. G(t)[t] = 0
      <4> HIDE DEF G
      <4> QED
        BY <2>1, <2>2, SumUnfolds
    <3> QED
      BY <2>2, <3>1
  <2>3. CASE t # {}
    <3> DEFINE u == t \ {CHOOSE y \in t : TRUE}
    <3>1. (CHOOSE y \in t : TRUE) \in t /\ G(t)[t] = f[CHOOSE y \in t : TRUE] + G(t)[u]
      <4> HIDE DEF G
      <4> QED
        BY <2>1, <2>3, SumUnfolds
    <3>2. u \in SUBSET t /\ u \in SUBSET s /\ u # s
      BY <3>1
    <3>3. Sums(G(u), f, u)
      BY <1>5, <3>2
    <3>4. IsFiniteSet(t)
      BY <1>4, FS_Subset
    <3>5. G(t)[u] = G(u)[u]
      <4> HIDE DEF G, u
      <4> QED
        BY <2>1, <3>2, <3>3, <3>4, SumsAgree
    <3>6. g[t] = f[CHOOSE y \in t : TRUE] + G(u)[u]
      <4> HIDE DEF G
      <4> QED
        BY <2>3
    <3> HIDE DEF G, g, u
    <3> QED
      BY <3>1, <3>5, <3>6
  <2> QED
    BY <2>2, <2>3
<1>7. \A t \in SUBSET s : t # {} =>
         LET x == CHOOSE y \in t : TRUE IN G(t \ {x})[t \ {x}] = g[t \ {x}]
  <2> SUFFICES ASSUME NEW t \in SUBSET s, t # {}
               PROVE  LET x == CHOOSE y \in t : TRUE IN G(t \ {x})[t \ {x}] = g[t \ {x}]
    OBVIOUS
  <2>1. PICK x : x = CHOOSE y \in t : TRUE
    OBVIOUS
  <2>2. x \in t
    BY <2>1, Picked
  <2>3. t \ {x} \in SUBSET s /\ t \ {x} # s
    BY <2>2
  <2> HIDE DEF G, g
  <2> QED
    BY <1>6, <2>1, <2>3
<1>8. g = [t \in SUBSET s |-> IF t = {} THEN 0
                              ELSE LET x == CHOOSE y \in t : TRUE IN f[x] + g[t \ {x}]]
  <2> DEFINE h == [t \in SUBSET s |-> IF t = {} THEN 0
                              ELSE LET x == CHOOSE y \in t : TRUE IN f[x] + g[t \ {x}]]
  <2>1. \A t \in SUBSET s : g[t] = h[t]
    <3> SUFFICES ASSUME NEW t \in SUBSET s PROVE g[t] = h[t]
      OBVIOUS
    <3>1. g[t] = IF t = {} THEN 0
                 ELSE LET x == CHOOSE y \in t : TRUE IN f[x] + G(t \ {x})[t \ {x}]
      <4> HIDE DEF G
      <4> QED
        OBVIOUS
    <3>2. h[t] = IF t = {} THEN 0
                 ELSE LET x == CHOOSE y \in t : TRUE IN f[x] + g[t \ {x}]
      <4> HIDE DEF G, g
      <4> QED
        OBVIOUS
    <3> HIDE DEF G, g, h
    <3> QED
      BY <1>7, <3>1, <3>2
  <2>2. DOMAIN g = SUBSET s /\ DOMAIN h = SUBSET s /\ g = [t \in DOMAIN g |-> g[t]] /\ h = [t \in DOMAIN h |-> h[t]]
    <3> HIDE DEF G
    <3> QED
      OBVIOUS
  <2>3. g = h
    <3> HIDE DEF G, g, h
    <3> QED
      BY <2>1, <2>2
  <2> HIDE DEF G, g
  <2> QED
    BY <2>3
<1>9. Sums(g, f, s)
  <2> HIDE DEF G, g
  <2> QED
    BY <1>8 DEF Sums
<1> HIDE DEF G, g
<1> QED
  BY <1>4, <1>9

-----------------------------------------------------------------------------

SumOf(f, S) == (CHOOSE g : Sums(g, f, S))[S]

LEMMA SumIs ==
  ASSUME NEW S, IsFiniteSet(S), NEW f, NEW g, Sums(g, f, S)
  PROVE  SumOf(f, S) = g[S]
<1>1. PICK h : h = CHOOSE k : Sums(k, f, S)
  OBVIOUS
<1>2. Sums(h, f, S)
  BY <1>1
<1>3. h[S] = g[S]
  BY <1>2, SumsAgree
<1> QED
  BY <1>1, <1>3 DEF SumOf

\* The sum of natural numbers is one.
LEMMA SumNatural ==
  ASSUME NEW S, IsFiniteSet(S), NEW f, \A x \in S : f[x] \in Nat, NEW g, Sums(g, f, S)
  PROVE  \A s \in SUBSET S : g[s] \in Nat
<1> DEFINE Bad == {s \in SUBSET S : g[s] \notin Nat}
<1>1. SUFFICES ASSUME Bad # {} PROVE FALSE
  OBVIOUS
<1>2. Bad \in SUBSET SUBSET S
  OBVIOUS
<1>3. PICK s \in Bad : \A t \in SUBSET s : t # s => t \notin Bad
  <2> HIDE DEF Bad
  <2> QED
    BY <1>1, <1>2, SmallestSubset
<1>4. s \in SUBSET S /\ g[s] \notin Nat
  OBVIOUS
<1>5. s # {}
  BY <1>4, SumUnfolds
<1>6. PICK x \in s : g[s] = f[x] + g[s \ {x}]
  <2> HIDE DEF Bad
  <2>1. /\ (CHOOSE y \in s : TRUE) \in s
        /\ g[s] = f[CHOOSE y \in s : TRUE] + g[s \ {CHOOSE y \in s : TRUE}]
    BY <1>4, <1>5, SumUnfolds
  <2> QED
    BY <2>1
<1>7. s \ {x} \in SUBSET S /\ s \ {x} \in SUBSET s /\ s \ {x} # s
  BY <1>4
<1>8. s \ {x} \notin Bad
  BY <1>3, <1>7
<1>9. g[s \ {x}] \in Nat /\ f[x] \in Nat
  BY <1>4, <1>7, <1>8
<1> QED
  BY <1>4, <1>6, <1>9

\* Two functions that differ in one place have sums that differ by as much.
LEMMA SumsDiffer ==
  ASSUME NEW S, IsFiniteSet(S), NEW f, NEW e, NEW c \in S,
         \A x \in S : f[x] \in Nat /\ e[x] \in Nat, \A x \in S \ {c} : e[x] = f[x],
         NEW g, NEW h, Sums(g, f, S), Sums(h, e, S)
  PROVE  \A s \in SUBSET S :
           /\ c \notin s => h[s] = g[s]
           /\ c \in s => h[s] + f[c] = g[s] + e[c]
<1> DEFINE Right(s) == /\ c \notin s => h[s] = g[s]
                       /\ c \in s => h[s] + f[c] = g[s] + e[c]
           Bad == {s \in SUBSET S : ~ Right(s)}
<1>1. SUFFICES ASSUME Bad # {} PROVE FALSE
  OBVIOUS
<1>2. Bad \in SUBSET SUBSET S
  OBVIOUS
<1>3. PICK s \in Bad : \A t \in SUBSET s : t # s => t \notin Bad
  <2> HIDE DEF Bad
  <2> QED
    BY <1>1, <1>2, SmallestSubset
<1>4. s \in SUBSET S /\ ~ Right(s)
  OBVIOUS
<1>5. s # {}
  <2> HIDE DEF Bad
  <2>1. ASSUME s = {} PROVE FALSE
    <3>1. g[s] = 0 /\ h[s] = 0 /\ c \notin s
      BY <1>4, <2>1, SumUnfolds
    <3> QED
      BY <1>4, <3>1
  <2> QED
    BY <2>1
<1>6. PICK x \in s : g[s] = f[x] + g[s \ {x}] /\ h[s] = e[x] + h[s \ {x}]
  <2> HIDE DEF Bad
  <2>1. /\ (CHOOSE y \in s : TRUE) \in s
        /\ g[s] = f[CHOOSE y \in s : TRUE] + g[s \ {CHOOSE y \in s : TRUE}]
    BY <1>4, <1>5, SumUnfolds
  <2>2. h[s] = e[CHOOSE y \in s : TRUE] + h[s \ {CHOOSE y \in s : TRUE}]
    BY <1>4, <1>5, SumUnfolds
  <2> QED
    BY <2>1, <2>2
<1>7. s \ {x} \in SUBSET S /\ s \ {x} \in SUBSET s /\ s \ {x} # s
  BY <1>4
<1>8. Right(s \ {x})
  BY <1>3, <1>7
<1>9. /\ g[s \ {x}] \in Nat /\ h[s \ {x}] \in Nat
      /\ f[x] \in Nat /\ e[x] \in Nat /\ f[c] \in Nat /\ e[c] \in Nat
  BY <1>4, <1>7, SumNatural
<1>10. CASE x = c
  <2>1. h[s \ {x}] = g[s \ {x}] /\ c \in s
    BY <1>8, <1>10
  <2> QED
    BY <1>4, <1>6, <1>9, <1>10, <2>1
<1>11. CASE x # c
  <2>1. e[x] = f[x]
    BY <1>4, <1>11
  <2>2. CASE c \in s
    <3>1. h[s \ {x}] + f[c] = g[s \ {x}] + e[c]
      BY <1>8, <1>11, <2>2
    <3> QED
      BY <1>4, <1>6, <1>9, <2>1, <2>2, <3>1
  <2>3. CASE c \notin s
    <3>1. h[s \ {x}] = g[s \ {x}]
      BY <1>8, <2>3
    <3> QED
      BY <1>4, <1>6, <1>9, <2>1, <2>3, <3>1
  <2> QED
    BY <2>2, <2>3
<1> QED
  BY <1>10, <1>11

LEMMA SumOfNaturals ==
  ASSUME NEW S, IsFiniteSet(S), NEW f, \A x \in S : f[x] \in Nat
  PROVE  SumOf(f, S) \in Nat
<1>1. PICK g : Sums(g, f, S)
  BY SumExists
<1>2. SumOf(f, S) = g[S] /\ g[S] \in Nat
  BY <1>1, SumIs, SumNatural
<1> QED
  BY <1>2

LEMMA SumOfChanged ==
  ASSUME NEW S, IsFiniteSet(S), NEW f, NEW e, NEW c \in S,
         \A x \in S : f[x] \in Nat /\ e[x] \in Nat, \A x \in S \ {c} : e[x] = f[x]
  PROVE  SumOf(e, S) + f[c] = SumOf(f, S) + e[c]
<1>1. PICK g : Sums(g, f, S)
  BY SumExists
<1>2. PICK h : Sums(h, e, S)
  BY SumExists
<1>3. SumOf(f, S) = g[S] /\ SumOf(e, S) = h[S]
  BY <1>1, <1>2, SumIs
<1>4. S \in SUBSET S
  OBVIOUS
<1>5. h[S] + f[c] = g[S] + e[c]
  <2>1. \A s \in SUBSET S : c \in s => h[s] + f[c] = g[s] + e[c]
    BY <1>1, <1>2, SumsDiffer
  <2> QED
    BY <1>4, <2>1
<1> QED
  BY <1>3, <1>5

LEMMA SumOfZeros ==
  ASSUME NEW S, IsFiniteSet(S), NEW f, \A x \in S : f[x] = 0
  PROVE  SumOf(f, S) = 0
<1>1. PICK g : Sums(g, f, S)
  BY SumExists
<1> DEFINE Bad == {s \in SUBSET S : g[s] # 0}
<1>2. SUFFICES ASSUME Bad # {} PROVE FALSE
  BY <1>1, SumIs
<1>3. Bad \in SUBSET SUBSET S
  OBVIOUS
<1>4. PICK s \in Bad : \A t \in SUBSET s : t # s => t \notin Bad
  <2> HIDE DEF Bad
  <2> QED
    BY <1>2, <1>3, SmallestSubset
<1>5. s \in SUBSET S /\ g[s] # 0
  OBVIOUS
<1>6. s # {}
  BY <1>1, <1>5, SumUnfolds
<1>7. PICK x \in s : g[s] = f[x] + g[s \ {x}]
  <2> HIDE DEF Bad
  <2>1. /\ (CHOOSE y \in s : TRUE) \in s
        /\ g[s] = f[CHOOSE y \in s : TRUE] + g[s \ {CHOOSE y \in s : TRUE}]
    BY <1>1, <1>5, <1>6, SumUnfolds
  <2> QED
    BY <2>1
<1>8. s \ {x} \in SUBSET S /\ s \ {x} \in SUBSET s /\ s \ {x} # s
  BY <1>5
<1>9. g[s \ {x}] = 0 /\ f[x] = 0
  BY <1>4, <1>5, <1>8
<1> QED
  BY <1>5, <1>7, <1>9

-----------------------------------------------------------------------------
(* The books.                                                                *)

LEMMA ProvidersStep == [Next]_vars => [Pro!Next]_<<config, llmCall, billed, ledger, leaks>>
  BY DEF Next, Held, vars, providerVars

LLMCall == [kind : {"idle", "single", "chat", "ending"}, chain : SUBSET DOMAIN Order,
            prompt : Nat, used : Nat, who : Pro!ProviderSet]

UsedBy == [c \in Callers |-> llmCall[c].used]

\* What is booked or held by a chat was billed, and without a leak nothing else was.
Accounted ==
    /\ SumOf(ledger, Pro!ProviderSet) + SumOf(UsedBy, Callers) <= SumOf(billed, Pro!ProviderSet)
    /\ leaks = {} => SumOf(ledger, Pro!ProviderSet) + SumOf(UsedBy, Callers) = SumOf(billed, Pro!ProviderSet)

\* Only chats hold tokens.
BooksKept ==
    /\ llmCall \in [Callers -> LLMCall]
    /\ \A c \in Callers : llmCall[c].kind \in {"idle", "single"} => llmCall[c].used = 0
    /\ billed \in [Pro!ProviderSet -> Nat] /\ ledger \in [Pro!ProviderSet -> Nat]
    /\ leaks \subseteq Pro!Causes
    /\ Accounted

LEMMA TotalIsSum == \A f : Pro!Total(f) = SumOf(f, Pro!ProviderSet)
  BY DEF Pro!Total, Pro!MapThenSumSet, Pro!MapThenFoldSet, SumOf, Sums

LEMMA PendingIsSum == Pro!Pending = SumOf(UsedBy, Callers)
<1> DEFINE Added(h) == [s \in SUBSET Callers |-> IF s = {} THEN 0
                 ELSE LET x == CHOOSE y \in s : TRUE IN llmCall[x].used + h[s \ {x}]]
<1>1. PICK g : Pro!Pending = g[Callers] /\ g = CHOOSE h : h = Added(h)
  BY DEF Pro!Pending, Pro!MapThenSumSet, Pro!MapThenFoldSet
<1>2. ASSUME NEW h
      PROVE  Added(h)
           = [s \in SUBSET Callers |-> IF s = {} THEN 0
                 ELSE LET x == CHOOSE y \in s : TRUE IN UsedBy[x] + h[s \ {x}]]
  <2> SUFFICES ASSUME NEW s \in SUBSET Callers, s # {}
               PROVE  llmCall[CHOOSE y \in s : TRUE].used = UsedBy[CHOOSE y \in s : TRUE]
    OBVIOUS
  <2>1. (CHOOSE y \in s : TRUE) \in Callers
    BY Picked
  <2> QED
    BY <2>1 DEF UsedBy
<1>3. PICK h : Sums(h, UsedBy, Callers)
  BY SumExists, FiniteAssumption
<1>4. h = Added(h)
  BY <1>2, <1>3 DEF Sums
<1>5. g = Added(g)
  <2> HIDE DEF Added
  <2> QED
    BY <1>1, <1>4, Zenon
<1>6. Sums(g, UsedBy, Callers)
  <2>1. Added(g) = [s \in SUBSET Callers |-> IF s = {} THEN 0
                       ELSE LET x == CHOOSE y \in s : TRUE IN UsedBy[x] + g[s \ {x}]]
    BY <1>2
  <2> HIDE DEF Added
  <2> QED
    BY <1>5, <2>1 DEF Sums
<1> QED
  BY <1>1, <1>6, SumIs, FiniteAssumption

LEMMA OrderGiven ==
    /\ Len(Order) \in Nat \ {0} /\ DOMAIN Order = 1 .. Len(Order)
    /\ \A i \in DOMAIN Order : Order[i] \in Pro!ProviderSet
    /\ IsFiniteSet(Pro!ProviderSet)
<1>1. Pro!ProviderSet = {Order[i] : i \in DOMAIN Order}
  BY DEF Pro!ProviderSet, Pro!ToSet
<1>2. Order \in Seq(Pro!ProviderSet) /\ Order # <<>>
  BY <1>1, OrderAssumption
<1>3. Len(Order) \in Nat \ {0} /\ DOMAIN Order = 1 .. Len(Order)
  BY <1>2
<1>4. Order \in Surjection(1 .. Len(Order), Pro!ProviderSet)
  BY <1>1, <1>2, <1>3 DEF Surjection
<1>5. IsFiniteSet(1 .. Len(Order))
  BY <1>3, FS_Interval
<1>6. IsFiniteSet(Pro!ProviderSet)
  BY <1>4, <1>5, FS_Surjection
<1> QED
  BY <1>1, <1>3, <1>6

\* A chain that is not used up has a foremost position.
LEMMA ForemostTried ==
  ASSUME NEW chain \in SUBSET DOMAIN Order, chain # {}
  PROVE  Pro!Min(chain) \in chain
<1> DEFINE Bad == {1 .. i : i \in chain}
<1>1. IsFiniteSet(1 .. Len(Order)) /\ chain \subseteq 1 .. Len(Order)
  BY OrderGiven, FS_Interval
<1>2. Bad \in SUBSET SUBSET (1 .. Len(Order)) /\ Bad # {}
  BY <1>1, OrderGiven
<1>3. PICK s \in Bad : \A t \in SUBSET s : t # s => t \notin Bad
  <2> HIDE DEF Bad
  <2> QED
    BY <1>1, <1>2, SmallestSubset
<1>4. PICK i \in chain : s = 1 .. i
  OBVIOUS
<1>5. \A j \in chain : i <= j
  <2> SUFFICES ASSUME NEW j \in chain, ~ (i <= j) PROVE FALSE
    OBVIOUS
  <2>1. i \in Nat \ {0} /\ j \in Nat \ {0} /\ j < i
    BY <1>1, OrderGiven
  <2>2. 1 .. j \in Bad
    OBVIOUS
  <2>3. 1 .. j \in SUBSET s
    BY <2>1, <1>4
  <2>4. i \in s /\ i \notin 1 .. j
    BY <2>1, <1>4
  <2> QED
    BY <2>2, <2>3, <2>4, <1>3
<1> QED
  BY <1>5 DEF Pro!Min

LEMMA ChainAvailable ==
  \A setting : Pro!AvailableProviders(setting) \in SUBSET DOMAIN Order
  BY OrderGiven DEF Pro!AvailableProviders

\* The chat's call is replaced by x, which may hold more or less than before.
LEMMA CallReplaced ==
  ASSUME BooksKept, NEW c \in Callers, NEW x \in LLMCall, x.kind \in {"idle", "single"} => x.used = 0,
         llmCall' = [llmCall EXCEPT ![c] = x]
  PROVE  /\ llmCall' \in [Callers -> LLMCall]
         /\ \A d \in Callers : llmCall'[d].kind \in {"idle", "single"} => llmCall'[d].used = 0
         /\ SumOf(UsedBy, Callers) \in Nat /\ SumOf(UsedBy', Callers) \in Nat
         /\ SumOf(UsedBy', Callers) + llmCall[c].used = SumOf(UsedBy, Callers) + x.used
<1>1. llmCall \in [Callers -> LLMCall] /\ llmCall' \in [Callers -> LLMCall] /\ llmCall'[c] = x
  BY DEF BooksKept
<1>2. \A d \in Callers \ {c} : llmCall'[d] = llmCall[d]
  BY <1>1
<1>3. \A d \in Callers : llmCall'[d].kind \in {"idle", "single"} => llmCall'[d].used = 0
  BY <1>1, <1>2 DEF BooksKept
<1>4. PICK f, e : f = UsedBy /\ e = UsedBy'
  OBVIOUS
<1>5. \A d \in Callers : f[d] = llmCall[d].used /\ e[d] = llmCall'[d].used
  BY <1>4 DEF UsedBy
<1>6. \A d \in Callers : f[d] \in Nat /\ e[d] \in Nat
  BY <1>1, <1>5 DEF LLMCall
<1>7. \A d \in Callers \ {c} : e[d] = f[d]
  BY <1>2, <1>5
<1>8. SumOf(f, Callers) \in Nat /\ SumOf(e, Callers) \in Nat
  BY <1>6, SumOfNaturals, FiniteAssumption
<1>9. SumOf(e, Callers) + f[c] = SumOf(f, Callers) + e[c]
  BY <1>6, <1>7, SumOfChanged, FiniteAssumption
<1> QED
  BY <1>1, <1>3, <1>4, <1>5, <1>8, <1>9

\* Some provider's tokens grow.
LEMMA TokensAdded ==
  ASSUME NEW f \in [Pro!ProviderSet -> Nat], NEW p \in Pro!ProviderSet, NEW n \in Nat
  PROVE  /\ [f EXCEPT ![p] = @ + n] \in [Pro!ProviderSet -> Nat]
         /\ SumOf(f, Pro!ProviderSet) \in Nat
         /\ SumOf([f EXCEPT ![p] = @ + n], Pro!ProviderSet) = SumOf(f, Pro!ProviderSet) + n
<1>1. PICK e : e = [f EXCEPT ![p] = @ + n]
  OBVIOUS
<1>2. e \in [Pro!ProviderSet -> Nat] /\ e[p] = f[p] + n /\ \A q \in Pro!ProviderSet \ {p} : e[q] = f[q]
  BY <1>1
<1>3. \A q \in Pro!ProviderSet : f[q] \in Nat /\ e[q] \in Nat
  BY <1>2
<1>4. SumOf(f, Pro!ProviderSet) \in Nat /\ SumOf(e, Pro!ProviderSet) \in Nat
  BY <1>3, SumOfNaturals, OrderGiven
<1>5. SumOf(e, Pro!ProviderSet) + f[p] = SumOf(f, Pro!ProviderSet) + e[p]
  BY <1>2, <1>3, SumOfChanged, OrderGiven
<1>6. SumOf(e, Pro!ProviderSet) = SumOf(f, Pro!ProviderSet) + n
  BY <1>2, <1>3, <1>4, <1>5
<1> QED
  BY <1>1, <1>2, <1>4, <1>6

LEMMA SumsTyped ==
  ASSUME BooksKept
  PROVE  SumOf(ledger, Pro!ProviderSet) \in Nat /\ SumOf(billed, Pro!ProviderSet) \in Nat
<1>1. \A p \in Pro!ProviderSet : ledger[p] \in Nat /\ billed[p] \in Nat
  BY DEF BooksKept
<1> QED
  BY <1>1, OrderGiven, SumOfNaturals

\* What log_cost does to the books: the tokens are in them, or a leak is known.
LEMMA TokensBooked ==
  ASSUME BooksKept, NEW p \in Pro!ProviderSet, NEW n \in Nat, NEW missed \in SUBSET Pro!Causes,
         Pro!Book(p, n, missed)
  PROVE  /\ ledger' \in [Pro!ProviderSet -> Nat] /\ leaks' \subseteq Pro!Causes
         /\ SumOf(ledger', Pro!ProviderSet) \in Nat
         /\ SumOf(ledger', Pro!ProviderSet) <= SumOf(ledger, Pro!ProviderSet) + n
         /\ leaks' = {} => /\ leaks = {} /\ missed = {}
                           /\ SumOf(ledger', Pro!ProviderSet) = SumOf(ledger, Pro!ProviderSet) + n
<1>1. ledger \in [Pro!ProviderSet -> Nat] /\ leaks \subseteq Pro!Causes
  BY DEF BooksKept
<1>2. SumOf(ledger, Pro!ProviderSet) \in Nat
  BY SumsTyped
<1>3. CASE ledger' = [ledger EXCEPT ![p] = @ + n] /\ leaks' = leaks \cup missed
  <2>1. /\ ledger' \in [Pro!ProviderSet -> Nat]
        /\ SumOf(ledger', Pro!ProviderSet) = SumOf(ledger, Pro!ProviderSet) + n
    BY <1>1, <1>3, TokensAdded
  <2> QED
    BY <1>1, <1>2, <1>3, <2>1
<1>4. CASE ledger' = ledger /\ leaks' = leaks \cup missed \cup {"insert failed"}
  <2>1. leaks' # {} /\ leaks' \subseteq Pro!Causes
    BY <1>1, <1>4 DEF Pro!Causes
  <2>2. /\ ledger' \in [Pro!ProviderSet -> Nat] /\ SumOf(ledger', Pro!ProviderSet) \in Nat
        /\ SumOf(ledger', Pro!ProviderSet) = SumOf(ledger, Pro!ProviderSet)
    BY <1>1, <1>2, <1>4
  <2>3. SumOf(ledger', Pro!ProviderSet) <= SumOf(ledger, Pro!ProviderSet) + n
    BY <1>2, <2>2
  <2> QED
    BY <2>1, <2>2, <2>3
<1> QED
  BY <1>3, <1>4 DEF Pro!Book

\* An answer reports at most what it costs.
LEMMA AnswerCost ==
  ASSUME NEW a \in Pro!Answers
  PROVE  /\ Pro!Cost(a) \in Nat /\ Pro!Seen(a) \in Nat /\ a.seenPrompt \in Nat
         /\ Pro!Seen(a) <= Pro!Cost(a) /\ Pro!Unreported(a) \subseteq Pro!Causes
         /\ Pro!Unreported(a) = {} => Pro!Seen(a) = Pro!Cost(a)
<1>1. /\ a.prompt \in Nat /\ a.completion \in Nat /\ a.seenPrompt \in Nat /\ a.seenCompletion \in Nat
      /\ a.seenPrompt <= a.prompt /\ a.seenCompletion <= a.completion
  BY DEF Pro!Answers
<1>2. Pro!Cost(a) \in Nat /\ Pro!Seen(a) \in Nat /\ Pro!Seen(a) <= Pro!Cost(a)
  BY <1>1 DEF Pro!Cost, Pro!Seen
<1>3. Pro!Unreported(a) \subseteq Pro!Causes
  BY DEF Pro!Unreported, Pro!Causes
<1>4. Pro!Unreported(a) = {} => Pro!Seen(a) = Pro!Cost(a)
  <2>1. Pro!Seen(a) < Pro!Cost(a) => Pro!Unreported(a) # {}
    BY DEF Pro!Unreported
  <2> QED
    BY <1>2, <2>1
<1> QED
  BY <1>1, <1>2, <1>3, <1>4

LEMMA BooksInit == Init => BooksKept
<1> SUFFICES ASSUME Init PROVE BooksKept
  OBVIOUS
<1>1. /\ llmCall = [c \in Callers |-> Pro!Idle] /\ leaks = {}
      /\ billed = [p \in Pro!ProviderSet |-> 0] /\ ledger = [p \in Pro!ProviderSet |-> 0]
  BY DEF Init, Pro!Init
<1>2. Pro!Idle \in LLMCall /\ Pro!Idle.used = 0
  BY OrderGiven DEF Pro!Idle, LLMCall
<1>3. /\ llmCall \in [Callers -> LLMCall]
      /\ \A c \in Callers : llmCall[c].used = 0 /\ UsedBy[c] = 0
  BY <1>1, <1>2 DEF UsedBy
<1>4. SumOf(billed, Pro!ProviderSet) = 0 /\ SumOf(ledger, Pro!ProviderSet) = 0
  BY <1>1, OrderGiven, SumOfZeros
<1>5. SumOf(UsedBy, Callers) = 0
  BY <1>3, FiniteAssumption, SumOfZeros
<1> QED
  BY <1>1, <1>3, <1>4, <1>5 DEF BooksKept, Accounted

\* A step that leaves the books alone and takes no tokens from a chat.
LEMMA CallMoved ==
  ASSUME BooksKept, NEW c \in Callers, NEW x \in LLMCall, x.used = llmCall[c].used,
         x.kind \in {"idle", "single"} => x.used = 0,
         llmCall' = [llmCall EXCEPT ![c] = x], UNCHANGED <<billed, ledger, leaks>>
  PROVE  BooksKept'
<1>1. /\ llmCall' \in [Callers -> LLMCall]
      /\ \A d \in Callers : llmCall'[d].kind \in {"idle", "single"} => llmCall'[d].used = 0
      /\ SumOf(UsedBy, Callers) \in Nat /\ SumOf(UsedBy', Callers) \in Nat
      /\ SumOf(UsedBy', Callers) + llmCall[c].used = SumOf(UsedBy, Callers) + x.used
  BY CallReplaced
<1>2. x.used \in Nat
  BY DEF LLMCall
<1>3. SumOf(UsedBy', Callers) = SumOf(UsedBy, Callers)
  BY <1>1, <1>2
<1> QED
  BY <1>1, <1>3 DEF BooksKept, Accounted

LEMMA CallFields ==
  ASSUME BooksKept, NEW c \in Callers
  PROVE  /\ llmCall[c] \in LLMCall /\ llmCall[c].chain \in SUBSET DOMAIN Order
         /\ llmCall[c].kind \in {"idle", "single", "chat", "ending"}
         /\ llmCall[c].prompt \in Nat /\ llmCall[c].used \in Nat /\ llmCall[c].who \in Pro!ProviderSet
         /\ llmCall[c].kind \in {"idle", "single"} => llmCall[c].used = 0
<1>1. llmCall[c] \in LLMCall
  BY DEF BooksKept
<1> QED
  BY <1>1 DEF LLMCall, BooksKept

LEMMA IdleCall == Pro!Idle \in LLMCall /\ Pro!Idle.used = 0 /\ Pro!Idle.kind = "idle" /\ Pro!Idle.chain = {}
  BY OrderGiven DEF Pro!Idle, LLMCall

\* What a call becomes that falls back: the same tokens, or nothing of a single one.
LEMMA FallsBack ==
  ASSUME BooksKept, NEW c \in Callers, Pro!FallBack(c) \/ (Pro!Ended(c) /\ llmCall[c].kind = "single")
  PROVE  \E x \in LLMCall : /\ llmCall' = [llmCall EXCEPT ![c] = x]
                            /\ x.used = llmCall[c].used
                            /\ x.kind \in {"idle", "single"} => x.used = 0
<1>1. CASE Pro!Ended(c) /\ llmCall[c].kind = "single"
  BY <1>1, CallFields, IdleCall DEF Pro!Ended
<1>2. CASE Pro!FallBack(c) /\ ~ (Pro!Ended(c) /\ llmCall[c].kind = "single")
  <2>1. PICK rest \in SUBSET DOMAIN Order, kind \in {"idle", "single", "chat", "ending"} :
           /\ llmCall' = [llmCall EXCEPT ![c].chain = rest, ![c].kind = kind]
           /\ kind \in {llmCall[c].kind, "ending"}
    <3>1. llmCall[c].chain \ {Pro!Min(llmCall[c].chain)} \in SUBSET DOMAIN Order
      BY CallFields
    <3>2. PICK rest \in SUBSET DOMAIN Order : rest = llmCall[c].chain \ {Pro!Min(llmCall[c].chain)}
      BY <3>1
    <3>3. llmCall' = [llmCall EXCEPT ![c].chain = rest,
                                     ![c].kind = IF rest = {} THEN "ending" ELSE llmCall[c].kind]
      BY <1>2, <3>2 DEF Pro!FallBack
    <3> QED
      BY <3>3, CallFields
  <2>2. PICK x : x = [llmCall[c] EXCEPT !.chain = rest, !.kind = kind]
    OBVIOUS
  <2>3. /\ x \in LLMCall /\ x.used = llmCall[c].used /\ x.kind = kind
    BY <2>2, CallFields DEF LLMCall
  <2>4. llmCall' = [llmCall EXCEPT ![c] = x]
    BY <2>1, <2>2 DEF BooksKept
  <2>5. x.kind \in {"idle", "single"} => x.used = 0
    BY <2>1, <2>3, CallFields
  <2> QED
    BY <2>3, <2>4, <2>5
<1> QED
  BY <1>1, <1>2

LEMMA BeginKept == ASSUME BooksKept, NEW c \in Callers, Pro!Begin(c) PROVE BooksKept'
<1>1. PICK kind \in {"single", "chat"}, setting \in Pro!DbConfig :
         llmCall' = [llmCall EXCEPT ![c].kind = kind, ![c].chain = Pro!AvailableProviders(setting)]
  BY DEF Pro!Begin
<1>2. llmCall[c].used = 0 /\ UNCHANGED <<billed, ledger, leaks>>
  BY IdleCall DEF Pro!Begin
<1>3. PICK chain \in SUBSET DOMAIN Order : chain = Pro!AvailableProviders(setting)
  BY ChainAvailable
<1>4. PICK x : x = [llmCall[c] EXCEPT !.kind = kind, !.chain = chain]
  OBVIOUS
<1>5. x \in LLMCall /\ x.used = llmCall[c].used
  BY <1>4, CallFields DEF LLMCall
<1>6. llmCall' = [llmCall EXCEPT ![c] = x]
  BY <1>1, <1>3, <1>4 DEF BooksKept
<1> QED
  BY <1>2, <1>5, <1>6, CallMoved

LEMMA FailKept == ASSUME BooksKept, NEW c \in Callers, Pro!Fail(c) PROVE BooksKept'
<1>1. Pro!FallBack(c) /\ UNCHANGED <<billed, ledger, leaks>>
  BY DEF Pro!Fail
<1>2. PICK x \in LLMCall : /\ llmCall' = [llmCall EXCEPT ![c] = x]
                           /\ x.used = llmCall[c].used
                           /\ x.kind \in {"idle", "single"} => x.used = 0
  BY <1>1, FallsBack
<1> QED
  BY <1>1, <1>2, CallMoved

LEMMA ForemostProvider ==
  ASSUME BooksKept, NEW c \in Callers, llmCall[c].chain # {}
  PROVE  Pro!Foremost(c) \in Pro!ProviderSet
<1>1. Pro!Min(llmCall[c].chain) \in DOMAIN Order
  BY CallFields, ForemostTried
<1> QED
  BY <1>1, OrderGiven DEF Pro!Foremost

\* The provider's charge for an answer.
LEMMA Charged ==
  ASSUME BooksKept, NEW p \in Pro!ProviderSet, NEW a \in Pro!Answers, Pro!Bill(p, a)
  PROVE  /\ billed' \in [Pro!ProviderSet -> Nat]
         /\ SumOf(billed', Pro!ProviderSet) \in Nat
         /\ SumOf(billed', Pro!ProviderSet) = SumOf(billed, Pro!ProviderSet) + Pro!Cost(a)
<1>1. PICK n \in Nat : n = Pro!Cost(a)
  BY AnswerCost
<1>2. PICK f : f = billed
  OBVIOUS
<1>3. f \in [Pro!ProviderSet -> Nat]
  BY <1>2 DEF BooksKept
<1>4. billed' = [f EXCEPT ![p] = @ + n]
  BY <1>1, <1>2 DEF Pro!Bill
<1>5. /\ billed' \in [Pro!ProviderSet -> Nat] /\ SumOf(f, Pro!ProviderSet) \in Nat
      /\ SumOf(billed', Pro!ProviderSet) = SumOf(f, Pro!ProviderSet) + n
  BY <1>3, <1>4, TokensAdded
<1> QED
  BY <1>1, <1>2, <1>5

LEMMA AnswerSingleKept == ASSUME BooksKept, NEW c \in Callers, Pro!AnswerSingle(c) PROVE BooksKept'
<1>1. PICK p \in Pro!ProviderSet : p = Pro!Foremost(c)
  BY ForemostProvider DEF Pro!AnswerSingle
<1>2. PICK a \in Pro!Answers : Pro!Bill(p, a) /\ Pro!Record(p, a)
  BY <1>1 DEF Pro!AnswerSingle
<1>3. PICK x \in LLMCall : /\ llmCall' = [llmCall EXCEPT ![c] = x]
                           /\ x.used = llmCall[c].used
                           /\ x.kind \in {"idle", "single"} => x.used = 0
  BY FallsBack DEF Pro!AnswerSingle
<1>4. /\ llmCall' \in [Callers -> LLMCall]
      /\ \A d \in Callers : llmCall'[d].kind \in {"idle", "single"} => llmCall'[d].used = 0
      /\ SumOf(UsedBy, Callers) \in Nat /\ SumOf(UsedBy', Callers) \in Nat
      /\ SumOf(UsedBy', Callers) + llmCall[c].used = SumOf(UsedBy, Callers) + x.used
  BY <1>3, CallReplaced
<1>5. SumOf(UsedBy', Callers) = SumOf(UsedBy, Callers)
  BY <1>3, <1>4, CallFields
<1>6. /\ billed' \in [Pro!ProviderSet -> Nat] /\ SumOf(billed', Pro!ProviderSet) \in Nat
      /\ SumOf(billed', Pro!ProviderSet) = SumOf(billed, Pro!ProviderSet) + Pro!Cost(a)
  BY <1>2, Charged
<1>7. /\ SumOf(ledger, Pro!ProviderSet) \in Nat /\ SumOf(billed, Pro!ProviderSet) \in Nat
      /\ Pro!Cost(a) \in Nat /\ Pro!Seen(a) \in Nat /\ Pro!Seen(a) <= Pro!Cost(a)
  BY SumsTyped, AnswerCost
<1>8. /\ ledger' \in [Pro!ProviderSet -> Nat] /\ leaks' \subseteq Pro!Causes
      /\ SumOf(ledger', Pro!ProviderSet) \in Nat
      /\ SumOf(ledger', Pro!ProviderSet) <= SumOf(ledger, Pro!ProviderSet) + Pro!Seen(a)
      /\ leaks' = {} => /\ leaks = {} /\ Pro!Unreported(a) = {}
                        /\ SumOf(ledger', Pro!ProviderSet) = SumOf(ledger, Pro!ProviderSet) + Pro!Seen(a)
  <2>1. CASE Pro!Seen(a) = 0 /\ ledger' = ledger /\ leaks' = leaks \cup Pro!Unreported(a)
    <3>1. ledger \in [Pro!ProviderSet -> Nat] /\ leaks' \subseteq Pro!Causes
      BY <2>1, AnswerCost DEF BooksKept
    <3> QED
      BY <1>7, <2>1, <3>1
  <2>2. CASE Pro!Book(p, Pro!Seen(a), Pro!Unreported(a))
    <3>1. PICK n \in Nat, missed \in SUBSET Pro!Causes : n = Pro!Seen(a) /\ missed = Pro!Unreported(a)
      BY AnswerCost
    <3>2. Pro!Book(p, n, missed)
      BY <2>2, <3>1
    <3> QED
      BY <3>1, <3>2, TokensBooked
  <2> QED
    BY <1>2, <2>1, <2>2 DEF Pro!Record
<1>9. Accounted'
  <2>1. Accounted
    BY DEF BooksKept
  <2>2. SumOf(ledger', Pro!ProviderSet) + SumOf(UsedBy', Callers) <= SumOf(billed', Pro!ProviderSet)
    BY <1>4, <1>5, <1>6, <1>7, <1>8, <2>1 DEF Accounted
  <2>3. ASSUME leaks' = {}
        PROVE  SumOf(ledger', Pro!ProviderSet) + SumOf(UsedBy', Callers) = SumOf(billed', Pro!ProviderSet)
    <3>1. Pro!Seen(a) = Pro!Cost(a) /\ leaks = {}
      BY <1>8, <2>3, AnswerCost
    <3> QED
      BY <1>4, <1>5, <1>6, <1>7, <1>8, <2>1, <2>3, <3>1 DEF Accounted
  <2> QED
    BY <2>2, <2>3 DEF Accounted
<1> QED
  BY <1>4, <1>6, <1>8, <1>9 DEF BooksKept

LEMMA AnswerChatKept == ASSUME BooksKept, NEW c \in Callers, Pro!AnswerChat(c) PROVE BooksKept'
<1>1. PICK p \in Pro!ProviderSet : p = Pro!Foremost(c)
  BY ForemostProvider DEF Pro!AnswerChat
<1>2. PICK a \in Pro!Answers :
         /\ Pro!Bill(p, a) /\ leaks' = leaks \cup Pro!Unreported(a)
         /\ llmCall' = [llmCall EXCEPT ![c].prompt = @ + a.seenPrompt, ![c].used = @ + Pro!Seen(a),
                                       ![c].who = p, ![c].chain = {}]
  BY <1>1 DEF Pro!AnswerChat
<1>3. llmCall[c].kind = "chat" /\ ledger' = ledger
  BY DEF Pro!AnswerChat
<1>4. PICK b, u, q : b = llmCall[c] /\ u = llmCall[c].used + Pro!Seen(a) /\ q = llmCall[c].prompt + a.seenPrompt
  OBVIOUS
<1>5. b \in LLMCall /\ b.kind = "chat" /\ u \in Nat /\ q \in Nat
  BY <1>3, <1>4, CallFields, AnswerCost
<1>6. PICK x : x = [b EXCEPT !.prompt = q, !.used = u, !.who = p, !.chain = {}]
  OBVIOUS
<1>7. x \in LLMCall /\ x.used = u /\ x.kind = "chat"
  BY <1>5, <1>6 DEF LLMCall
<1>8. llmCall' = [llmCall EXCEPT ![c] = x]
  BY <1>2, <1>4, <1>6 DEF BooksKept
<1>9. /\ llmCall' \in [Callers -> LLMCall]
      /\ \A d \in Callers : llmCall'[d].kind \in {"idle", "single"} => llmCall'[d].used = 0
      /\ SumOf(UsedBy, Callers) \in Nat /\ SumOf(UsedBy', Callers) \in Nat
      /\ SumOf(UsedBy', Callers) + llmCall[c].used = SumOf(UsedBy, Callers) + x.used
  BY <1>7, <1>8, CallReplaced
<1>10. SumOf(UsedBy', Callers) = SumOf(UsedBy, Callers) + Pro!Seen(a)
  BY <1>4, <1>7, <1>9, CallFields, AnswerCost
<1>11. /\ billed' \in [Pro!ProviderSet -> Nat] /\ SumOf(billed', Pro!ProviderSet) \in Nat
       /\ SumOf(billed', Pro!ProviderSet) = SumOf(billed, Pro!ProviderSet) + Pro!Cost(a)
  BY <1>2, Charged
<1>12. /\ SumOf(ledger, Pro!ProviderSet) \in Nat /\ SumOf(billed, Pro!ProviderSet) \in Nat
       /\ Pro!Cost(a) \in Nat /\ Pro!Seen(a) \in Nat /\ Pro!Seen(a) <= Pro!Cost(a)
  BY SumsTyped, AnswerCost
<1>13. Accounted'
  <2>1. Accounted
    BY DEF BooksKept
  <2>2. SumOf(ledger, Pro!ProviderSet) + SumOf(UsedBy', Callers) <= SumOf(billed', Pro!ProviderSet)
    BY <1>9, <1>10, <1>11, <1>12, <2>1 DEF Accounted
  <2>3. ASSUME leaks' = {}
        PROVE  SumOf(ledger, Pro!ProviderSet) + SumOf(UsedBy', Callers) = SumOf(billed', Pro!ProviderSet)
    <3>1. Pro!Seen(a) = Pro!Cost(a) /\ leaks = {}
      BY <1>2, <2>3, AnswerCost
    <3> QED
      BY <1>9, <1>10, <1>11, <1>12, <2>1, <3>1 DEF Accounted
  <2> QED
    BY <1>3, <2>2, <2>3 DEF Accounted
<1>14. leaks' \subseteq Pro!Causes
  BY <1>2, AnswerCost DEF BooksKept
<1> QED
  BY <1>3, <1>9, <1>11, <1>13, <1>14 DEF BooksKept

LEMMA NextRoundKept == ASSUME BooksKept, NEW c \in Callers, Pro!NextRound(c) PROVE BooksKept'
<1>1. llmCall[c].kind = "chat" /\ UNCHANGED <<billed, ledger, leaks>>
  BY DEF Pro!NextRound
<1>2. PICK chain \in SUBSET DOMAIN Order, kind \in {"chat", "ending"} :
         llmCall' = [llmCall EXCEPT ![c] = [llmCall[c] EXCEPT !.chain = chain, !.kind = kind]]
  <2>1. CASE \E setting \in Pro!DbConfig : llmCall' = [llmCall EXCEPT ![c].chain = Pro!AvailableProviders(setting)]
    <3>1. PICK setting \in Pro!DbConfig : llmCall' = [llmCall EXCEPT ![c].chain = Pro!AvailableProviders(setting)]
      BY <2>1
    <3>2. PICK chain \in SUBSET DOMAIN Order : chain = Pro!AvailableProviders(setting)
      BY ChainAvailable
    <3>3. [llmCall[c] EXCEPT !.chain = chain] = [llmCall[c] EXCEPT !.chain = chain, !.kind = "chat"]
      BY <1>1, CallFields DEF LLMCall
    <3> QED
      BY <3>1, <3>2, <3>3 DEF BooksKept
  <2>2. CASE llmCall' = [llmCall EXCEPT ![c].kind = "ending"]
    <3>1. [llmCall[c] EXCEPT !.kind = "ending"]
            = [llmCall[c] EXCEPT !.chain = llmCall[c].chain, !.kind = "ending"]
      BY CallFields DEF LLMCall
    <3> QED
      BY <2>2, <3>1, CallFields DEF BooksKept
  <2> QED
    BY <2>1, <2>2 DEF Pro!NextRound
<1>3. PICK x : x = [llmCall[c] EXCEPT !.chain = chain, !.kind = kind]
  OBVIOUS
<1>4. x \in LLMCall /\ x.used = llmCall[c].used /\ x.kind = kind
  BY <1>3, CallFields DEF LLMCall
<1> QED
  BY <1>1, <1>2, <1>3, <1>4, CallMoved

\* A chat's end: what it held is booked, or a leak is known.
LEMMA ChatOver ==
  ASSUME BooksKept, NEW c \in Callers, Pro!Ended(c), billed' = billed,
         ledger' \in [Pro!ProviderSet -> Nat], leaks' \subseteq Pro!Causes,
         SumOf(ledger', Pro!ProviderSet) \in Nat,
         SumOf(ledger', Pro!ProviderSet) <= SumOf(ledger, Pro!ProviderSet) + llmCall[c].used,
         leaks' = {} => /\ leaks = {}
                        /\ SumOf(ledger', Pro!ProviderSet) = SumOf(ledger, Pro!ProviderSet) + llmCall[c].used
  PROVE  BooksKept'
<1>1. llmCall' = [llmCall EXCEPT ![c] = Pro!Idle]
  BY DEF Pro!Ended
<1>2. /\ llmCall' \in [Callers -> LLMCall]
      /\ \A d \in Callers : llmCall'[d].kind \in {"idle", "single"} => llmCall'[d].used = 0
      /\ SumOf(UsedBy, Callers) \in Nat /\ SumOf(UsedBy', Callers) \in Nat
      /\ SumOf(UsedBy', Callers) + llmCall[c].used = SumOf(UsedBy, Callers) + Pro!Idle.used
  BY <1>1, IdleCall, CallReplaced
<1>3. /\ llmCall[c].used \in Nat
      /\ SumOf(ledger, Pro!ProviderSet) \in Nat /\ SumOf(billed, Pro!ProviderSet) \in Nat
  BY CallFields, SumsTyped
<1>4. Accounted /\ billed \in [Pro!ProviderSet -> Nat]
  BY DEF BooksKept
<1>5. SumOf(ledger', Pro!ProviderSet) + SumOf(UsedBy', Callers) <= SumOf(billed, Pro!ProviderSet)
  BY <1>2, <1>3, <1>4, IdleCall DEF Accounted
<1>6. ASSUME leaks' = {}
      PROVE  SumOf(ledger', Pro!ProviderSet) + SumOf(UsedBy', Callers) = SumOf(billed, Pro!ProviderSet)
  BY <1>2, <1>3, <1>4, <1>6, IdleCall DEF Accounted
<1>7. Accounted'
  BY <1>5, <1>6 DEF Accounted
<1> QED
  BY <1>2, <1>4, <1>7 DEF BooksKept

\* What leaves the books as they are, and names a leak unless the chat held nothing.
LEMMA ChatLost ==
  ASSUME BooksKept, NEW c \in Callers, Pro!Ended(c), billed' = billed, ledger' = ledger,
         NEW cause \in Pro!Causes,
         leaks' = leaks \cup (IF llmCall[c].used > 0 THEN {cause} ELSE {})
  PROVE  BooksKept'
<1>1. llmCall[c].used \in Nat /\ SumOf(ledger, Pro!ProviderSet) \in Nat
  BY CallFields, SumsTyped
<1>2. ledger' \in [Pro!ProviderSet -> Nat] /\ leaks' \subseteq Pro!Causes
  BY DEF BooksKept
<1>3. leaks' = {} => leaks = {} /\ llmCall[c].used = 0
  BY <1>1
<1>4. /\ SumOf(ledger', Pro!ProviderSet) \in Nat
      /\ SumOf(ledger', Pro!ProviderSet) <= SumOf(ledger, Pro!ProviderSet) + llmCall[c].used
      /\ llmCall[c].used = 0 => SumOf(ledger', Pro!ProviderSet) = SumOf(ledger, Pro!ProviderSet) + llmCall[c].used
  BY <1>1
<1> QED
  BY <1>2, <1>3, <1>4, ChatOver

LEMMA EndChatKept == ASSUME BooksKept, NEW c \in Callers, Pro!EndChat(c) PROVE BooksKept'
<1>1. Pro!Ended(c) /\ billed' = billed
  BY DEF Pro!EndChat
<1>2. CASE Pro!Book(llmCall[c].who, llmCall[c].used, {})
  <2>1. PICK p \in Pro!ProviderSet, n \in Nat : p = llmCall[c].who /\ n = llmCall[c].used
    BY CallFields
  <2>2. Pro!Book(p, n, {}) /\ {} \in SUBSET Pro!Causes
    BY <1>2, <2>1
  <2>3. /\ ledger' \in [Pro!ProviderSet -> Nat] /\ leaks' \subseteq Pro!Causes
        /\ SumOf(ledger', Pro!ProviderSet) \in Nat
        /\ SumOf(ledger', Pro!ProviderSet) <= SumOf(ledger, Pro!ProviderSet) + n
        /\ leaks' = {} => /\ leaks = {}
                          /\ SumOf(ledger', Pro!ProviderSet) = SumOf(ledger, Pro!ProviderSet) + n
    BY <2>2, TokensBooked
  <2> QED
    BY <1>1, <2>1, <2>3, ChatOver
<1>3. CASE /\ ledger' = ledger
           /\ leaks' = leaks \cup (IF llmCall[c].used > 0 THEN {"no prompt tokens"} ELSE {})
  <2>1. "no prompt tokens" \in Pro!Causes
    BY DEF Pro!Causes
  <2> QED
    BY <1>1, <1>3, <2>1, ChatLost
<1> QED
  BY <1>2, <1>3 DEF Pro!EndChat

LEMMA AbandonKept == ASSUME BooksKept, NEW c \in Callers, Pro!Abandon(c) PROVE BooksKept'
<1>1. /\ leaks' = leaks \cup (IF llmCall[c].used > 0 THEN {"abandoned"} ELSE {})
      /\ Pro!Ended(c) /\ billed' = billed /\ ledger' = ledger
  BY DEF Pro!Abandon
<1>2. "abandoned" \in Pro!Causes
  BY DEF Pro!Causes
<1> QED
  BY <1>1, <1>2, ChatLost

LEMMA BooksNext == BooksKept /\ [Pro!Next]_<<config, llmCall, billed, ledger, leaks>> => BooksKept'
<1> SUFFICES ASSUME BooksKept, [Pro!Next]_<<config, llmCall, billed, ledger, leaks>> PROVE BooksKept'
  OBVIOUS
<1>1. CASE UNCHANGED <<llmCall, billed, ledger, leaks>>
  BY <1>1 DEF BooksKept, UsedBy, Accounted
<1>2. ASSUME NEW c \in Callers,
             \/ Pro!Begin(c) \/ Pro!Fail(c) \/ Pro!AnswerSingle(c)
             \/ Pro!AnswerChat(c) \/ Pro!NextRound(c) \/ Pro!EndChat(c) \/ Pro!Abandon(c)
      PROVE  BooksKept'
  BY <1>2, BeginKept, FailKept, AnswerSingleKept, AnswerChatKept, NextRoundKept, EndChatKept, AbandonKept
<1> QED
  BY <1>1, <1>2 DEF Pro!Next, Pro!SaveConfig

\* However calls fall back, fail and overlap, no token is booked twice; and unless an answer
\* did not report its cost, a chat ended without prompt tokens, a chat was abandoned or an
\* INSERT failed, each token charged is booked or still to be booked by a running chat.
THEOREM ServicesBooksBalance == Spec => []BooksBalance
<1>1. BooksKept => BooksBalance
  BY TotalIsSum, PendingIsSum DEF BooksKept, Accounted, BooksBalance, Pro!BooksBalance
<1> QED
  BY <1>1, BooksInit, ProvidersStep, BooksNext, PTL DEF Spec

-----------------------------------------------------------------------------
(* Type correctness, component by component.                                 *)

\* The row of the configuration names a provider.
ConfigTyped == BooksKept /\ config \in Pro!ProviderSet \cup {Nothing}

LEMMA ConfigNext ==
    ConfigTyped /\ [Pro!Next]_<<config, llmCall, billed, ledger, leaks>> => ConfigTyped'
<1> SUFFICES ASSUME ConfigTyped, [Pro!Next]_<<config, llmCall, billed, ledger, leaks>>
             PROVE  ConfigTyped'
  OBVIOUS
<1>1. BooksKept'
  BY BooksNext DEF ConfigTyped
<1>2. config' = config \/ Pro!SaveConfig
  BY DEF Pro!Next, Pro!Begin, Pro!Fail, Pro!AnswerSingle, Pro!AnswerChat, Pro!NextRound,
         Pro!EndChat, Pro!Abandon
<1>3. config' \in Pro!ProviderSet \cup {Nothing}
  BY <1>2 DEF ConfigTyped, Pro!SaveConfig
<1>4. Pro!ProviderSet' = Pro!ProviderSet
  BY DEF Pro!ProviderSet, Pro!ToSet
<1> QED
  BY <1>1, <1>3, <1>4 DEF ConfigTyped

LEMMA ConfigInit == Init => ConfigTyped
  BY BooksInit DEF ConfigTyped, Init, Pro!Init

LEMMA ProvidersTypeOK == ConfigTyped => Pro!TypeOK
  BY DEF ConfigTyped, BooksKept, LLMCall, Pro!TypeOK

LEMMA CardsTypeOK == CardsKept => Cpt!TypeOK
  BY DEF CardsKept, CardsTyped, RunFields, Cpt!TypeOK, Cpt!Rows

\* Types beyond CallsMerged: an edge joins two nodes of the graph.
CodeTypes ==
    /\ CallsMerged /\ edges \subseteq fns \X fns
    /\ todo \subseteq Files /\ versions \in 0 .. MaxVersions
    /\ ever \subseteq [file : Files, caller : Cod!Texts, target : Cod!Texts]

LEMMA CallsTyped ==
  ASSUME NEW f \in Files, NEW s \in Cod!FileContents
  PROVE  /\ Cod!Calls(f, s) \subseteq [file : Files, caller : Cod!Texts, target : Cod!Texts]
         /\ s.defs \subseteq Names
         /\ \A c \in s.calls : c[1] \in s.defs /\ c[2] \in Cod!Texts
<1>1. /\ s.defs \subseteq Names /\ s.calls \subseteq Names \X Cod!Texts
      /\ \A c \in s.calls : c[1] \in s.defs
  BY DEF Cod!FileContents
<1>2. \A c \in s.calls : c[1] \in Names /\ c[2] \in Cod!Texts /\ Cod!Bare(c[1]) \in Cod!Texts
  BY <1>1, NodeTyped
<1> QED
  BY <1>1, <1>2 DEF Cod!Calls

LEMMA CodeTypesInit == Init => CodeTypes
<1> SUFFICES ASSUME Init PROVE CodeTypes
  OBVIOUS
<1>1. /\ fns = {} /\ edges = {} /\ todo = {} /\ versions = 0
      /\ ever = UNION {Cod!Calls(f, code[f]) : f \in Files}
  BY DEF Init, Cod!Init
<1>2. CallsMerged
  BY CodeInit
<1>3. \A f \in Files : code[f] \in Cod!FileContents
  BY <1>2 DEF CallsMerged
<1>4. ever \subseteq [file : Files, caller : Cod!Texts, target : Cod!Texts]
  BY <1>1, <1>3, CallsTyped
<1>5. 0 \in 0 .. MaxVersions
  BY BoundsAssumption
<1> QED
  BY <1>1, <1>2, <1>4, <1>5 DEF CodeTypes

LEMMA CodeTyped == CodeTypes /\ [Cod!Next]_codeVars => CodeTypes'
<1> SUFFICES ASSUME CodeTypes, [Cod!Next]_codeVars PROVE CodeTypes'
  OBVIOUS
<1>1. CallsMerged /\ CallsMerged'
  BY CodeMerged DEF CodeTypes
<1>2. ASSUME NEW f \in Files, Cod!MergeFile(f) PROVE CodeTypes'
  <2> DEFINE defined == fns \cup {Cod!Node(f, Cod!Bare(n)) : n \in code[f].defs}
  <2>1. /\ todo' = todo \ {f} /\ UNCHANGED <<code, ever, versions>>
        /\ edges' = edges \cup UNION {{<<Cod!Node(f, Cod!Bare(c[1])), x>> : x \in Cod!Named(c[2], fns')} :
                                     c \in code[f].calls}
        /\ defined \subseteq fns'
    BY <1>2 DEF Cod!MergeFile
  <2>2. \A c \in code[f].calls : Cod!Node(f, Cod!Bare(c[1])) \in fns'
    <3>1. code[f] \in Cod!FileContents
      BY <1>1 DEF CallsMerged
    <3> QED
      BY <2>1, <3>1, CallsTyped
  <2>3. fns \subseteq fns' /\ \A n : Cod!Named(n, fns') \subseteq fns'
    BY <2>1 DEF Cod!Named
  <2>4. edges' \subseteq fns' \X fns'
    BY <2>1, <2>2, <2>3 DEF CodeTypes
  <2> QED
    BY <1>1, <2>1, <2>4 DEF CodeTypes
<1>3. ASSUME NEW f \in Files, Cod!LoseFile(f) PROVE CodeTypes'
  <2>1. todo' = todo \ {f} /\ fns \subseteq fns' /\ UNCHANGED <<edges, ever, versions>>
    BY <1>3 DEF Cod!LoseFile
  <2> QED
    BY <1>1, <2>1 DEF CodeTypes
<1>4. CASE Cod!Edit
  <2>1. PICK f \in Files, s \in Cod!Small : ever' = ever \cup Cod!Calls(f, s)
    BY <1>4 DEF Cod!Edit
  <2>2. s \in Cod!FileContents
    BY DEF Cod!Small
  <2>3. versions' \in 0 .. MaxVersions
    BY <1>4, BoundsAssumption DEF Cod!Edit, CodeTypes
  <2>4. UNCHANGED <<fns, edges, todo>>
    BY <1>4 DEF Cod!Edit
  <2> QED
    BY <1>1, <2>1, <2>2, <2>3, <2>4, CallsTyped DEF CodeTypes
<1>5. CASE Cod!Begin \/ Cod!DeleteRepo \/ UNCHANGED codeVars
  BY <1>1, <1>5 DEF Cod!Begin, Cod!DeleteRepo, codeVars, CodeTypes
<1> QED
  BY <1>2, <1>3, <1>4, <1>5 DEF Cod!Next

LEMMA CodeTypeOK == CodeTypes => Cod!TypeOK
  BY DEF CodeTypes, CallsMerged, Cod!TypeOK

Items == 1 .. MaxItems

LEMMA OnlyItems ==
  ASSUME NEW s \in Seq(Nat), Mem!ToSet(s) \subseteq Items
  PROVE  s \in Seq(Items)
<1>1. PICK n \in Nat : n = Len(s)
  OBVIOUS
<1>2. \A i \in 1 .. n : s[i] \in Items
  BY <1>1 DEF Mem!ToSet
<1>3. s \in [1 .. n -> Items]
  BY <1>1, <1>2
<1> QED
  BY <1>3

Learned(s) == s \in Seq(Lessons) /\ Len(s) <= MaxLearned

\* Every item held or saved was remembered, and each memory keeps its cap.
MemoryTypes ==
    /\ MemoryKept /\ Learned(preferences) /\ Learned(conventions)
    /\ Learned(savedMemory.preferences) /\ Learned(savedMemory.conventions)
    /\ Mem!ToSet(working) \subseteq Items /\ Mem!ToSet(episodic) \subseteq Items
    /\ Mem!ToSet(savedMemory.episodic) \subseteq Items /\ savedMemory.present \in BOOLEAN
    /\ Len(episodic) <= MaxEpisodic + MaxSaved /\ Len(savedMemory.episodic) <= MaxSaved
    /\ remembered <= MaxItems

LEMMA MemoryTypeOK == MemoryTypes => Mem!TypeOK
<1> SUFFICES ASSUME MemoryTypes PROVE Mem!TypeOK
  OBVIOUS
<1>1. /\ working \in Seq(Items) /\ episodic \in Seq(Items) /\ savedMemory.episodic \in Seq(Items)
  BY OnlyItems DEF MemoryTypes, MemoryKept
<1>2. remembered \in 0 .. MaxItems
  BY BoundsAssumption DEF MemoryTypes, MemoryKept
<1> QED
  BY <1>1, <1>2 DEF MemoryTypes, MemoryKept, Learned, Mem!TypeOK, Items

LEMMA NothingLearned == Learned(<<>>) /\ Mem!ToSet(<<>>) = {} /\ <<>> \in Seq(Nat) /\ Len(<<>>) = 0
  BY MemoryAssumption DEF Learned, Mem!ToSet

LEMMA MemoryInit == Init => MemoryTypes
  BY NothingLearned, MemoryAssumption, BoundsAssumption DEF Init, Mem!Init, Mem!NoState, MemoryKept, MemoryTypes

\* Sorting and cutting only drops items.
LEMMA CappedDrops ==
  ASSUME NEW s \in Seq(Nat), NEW t \in Mem!Capped(s)
  PROVE  Len(t) <= MaxEpisodic /\ Mem!ToSet(t) \subseteq Mem!ToSet(s)
<1> USE MemoryAssumption
<1>1. CASE Len(s) <= MaxEpisodic
  BY <1>1 DEF Mem!Capped
<1>2. CASE ~ (Len(s) <= MaxEpisodic)
  <2>1. PICK best \in Mem!Injection(1 .. MaxEpisodic, 1 .. Len(s)) :
          t = [i \in 1 .. MaxEpisodic |-> s[best[i]]]
    BY <1>2 DEF Mem!Capped
  <2>2. best \in [1 .. MaxEpisodic -> 1 .. Len(s)]
    BY <2>1 DEF Mem!Injection
  <2>3. \A i \in 1 .. MaxEpisodic : best[i] \in DOMAIN s
    BY <2>2
  <2>4. DOMAIN t = 1 .. MaxEpisodic
    BY <2>1
  <2>5. Len(t) = MaxEpisodic
    BY <2>1, MemoryAssumption
  <2>6. ASSUME NEW x \in Mem!ToSet(t) PROVE x \in Mem!ToSet(s)
    <3>1. PICK i \in 1 .. MaxEpisodic : x = t[i]
      BY <2>4 DEF Mem!ToSet
    <3>2. x = s[best[i]] /\ best[i] \in DOMAIN s
      BY <2>1, <2>3, <3>1
    <3> QED
      BY <3>2 DEF Mem!ToSet
  <2> QED
    BY <2>5, <2>6, MemoryAssumption
<1> QED
  BY <1>1, <1>2

LEMMA RememberTyped == ASSUME MemoryTypes, NEW important \in BOOLEAN, Mem!Remember(important) PROVE MemoryTypes'
<1> USE MemoryAssumption
<1>1. PICK item \in Nat : item = remembered + 1
  BY DEF MemoryTypes, MemoryKept
<1>2. PICK all : all = IF important THEN <<item>> \o working ELSE Append(working, item)
  OBVIOUS
<1>3. /\ remembered < MaxItems /\ remembered' = item
      /\ IF Len(all) > MaxWorking
         THEN working' = Mem!Front(all) /\ episodic' \in Mem!Capped(Append(episodic, Mem!Last(all)))
         ELSE working' = all /\ episodic' \in Mem!Capped(episodic)
      /\ UNCHANGED <<preferences, conventions, savedMemory>>
  BY <1>1, <1>2 DEF Mem!Remember
<1>4. /\ working \in Seq(Nat) /\ Len(working) \in Nat /\ episodic \in Seq(Nat) /\ Len(episodic) \in Nat
      /\ remembered \in Nat /\ MaxItems \in Nat
  BY BoundsAssumption DEF MemoryTypes, MemoryKept
<1>5. item \in Items
  BY <1>1, <1>3, <1>4 DEF Items
<1>6. all \in Seq(Nat) /\ Len(all) = Len(working) + 1 /\ Mem!ToSet(all) \subseteq Items
  <2>1. CASE important
    BY <1>2, <1>4, <1>5, <2>1, ItemInFront DEF MemoryTypes
  <2>2. CASE ~ important
    <3>1. all = Append(working, item)
      BY <1>2, <2>2
    <3>2. all \in Seq(Nat) /\ Len(all) = Len(working) + 1 /\ Mem!ToSet(all) = Mem!ToSet(working) \cup {item}
      BY <1>4, <3>1, ItemAppended
    <3> QED
      BY <1>5, <3>2 DEF MemoryTypes
  <2> QED
    BY <2>1, <2>2
<1>7. Mem!ToSet(working') \subseteq Items /\ Mem!ToSet(episodic') \subseteq Items /\ Len(episodic') <= MaxEpisodic
  <2>1. CASE Len(all) > MaxWorking
    <3>1. Mem!ToSet(working') \subseteq Items /\ Mem!Last(all) \in Items /\ Mem!Last(all) \in Nat
      BY <1>3, <1>4, <1>6, <2>1, LastItem
    <3>2. PICK last \in Nat : last = Mem!Last(all)
      BY <3>1
    <3>3. PICK long : long = Append(episodic, last)
      OBVIOUS
    <3>4. long \in Seq(Nat) /\ Mem!ToSet(long) \subseteq Items
      BY <1>4, <3>1, <3>2, <3>3, ItemAppended DEF MemoryTypes
    <3>5. episodic' \in Mem!Capped(long)
      BY <1>3, <2>1, <3>2, <3>3
    <3> QED
      BY <3>1, <3>4, <3>5, CappedDrops
  <2>2. CASE ~ (Len(all) > MaxWorking)
    BY <1>3, <1>4, <1>6, <2>2, CappedDrops DEF MemoryTypes
  <2> QED
    BY <2>1, <2>2
<1>8. Len(episodic') <= MaxEpisodic + MaxSaved
  <2>1. MemoryKept'
    BY RememberKept DEF MemoryTypes
  <2> QED
    BY <1>7, <2>1 DEF MemoryKept
<1>9. MemoryKept' /\ remembered' <= MaxItems
  BY <1>1, <1>3, <1>4, RememberKept DEF MemoryTypes
<1>10. Mem!ToSet(savedMemory'.episodic) = Mem!ToSet(savedMemory.episodic)
  BY <1>3
<1> QED
  BY <1>3, <1>7, <1>8, <1>9, <1>10 DEF MemoryTypes, Learned

LEMMA RecallTyped == ASSUME MemoryTypes, Mem!Recall PROVE MemoryTypes'
<1> USE MemoryAssumption
<1>1. PICK item \in Mem!ToSet(episodic) \ Mem!ToSet(working) :
        working' = IF Len(working) = MaxWorking THEN <<item>> \o Mem!Front(working)
                   ELSE <<item>> \o working
  BY DEF Mem!Recall
<1>2. UNCHANGED <<episodic, preferences, conventions, savedMemory, remembered>>
  BY DEF Mem!Recall
<1>3. item \in Items /\ item \in Nat
  BY <1>1, BoundsAssumption DEF MemoryTypes, Items
<1>4. working \in Seq(Nat) /\ Len(working) \in Nat
  BY DEF MemoryTypes, MemoryKept
<1>5. Mem!ToSet(working') \subseteq Items
  <2>1. CASE Len(working) = MaxWorking
    <3>1. Len(working) > 0
      BY <2>1
    <3>2. PICK front : front = Mem!Front(working)
      OBVIOUS
    <3>3. front \in Seq(Nat) /\ Mem!ToSet(front) \subseteq Items
      BY <1>4, <3>1, <3>2, LastItem DEF MemoryTypes
    <3>4. working' = <<item>> \o front
      BY <1>1, <2>1, <3>2
    <3> QED
      BY <1>3, <3>3, <3>4, ItemInFront
  <2>2. CASE Len(working) # MaxWorking
    <3>1. working' = <<item>> \o working
      BY <1>1, <2>2
    <3> QED
      BY <1>3, <1>4, <3>1, ItemInFront DEF MemoryTypes
  <2> QED
    BY <2>1, <2>2
<1>6. MemoryKept'
  BY RecallKept DEF MemoryTypes
<1> QED
  BY <1>2, <1>5, <1>6 DEF MemoryTypes, Learned, Mem!ToSet

LEMMA LearningTyped ==
  ASSUME NEW s, Learned(s), NEW l \in Lessons, NEW rest, rest = IF Len(s) >= MaxLearned THEN Tail(s) ELSE s
  PROVE  Learned(rest) /\ Learned(Append(rest, l))
<1> USE MemoryAssumption
<1>1. s \in Seq(Lessons) /\ Len(s) \in Nat /\ Len(s) <= MaxLearned
  BY DEF Learned
<1>2. CASE Len(s) >= MaxLearned
  <2>1. s # <<>> /\ rest = Tail(s) /\ Len(s) = MaxLearned
    BY <1>1, <1>2
  <2>2. rest \in Seq(Lessons) /\ Len(rest) = Len(s) - 1
    BY <1>1, <2>1
  <2> QED
    BY <1>1, <2>1, <2>2 DEF Learned
<1>3. CASE ~ (Len(s) >= MaxLearned)
  <2>1. rest = s
    BY <1>3
  <2> QED
    BY <1>1, <1>3, <2>1 DEF Learned
<1> QED
  BY <1>2, <1>3

LEMMA MemoryTyped == MemoryTypes /\ [Mem!Next]_memoryVars => MemoryTypes'
<1> SUFFICES ASSUME MemoryTypes, [Mem!Next]_memoryVars PROVE MemoryTypes'
  OBVIOUS
<1> USE MemoryAssumption
<1>1. MemoryKept'
  <2>1. CASE Mem!Next
    BY <2>1, MemoryNext DEF MemoryTypes
  <2>2. CASE UNCHANGED memoryVars
    BY <2>2 DEF memoryVars, MemoryTypes, MemoryKept
  <2> QED
    BY <2>1, <2>2
<1>2. CASE Mem!NotifyChanges
  BY <1>2, RememberTyped DEF Mem!NotifyChanges
<1>3. CASE Mem!Recall
  BY <1>3, RecallTyped
<1>4. CASE Mem!PersistToDb
  <2>1. PICK n : n = IF Len(episodic) < MaxSaved THEN Len(episodic) ELSE MaxSaved
    OBVIOUS
  <2>2. PICK s : s = SubSeq(episodic, 1, n)
    OBVIOUS
  <2>3. /\ savedMemory' = [present |-> TRUE, episodic |-> s, preferences |-> preferences, conventions |-> conventions]
        /\ UNCHANGED <<working, episodic, preferences, conventions, remembered>>
    BY <1>4, <2>1, <2>2 DEF Mem!PersistToDb
  <2>4. episodic \in Seq(Nat) /\ Len(episodic) \in Nat
    BY DEF MemoryTypes, MemoryKept
  <2>5. n \in Nat /\ n <= Len(episodic) /\ n <= MaxSaved
    BY <2>1, <2>4
  <2>6. Len(s) = n /\ DOMAIN s = 1 .. n /\ \A i \in 1 .. n : s[i] = episodic[i] /\ i \in DOMAIN episodic
    BY <2>2, <2>4, <2>5
  <2>7. Mem!ToSet(s) \subseteq Mem!ToSet(episodic)
    BY <2>6 DEF Mem!ToSet
  <2> QED
    BY <1>1, <2>3, <2>5, <2>6, <2>7 DEF MemoryTypes, Learned, Mem!ToSet
<1>5. CASE Mem!LoadFromDb
  <2>1. /\ Len(episodic) <= MaxEpisodic /\ episodic' = episodic \o savedMemory.episodic
        /\ preferences' = savedMemory.preferences /\ conventions' = savedMemory.conventions
        /\ UNCHANGED <<working, savedMemory, remembered>>
    BY <1>5 DEF Mem!LoadFromDb
  <2>2. PICK s \in Seq(Nat) : s = savedMemory.episodic
    BY DEF MemoryTypes, MemoryKept
  <2>3. episodic \in Seq(Nat) /\ Len(episodic) \in Nat /\ Len(s) \in Nat
    BY DEF MemoryTypes, MemoryKept
  <2>4. Mem!ToSet(episodic') \subseteq Items
    BY <2>1, <2>2, <2>3, ItemsJoined DEF MemoryTypes
  <2>5. Len(episodic') <= MaxEpisodic + MaxSaved
    <3>1. Len(episodic') = Len(episodic) + Len(s)
      BY <2>1, <2>2, <2>3
    <3>2. Len(s) <= MaxSaved
      BY <2>2 DEF MemoryTypes
    <3> QED
      BY <2>1, <2>3, <3>1, <3>2
  <2> QED
    BY <1>1, <2>1, <2>4, <2>5 DEF MemoryTypes, Learned, Mem!ToSet
<1>6. CASE Mem!RestartApi
  <2>1. /\ working' = <<>> /\ episodic' = <<>> /\ preferences' = <<>> /\ conventions' = <<>>
        /\ UNCHANGED <<savedMemory, remembered>>
    BY <1>6 DEF Mem!RestartApi
  <2>2. Mem!ToSet(working') = {} /\ Mem!ToSet(episodic') = {} /\ Len(episodic') = 0
    BY <2>1, NothingLearned
  <2>3. Learned(preferences') /\ Learned(conventions')
    BY <2>1, NothingLearned
  <2> QED
    BY <1>1, <2>1, <2>2, <2>3 DEF MemoryTypes, Learned, Mem!ToSet
<1>7. ASSUME NEW l \in Lessons, Mem!LearnPreference(l) PROVE MemoryTypes'
  <2>1. PICK rest : rest = IF Len(preferences) >= MaxLearned THEN Tail(preferences) ELSE preferences
    OBVIOUS
  <2>2. preferences' = rest \/ preferences' = Append(rest, l)
    BY <1>7, <2>1 DEF Mem!LearnPreference
  <2>3. Learned(preferences')
    BY <2>1, <2>2, LearningTyped DEF MemoryTypes
  <2>4. UNCHANGED <<working, episodic, conventions, savedMemory, remembered>>
    BY <1>7 DEF Mem!LearnPreference
  <2> QED
    BY <1>1, <2>3, <2>4 DEF MemoryTypes, Learned, Mem!ToSet
<1>8. ASSUME NEW l \in Lessons, Mem!LearnConvention(l) PROVE MemoryTypes'
  <2>1. PICK rest : rest = IF Len(conventions) >= MaxLearned THEN Tail(conventions) ELSE conventions
    OBVIOUS
  <2>2. conventions' = Append(rest, l)
    BY <1>8, <2>1 DEF Mem!LearnConvention
  <2>3. Learned(conventions')
    BY <2>1, <2>2, LearningTyped DEF MemoryTypes
  <2>4. UNCHANGED <<working, episodic, preferences, savedMemory, remembered>>
    BY <1>8 DEF Mem!LearnConvention
  <2> QED
    BY <1>1, <2>3, <2>4 DEF MemoryTypes, Learned, Mem!ToSet
<1>9. CASE UNCHANGED memoryVars
  BY <1>1, <1>9 DEF memoryVars, MemoryTypes, Learned, Mem!ToSet
<1> QED
  BY <1>2, <1>3, <1>4, <1>5, <1>6, <1>7, <1>8, <1>9 DEF Mem!Next

\* No repository has more commits than were made, and those stay within the bound.
OwnerTypes ==
    /\ OwnersKept /\ constraint \in BOOLEAN /\ changes <= MaxCommits
    /\ \A r \in Repos : \A p \in People : count[r][p] <= changes

LEMMA OwnerTypesNext == OwnerTypes /\ OwnersKept' /\ [Own!Next]_ownershipVars => OwnerTypes'
<1> SUFFICES ASSUME OwnerTypes, OwnersKept', [Own!Next]_ownershipVars PROVE OwnerTypes'
  OBVIOUS
<1>1. /\ count \in [Repos -> [People -> Nat]] /\ count' \in [Repos -> [People -> Nat]]
      /\ changes \in Nat /\ MaxCommits \in Nat
  BY BoundsAssumption DEF OwnerTypes, OwnersKept, OwnersTyped
<1>2. CASE Own!Commit \/ Own!Rewrite
  <2>1. changes < MaxCommits /\ changes' = changes + 1 /\ constraint' = constraint
    BY <1>2 DEF Own!Commit, Own!Rewrite
  <2>2. PICK r \in Repos, p \in People :
           count' = [count EXCEPT ![r][p] = @ + 1] \/ count' = [count EXCEPT ![r][p] = @ - 1]
    BY <1>2 DEF Own!Commit, Own!Rewrite
  <2>3. ASSUME NEW q \in Repos, NEW x \in People PROVE count'[q][x] <= changes + 1
    <3>1. count'[q][x] \in {count[q][x], count[q][x] + 1, count[q][x] - 1}
      BY <1>1, <2>2
    <3>2. count[q][x] \in Nat /\ count[q][x] <= changes
      BY <1>1 DEF OwnerTypes
    <3> QED
      BY <1>1, <3>1, <3>2
  <2> QED
    BY <1>1, <2>1, <2>3 DEF OwnerTypes
<1>3. CASE UNCHANGED <<count, changes>> /\ constraint' \in {constraint, TRUE}
  BY <1>3 DEF OwnerTypes
<1>4. \/ Own!Commit \/ Own!Rewrite
      \/ UNCHANGED <<count, changes>> /\ constraint' \in {constraint, TRUE}
  BY DEF Own!Next, Own!BeginBuild, Own!EndBuild, Own!LoseBatch, Own!Collapse, Own!AddConstraint,
         Own!DeleteRepo, ownershipVars
<1> QED
  BY <1>2, <1>3, <1>4

LEMMA OwnerTypeOK == OwnerTypes => Own!TypeOK
<1> SUFFICES ASSUME OwnerTypes PROVE Own!TypeOK
  OBVIOUS
<1>1. \A r \in Repos : \A p \in People : count[r][p] \in 0 .. MaxCommits /\ onFile[r][p] \in 0 .. MaxCommits
  <2> SUFFICES ASSUME NEW r \in Repos, NEW p \in People
               PROVE  count[r][p] \in 0 .. MaxCommits /\ onFile[r][p] \in 0 .. MaxCommits
    OBVIOUS
  <2>1. /\ count[r][p] \in Nat /\ onFile[r][p] \in Nat /\ changes \in Nat /\ MaxCommits \in Nat
        /\ onFile[r][p] <= count[r][p] /\ count[r][p] <= changes /\ changes <= MaxCommits
    BY BoundsAssumption DEF OwnerTypes, OwnersKept, OwnersTyped, EdgesEarned
  <2> QED
    BY <2>1
<1>2. count \in [Repos -> [People -> 0 .. MaxCommits]] /\ onFile \in [Repos -> [People -> 0 .. MaxCommits]]
  <2>1. \A r \in Repos : count[r] \in [People -> Nat] /\ onFile[r] \in [People -> Nat]
    BY DEF OwnerTypes, OwnersKept, OwnersTyped
  <2>2. \A r \in Repos : count[r] \in [People -> 0 .. MaxCommits] /\ onFile[r] \in [People -> 0 .. MaxCommits]
    BY <1>1, <2>1
  <2> QED
    BY <2>2 DEF OwnerTypes, OwnersKept, OwnersTyped
<1>3. \A w \in Workers : build[w].at \in {"idle", "merge"}
  BY DEF OwnerTypes, OwnersKept, OwnersTyped, GraphStage, Own!Idle
<1>4. changes \in 0 .. MaxCommits
  BY BoundsAssumption DEF OwnerTypes, OwnersKept, OwnersTyped
<1> QED
  BY <1>2, <1>3, <1>4 DEF OwnerTypes, OwnersKept, OwnersTyped, Own!TypeOK

LEMMA OwnerTypesInit == Init => OwnerTypes
<1> SUFFICES ASSUME Init PROVE OwnerTypes
  OBVIOUS
<1>1. count = [r \in Repos |-> [p \in People |-> 0]] /\ constraint = FALSE /\ changes = 0
  BY DEF Init, Own!Init
<1>2. 0 <= MaxCommits
  BY BoundsAssumption
<1>3. \A r \in Repos : \A p \in People : count[r][p] <= changes
  BY <1>1
<1>4. OwnersKept
  BY OwnersInit
<1> QED
  BY <1>1, <1>2, <1>3, <1>4 DEF OwnerTypes

\* The types of the five components kept with what their properties rest on, from every
\* initial state and by every step.
AgentStateTypes == CardsKept /\ CodeTypes /\ ConfigTyped /\ MemoryTypes /\ OwnerTypes

LEMMA AgentStateInit == Init => AgentStateTypes
<1>1. Init => Cpt!Init
  BY DEF Init
<1> QED
  BY <1>1, CardsInit, CodeTypesInit, ConfigInit, MemoryInit, OwnerTypesInit DEF AgentStateTypes

LEMMA AgentStateNext == AgentStateTypes /\ [Next]_vars => AgentStateTypes'
<1> SUFFICES ASSUME AgentStateTypes, [Next]_vars PROVE AgentStateTypes'
  OBVIOUS
<1>1. CardsKept'
  BY ConceptsStep, CardsNext DEF AgentStateTypes
<1>2. CodeTypes'
  BY CodeStep, CodeTyped DEF AgentStateTypes
<1>3. ConfigTyped'
  BY ProvidersStep, ConfigNext DEF AgentStateTypes
<1>4. MemoryTypes'
  BY MemoryStep, MemoryTyped DEF AgentStateTypes
<1>5. OwnerTypes'
  <2>1. OwnersKept'
    BY OwnershipStep, OwnersNext DEF AgentStateTypes, OwnerTypes
  <2> QED
    BY <2>1, OwnershipStep, OwnerTypesNext DEF AgentStateTypes
<1> QED
  BY <1>1, <1>2, <1>3, <1>4, <1>5 DEF AgentStateTypes

LEMMA AgentStateTyped ==
    AgentStateTypes => Cpt!TypeOK /\ Cod!TypeOK /\ Pro!TypeOK /\ Mem!TypeOK /\ Own!TypeOK
  BY CardsTypeOK, CodeTypeOK, ProvidersTypeOK, MemoryTypeOK, OwnerTypeOK DEF AgentStateTypes
=============================================================================
