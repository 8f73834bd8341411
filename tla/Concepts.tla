------------------------------- MODULE Concepts -------------------------------
(***************************************************************************)
(* The concept cards of the Knowledge page (agent/concept_extractor.py),   *)
(* generated for one repository or for all of them in ONE database session *)
(* (api/knowledge.py, generate_concepts), and the deletion of a repository *)
(* that has some (api/repos.py).  Cards are upserted one by one and        *)
(* committed per repository; an exception of one repository is caught      *)
(* without a rollback.  A card's text is abstracted to its name.           *)
(***************************************************************************)
EXTENDS FiniteSets

CONSTANTS
    Runs,      \* the generate requests under way at once
    Repos,
    Names,     \* the names the model gives to concepts
    Nothing    \* no repository under way

VARIABLES
    live,      \* the repositories that have a row
    concepts,  \* the rows of the table: <<repository, name>>
    run,       \* each request's session and report
    refused    \* history: the repositories whose deletion ended in an error

conceptVars == <<live, concepts, run, refused>>

Idle == [op |-> "idle", todo |-> {}, at |-> Nothing, left |-> {}, sound |-> TRUE,
         pending |-> {}, aborted |-> FALSE, reported |-> {}]
Rows == Repos \X Names  \* a concept of a repository, the model's name for it

Init ==
    /\ live = Repos /\ concepts = {} /\ refused = {}
    /\ run = [r \in Runs |-> Idle]

\* One repository, or every active one as of now.
Generate(r) ==
    /\ run[r] = Idle
    /\ \E todo \in {{p} : p \in live} \cup ({live} \ {{}}) :
          run' = [run EXCEPT ![r].op = "generate", ![r].todo = todo]
    /\ UNCHANGED <<live, concepts, refused>>

(***************************************************************************)
(* What is made of the model's reply: the cards that have a name, a known  *)
(* category and a summary.  A reply without a JSON object has none; an     *)
(* item that is not an object raises when its turn comes.                  *)
(***************************************************************************)
Replies == [names : SUBSET Names, sound : BOOLEAN]

\* Nothing comes of a repository that is gone, has no file in the graph or got no
\* card for an answer; in a session whose transaction is aborted the first SELECT raises.
BeginRepo(r) ==
    /\ run[r].op = "generate" /\ run[r].at = Nothing
    /\ \E p \in run[r].todo :
          \/ run' = [run EXCEPT ![r].todo = @ \ {p}]
          \/ /\ p \in live /\ ~ run[r].aborted
             /\ \E reply \in Replies :
                   run' = [run EXCEPT ![r].todo = @ \ {p}, ![r].at = p,
                                      ![r].left = reply.names, ![r].sound = reply.sound]
    /\ UNCHANGED <<live, concepts, refused>>

Holders(key) == {r \in Runs : key \in run[r].pending}

\* A key another session has written waits for that session.
Upsert(r) ==
    /\ run[r].at # Nothing /\ run[r].at \in live
    /\ \E n \in run[r].left :
          /\ Holders(<<run[r].at, n>>) \subseteq {r}
          /\ run' = [run EXCEPT ![r].left = @ \ {n}, ![r].pending = @ \cup {<<run[r].at, n>>}]
    /\ UNCHANGED <<live, concepts, refused>>

(***************************************************************************)
(* What was flushed for the repository of a bad item stays in the session, *)
(* and the next repository's commit takes it along.                        *)
(***************************************************************************)
RaiseAtItem(r) ==
    /\ run[r].at # Nothing /\ ~ run[r].sound
    /\ run' = [run EXCEPT ![r].at = Nothing, ![r].left = {}, ![r].sound = TRUE]
    /\ UNCHANGED <<live, concepts, refused>>

\* The victim of a deadlock, a repository that is gone, a lost connection.
DatabaseError(r) ==
    /\ run[r].at # Nothing
    /\ run' = [run EXCEPT ![r].at = Nothing, ![r].left = {}, ![r].sound = TRUE,
                          ![r].pending = {}, ![r].aborted = TRUE]
    /\ UNCHANGED <<live, concepts, refused>>

Answered(r) == run[r].at # Nothing /\ run[r].left = {} /\ run[r].sound

Done(r, held) ==
    run' = [run EXCEPT ![r].at = Nothing, ![r].pending = held,
                       ![r].reported = @ \cup {key \in run[r].pending : key[1] = run[r].at}]

\* The commit left to the end of the request.
CommitRepoLater(r) ==
    /\ Answered(r)
    /\ Done(r, run[r].pending)
    /\ UNCHANGED <<live, concepts, refused>>

CommitRepo(r) ==
    /\ Answered(r)
    /\ concepts' = concepts \cup run[r].pending
    /\ Done(r, {})
    /\ UNCHANGED <<live, refused>>

\* Closing the session rolls back what is left in it.
Report(r) ==
    /\ run[r].op = "generate" /\ run[r].at = Nothing /\ run[r].todo = {}
    /\ run' = [run EXCEPT ![r] = Idle]
    /\ UNCHANGED <<live, concepts, refused>>

(***************************************************************************)
(* delete_repo removes the rows of five tables, concepts not among them;   *)
(* the foreign key of a concept refuses the deletion.  A session that has  *)
(* inserted one makes it wait.                                             *)
(***************************************************************************)
DeleteRepo ==
    /\ \E p \in live :
          /\ \A r \in Runs : \A key \in run[r].pending : key[1] # p
          /\ IF \E key \in concepts : key[1] = p
             THEN refused' = refused \cup {p} /\ live' = live
             ELSE live' = live \ {p} /\ refused' = refused
    /\ UNCHANGED <<concepts, run>>

Next ==
    \/ \E r \in Runs :
          \/ Generate(r) \/ BeginRepo(r) \/ Upsert(r) \/ RaiseAtItem(r) \/ DatabaseError(r)
          \/ CommitRepo(r) \/ Report(r)
    \/ DeleteRepo

Spec == Init /\ [][Next]_conceptVars

TypeOK ==
    /\ live \subseteq Repos /\ concepts \subseteq Rows /\ refused \subseteq Repos
    /\ \A r \in Runs :
          /\ run[r].op \in {"idle", "generate"} /\ run[r].todo \subseteq Repos
          /\ run[r].at \in Repos \cup {Nothing} /\ run[r].left \subseteq Names
          /\ run[r].pending \subseteq Rows /\ run[r].reported \subseteq Rows

(***************************************************************************)
(* Whatever repositories fail in the shared session and whatever other     *)
(* requests and deletions overlap: the cards a request reports for a       *)
(* repository are in the table, no card outlives its repository, two       *)
(* sessions never hold the same card, and a deletion that ends in an error *)
(* was of a repository with cards, which keep it for good                  *)
(* (extract_for_repo, extract_for_all, delete_repo).                       *)
(***************************************************************************)
ReportTrue ==
    /\ \A r \in Runs : run[r].reported \subseteq concepts
    /\ \A key \in concepts : key[1] \in live
    /\ \A q, r \in Runs : q # r => run[q].pending \cap run[r].pending = {}
    /\ \A p \in refused : \E key \in concepts : key[1] = p
=============================================================================
