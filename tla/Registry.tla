------------------------------- MODULE Registry -------------------------------
(***************************************************************************)
(* The registered repositories and their checkouts: adding one, a list or  *)
(* all of an organisation, retrying and deleting (api/repos.py), the first *)
(* stage of the pipeline and the pull task that clone                      *)
(* (onboarding/git_crawler.py, workers/tasks.py), and what the agent is    *)
(* told about the directories (agent/environment.py).  github_url has no   *)
(* UNIQUE constraint, and a checkout's directory is the repository's local *)
(* name: owner/api and other/api share one.                                *)
(***************************************************************************)
EXTENDS Naturals, Sequences, FiniteSets, SequencesExt

CONSTANTS
    Requests,   \* the requests under way at once
    Urls,
    NameOf,     \* url -> the local name made of its last segment
    Malformed,  \* the urls whose name is refused with 400
    Ids,        \* bound: repositories in all; uuids, numbered as they are made
    MaxList,    \* 500: the urls of one request
    Nothing     \* no repository of that id, no checkout

VARIABLES
    repo,       \* id -> [url, live], or Nothing; live until its row is deleted
    request,
    started,    \* the ids whose pipeline was enqueued
    crawled,    \* the ids whose pipeline has cloned
    pulls,      \* the rows the pull task read and has not come to yet
    clone,      \* directory -> the url of its origin, or Nothing
    raced,      \* history: urls two requests were inserting at once
    removed     \* history: the directories delete_repo removed

registryVars == <<repo, request, started, crawled, pulls, clone, raced, removed>>

Idle == [op |-> "idle"]
CloneNames == {NameOf[u] : u \in Urls}
Acceptable(u) == u \notin Malformed
Committed == {i \in Ids : repo[i] # Nothing}
Live == {i \in Committed : repo[i].live}
NewIds == UNION {DOMAIN request[r].fresh : r \in {q \in Requests : request[q].op = "import"}}

Init ==
    /\ repo = [i \in Ids |-> Nothing] /\ request = [r \in Requests |-> Idle]
    /\ started = {} /\ crawled = {} /\ pulls = {}
    /\ clone = [n \in CloneNames |-> Nothing] /\ raced = {} /\ removed = {}

(***************************************************************************)
(* Importing: each url is looked up among the rows and those this request  *)
(* flushed; one transaction commits them all, and only then the pipelines  *)
(* are enqueued one after the other.  A single addition is a list of one.  *)
(***************************************************************************)
Import(r) ==
    /\ request[r] = Idle
    /\ \E urls \in BoundedSeq(Urls, MaxList) \ {<<>>} :
          request' = [request EXCEPT ![r] = [op |-> "import", todo |-> urls, fresh |-> <<>>]]
    /\ UNCHANGED <<repo, started, crawled, pulls, clone, raced, removed>>

Known(r, u) ==
    {i \in Live : repo[i].url = u} \cup {i \in DOMAIN request[r].fresh : request[r].fresh[i] = u}

Inserting(u) ==
    {r \in Requests : request[r].op = "import" /\ \E i \in DOMAIN request[r].fresh : request[r].fresh[i] = u}

\* Two rows of a url raise MultipleResultsFound, and like a refused name roll all back.
Flush(r) ==
    /\ request[r].op = "import" /\ request[r].todo # <<>>
    /\ LET u == Head(request[r].todo)  known == Known(r, u) IN
       \/ /\ Cardinality(known) > 1 \/ ~ Acceptable(u)
          /\ request' = [request EXCEPT ![r] = Idle] /\ raced' = raced
       \/ /\ Cardinality(known) = 1 /\ Acceptable(u)
          /\ request' = [request EXCEPT ![r].todo = Tail(@)] /\ raced' = raced
       \/ /\ known = {} /\ Acceptable(u)
          /\ \E i \in Ids \ (Committed \cup NewIds) :
                /\ \A j \in Ids \ (Committed \cup NewIds) : i <= j
                /\ request' = [request EXCEPT ![r].todo = Tail(@),
                      ![r].fresh = [j \in DOMAIN @ \cup {i} |-> IF j = i THEN u ELSE @[j]]]
          /\ raced' = IF Inserting(u) # {} THEN raced \cup {u} ELSE raced
    /\ UNCHANGED <<repo, started, crawled, pulls, clone, removed>>

CommitEnqueuing(r) ==
    /\ request[r].op = "import"
    /\ started' = started \cup DOMAIN request[r].fresh
    /\ IF request[r].todo # <<>> THEN UNCHANGED <<repo, request>>
       ELSE /\ repo' = [i \in Ids |-> IF i \in DOMAIN request[r].fresh
                             THEN [url |-> request[r].fresh[i], live |-> TRUE] ELSE repo[i]]
            /\ request' = [request EXCEPT ![r] = Idle]
    /\ UNCHANGED <<crawled, pulls, clone, raced, removed>>

\* A failed commit answers 500 and leaves no row.
Commit(r) ==
    /\ request[r].op = "import" /\ request[r].todo = <<>>
    /\ \/ /\ repo' = [i \in Ids |-> IF i \in DOMAIN request[r].fresh
                          THEN [url |-> request[r].fresh[i], live |-> TRUE] ELSE repo[i]]
          /\ request' = [request EXCEPT ![r] = [op |-> "enqueue", ids |-> DOMAIN request[r].fresh]]
       \/ request' = [request EXCEPT ![r] = Idle] /\ repo' = repo
    /\ UNCHANGED <<started, crawled, pulls, clone, raced, removed>>

Retry(r) ==
    /\ request[r] = Idle
    /\ \E i \in Live : request' = [request EXCEPT ![r] = [op |-> "enqueue", ids |-> {i}]]
    /\ UNCHANGED <<repo, started, crawled, pulls, clone, raced, removed>>

\* A broker that is down ends the request: the rest is registered and never started.
StartOnboarding(r) ==
    /\ request[r].op = "enqueue"
    /\ \/ \E i \in request[r].ids :
             /\ started' = started \cup {i} /\ crawled' = crawled \ {i}
             /\ request' = [request EXCEPT ![r].ids = @ \ {i}]
       \/ request' = [request EXCEPT ![r] = Idle] /\ UNCHANGED <<started, crawled>>
    /\ UNCHANGED <<repo, pulls, clone, raced, removed>>

(***************************************************************************)
(* Deleting: the rows first, then the directory of that name.              *)
(***************************************************************************)
DeleteRows(r) ==
    /\ request[r] = Idle
    /\ \E i \in Live :
          /\ repo' = [repo EXCEPT ![i].live = FALSE]
          /\ request' = [request EXCEPT ![r] = [op |-> "remove", name |-> NameOf[repo[i].url]]]
    /\ UNCHANGED <<started, crawled, pulls, clone, raced, removed>>

\* A failing rmtree is logged.
RemoveCheckout(r) ==
    /\ request[r].op = "remove"
    /\ clone' \in {clone, [clone EXCEPT ![request[r].name] = Nothing]}
    /\ removed' = removed \cup {request[r].name}
    /\ request' = [request EXCEPT ![r] = Idle]
    /\ UNCHANGED <<repo, started, crawled, pulls, raced>>

(***************************************************************************)
(* clone_or_pull: a directory that is there is pulled from its own origin, *)
(* whatever url was asked for.  Neither caller looks at the row again.     *)
(***************************************************************************)
CloneOrPull(u) == clone' = [clone EXCEPT ![NameOf[u]] = IF @ = Nothing THEN u ELSE @]

Crawl ==
    /\ \E i \in started \ crawled : CloneOrPull(repo[i].url) /\ crawled' = crawled \cup {i}
    /\ UNCHANGED <<repo, request, started, pulls, raced, removed>>

BeginPull ==
    /\ pulls = {} /\ pulls' = Live
    /\ UNCHANGED <<repo, request, started, crawled, clone, raced, removed>>

PullOne ==
    /\ \E i \in pulls : pulls' = pulls \ {i} /\ (CloneOrPull(repo[i].url) \/ UNCHANGED clone)
    /\ UNCHANGED <<repo, request, started, crawled, raced, removed>>

Next ==
    \/ \E r \in Requests :
          \/ Import(r) \/ Flush(r) \/ Commit(r) \/ Retry(r) \/ StartOnboarding(r)
          \/ DeleteRows(r) \/ RemoveCheckout(r)
    \/ Crawl \/ BeginPull \/ PullOne

Spec == Init /\ [][Next]_registryVars

(***************************************************************************)
(* What the agent is told of a directory: one of the rows of its name.     *)
(***************************************************************************)
ToldRemotes(n) == {repo[i].url : i \in {j \in Live : NameOf[repo[j].url] = n}}

TypeOK ==
    /\ repo \in [Ids -> [url : Urls \ Malformed, live : BOOLEAN] \cup {Nothing}]
    /\ \A r \in Requests : request[r].op \in {"idle", "import", "enqueue", "remove"}
    /\ crawled \subseteq started /\ started \subseteq Ids /\ pulls \subseteq Committed
    /\ clone \in [CloneNames -> Urls \cup {Nothing}] /\ raced \subseteq Urls /\ removed \subseteq CloneNames

(***************************************************************************)
(* However additions, imports, retries, deletions, crawls and pulls        *)
(* overlap and fail: a pipeline is only enqueued for a row that was        *)
(* committed before, so the worker finds it; a url has two rows only when  *)
(* two requests were inserting it at once; and unless two urls share a     *)
(* directory or one of that directory was deleted, what was crawled is     *)
(* still there and is the repository the agent is told it is               *)
(* (add_repo, add_repos_bulk, delete_repo, clone_or_pull,                  *)
(* reconcile_repos).                                                       *)
(***************************************************************************)
Disputed(n) ==
    \/ n \in removed
    \/ Cardinality({repo[i].url : i \in {j \in Committed : NameOf[repo[j].url] = n}}) > 1

RegistrySound ==
    /\ started \subseteq Committed
    /\ \A i, j \in Live : i # j /\ repo[i].url = repo[j].url => repo[i].url \in raced
    /\ \A i \in crawled \cap Live : LET n == NameOf[repo[i].url] IN
          ~ Disputed(n) => clone[n] = repo[i].url /\ ToldRemotes(n) = {clone[n]}
=============================================================================
