# TeammateX in TLA+

TeammateX is a self-hosted "AI teammate" for software teams: a FastAPI backend
(`src/backend/app`), Celery workers, PostgreSQL with pgvector, Neo4j, Redis, and a
Next.js front end. It registers Git repositories, onboards them through a chain of
stages, keeps a knowledge graph and a table of pull requests in step with GitHub, and
answers chats with a language model that calls tools.

This directory holds TLA+ models of its control logic, the TLC configurations that
check them, and TLAPS proofs about them. Every definition is translated from the source;
`PROJECT.json` maps each one to the lines it stands for.

Run a model: `tlc -config AgentChat.cfg MCAgentChat`. Check proofs: `tlapm AgentChatProofs.tla`.

## 1. The system

| Component | State | Operations | Talks to |
|---|---|---|---|
| Onboarding pipeline (`services/onboarding/pipeline.py`, `workers/celery_app.py`) | rows of `repo_onboarding_states`, Celery messages, checkout, graph, embeddings | start a chain of 9 stages; run one: save "running", execute, save "completed"/"failed", send the next or a retry | Redis broker, Postgres, Neo4j, disk |
| Repository lifecycle (`api/repos.py`) | `repos` | add, retry, delete, summary, bulk import | starts and (does not) stop the pipeline |
| Agent chat (`api/agent.py`, `services/agent/runtime.py`, `loop.py`) | transcript, the request's database session, the stored messages | open, retrieve, prune, call the model, check and run tools, wrap up, store | providers, tools, `permissions`, `conversations` |
| Permissions (`api/permissions.py`) | `permissions` | list, switch | read before each gated tool |
| Conversations (`conversations_service.py`) | `conversations`, `messages` | create, append, delete, list | chat |
| Pull-request sync (`services/integrations/pr_sync.py`) | `prs` | fetch pages, reconcile, commit | GitHub; called by poller, webhook, onboarding, worker |
| Graph sync (`services/knowledge/incremental_graph.py`, `repo_manifest.py`) | `File` nodes, manifest | full and incremental sync | clone on disk, Neo4j |
| Auto-sync (`services/agent/auto_sync.py`, `workers/tasks.py`, `api/webhooks.py`) | polling task, clone | poll, pull, sync, start, stop | the two syncs above |
| Agent memory (`services/agent/memory.py`) | working, episodic memory, preferences, conventions | remember, recall, learn, save, load | chat, poller |
| Tools on a clone (`AgentRuntime.execute_tool` and its tools, `tools.py`) | the clone, branches, pull requests, permissions | write, edit, branch, commit, pull request, shell | chats, `POST /agent/tool`, poller |
| Outbound APIs (`api/api_registry.py`) | `api_registry` | add, suggest, update, remove, check | `http_request` of the agent |
| Providers and cost (`services/llm/provider.py`, `services/agent/cost*.py`) | provider configuration, usage of a chat, ledger | call with fallback, book | chat, every other caller |
| Plugins (`services/plugins`, `api/plugins.py`) | manifests on disk, registry in memory | discover, load, disable, reload, install | runtime |
| Login and rate limit (`api/auth_endpoints.py`, `utils`) | `users`, sliding window, signing key, credential file | first run, register, login, change password | every handler |
| Uploads (`api/uploads.py`) | files on a volume, `uploads` | upload, list, download, attach, delete | chat |
| Notepad (`api/notepad.py`, `notepad/page.tsx`) | one note a user, pages with a timer | load, autosave | |
| Integrations (`api/integrations.py`, `services/integrations`) | `integrations`, one client each in the process | configure, remove, use, close | GitHub, Jira, Slack |
| Import of repositories (`api/repos.py`, `git_crawler.py`, `environment.py`) | `repos`, checkouts on disk | one, a list, an organisation, retry, delete, pull | pipeline, agent prompt |
| Ownership (`people_profiler.py`, `pipeline.py`, `knowledge/graph.py`) | `Contributor` nodes, `OWNS` edges | build, repair the schema, find the owner | workers, Neo4j |
| Call graph (`code_parser.py`, `pipeline.py`, `knowledge/graph.py`) | `Function` nodes, `CALLS` edges | merge, find callers and callees | workers, Neo4j |
| Concepts (`concept_extractor.py`, `api/knowledge.py`) | `concepts` | generate for one or all repositories | providers, repository deletion |
| Tasks, settings (`api/`) | one table each | create, read, update, delete | proactive agent |
| Chunker, retrieval, confidence, guardrails, citations, scanners | none | pure functions | onboarding, chat |
| Slack bot, reporting, evals, front end | little or none | formatting, views | outside systems |

### What is hard

* **The table of stages has no unique key and no lock.** A status save is a SELECT and a
  later INSERT or UPDATE, each error swallowed, while Celery may hand the same task out
  twice (`task_acks_late`), a worker may die, and the API may delete the rows, or the
  repository, between the two statements.
* **One database session serves a whole chat.** Errors of tools and retrieval are
  swallowed, the transaction is not rolled back, and the answer is stored at the end in
  the same session.
* **A capability is read before a tool starts**, and the model goes on asking for tools
  while an administrator switches it.
* **Listings are read page by page** from a GitHub that changes meanwhile, by several
  callers at once, into a table without a unique key.
* **The clone is scanned twice** in one incremental sync, and other coroutines and a
  Celery worker pull into it; the manifest of a full sync is stored before its nodes.
* **Handlers look something up, await, and act on what they saw**: a limiter and the password it
  guards, a domain and its entry, a URL and its row, an integration and its client, a user's
  note. Few of the tables have a unique key to catch what slips through.
* **Two stores are written one after the other**: a file and its row, an account and the file
  with its password, a row and the client made from it, a row and the directory it names. A
  request, a commit or the process may fail in between.
* **Chats share a clone.** The branch belongs to the chat's context, HEAD and the files to
  everybody, and the poller resets them.
* **A loop over repositories shares one session**: what one of them flushed, another commits.

The full list, line by line and with the properties aimed at each item, is `hazards` in
`PROJECT.json`.

### What makes each component correct

* Pipeline: one row per stage; a stage is "completed" only if it ran; stages in order;
  the verdict shown at rest is that of the last chain; deletion is final, and takes all it
  lists with it; the banner comes down.
* Chat: each transcript sent keeps the contract of the chat API; pruning bounds the
  context and leaves the model the newest results; a switched-off capability stops the tools;
  each request gets a last word; what was shown is stored; deletion is final.
* Pull-request sync: a lone sync makes the table equal the listing; every open pull request is
  eventually listed.
* Graph sync: the manifest never claims what no node shows; the graph comes to show the
  clone, and the clone follows the branch. (Sections 3 and 4 say for which of these the code
  falls short, and where.)
* Accounts: a window of failures is overrun only by the requests already admitted; the credential
  file opens the account it was written for.
* Uploads, clients, reports: what is listed can be read, the client handed out is open and
  is of saved credentials, what is reported was stored.
* Outbound list: what the check of the registry page allows the agent may fetch; only an
  administrator widens the list.
* Clone: it is changed by pulls and by tools that were granted the capability for it.
* Books: no token is booked twice; without a known leak each is booked or held by a chat.
* Graphs: the owner of the last undisturbed build is among those that may be named; a call is
  found from both ends, under the name it is written with.
* Registry: pipelines start for committed rows; a checkout is its repository's unless its
  directory is shared or was deleted.

## 2. Modules

| Module | Role |
|---|---|
| `StageBoard` | abstract specification: the board of statuses the onboarding screen promises |
| `Onboarding` | pipeline, broker, workers, status rows, add/retry/delete handlers |
| `OnboardingProofs` | TLAPS proofs about it |
| `AgentChat` | one chat request, with permissions, conversation, disconnects |
| `AgentChatProofs` | TLAPS proofs about it |
| `PrSync` | reconciliation of pull requests by several callers |
| `PrSyncProofs` | TLAPS proofs about it |
| `GraphSync` | pull, incremental and full sync of the knowledge graph |
| `GraphSyncProofs` | TLAPS proofs about it |
| `Accounts`, `Uploads`, `Notepad`, `Egress`, `Plugins`, `Memory`, `Providers`, `Connections`, `Workspace`, `Ownership`, `CodeGraph`, `Registry`, `Concepts` | one service each |
| `Services` | the services side by side |
| `ConnectionsProofs`, `WorkspaceProofs` | TLAPS proofs about two of them alone |
| `ServicesProofs` | proofs about `Services`: uploads, connections, the clone, plugins, approved APIs, accounts, repositories |
| `AgentStateProofs` | proofs about `Services`: concept cards, the code graph, memory, owners, the books |
| `MC*` | the instances for TLC (symmetry, and values a `.cfg` cannot write) |

### Onboarding

`broker[m]` counts the copies of a task message in the queue; `task[w]` is what worker
slot `w` is doing, at the grain of the code's database statements: `SelectRow` and
`WriteRow` are the two halves of `_save_stage_status`, run once with "running" before
the stage and once with the outcome after it. `ExecuteStage` and `StageRaises` are the
two ways `_execute_stage` ends, and what the stages compute is reduced to what they leave
behind (`artifacts`, and `chunks`, the embeddings, which are stored without `repo_id`). `SendNext`,
`SendRetry` and `Ack` are the end of the Celery task. The API handlers are split where they await something the pipeline can
overtake: `AddRepo` commits before `StartOnboarding` enqueues; `DeleteRepo` commits before
the checkout and the graph are removed. Faults are a lost worker (late acknowledgement:
redelivery), a killed pool child (acknowledged by its parent: chain lost), the Redis
visibility timeout (second copy), a lost save, a broker that refuses, a cleanup that
fails. `Patient` restricts the user, never the code: it separates what holds for anybody
from what holds only if retry and delete wait for the pipeline.

`executed` and `gaveUp` are history variables.

### AgentChat

`pc` walks through `chat` of `api/agent.py` and `AgentRuntime.chat`. A message is its kind,
the turn it belongs to, and, for an assistant message, the number of its tool calls or, for
a result, the position of the call it answers; `intact` is FALSE once pruning elided it.
`SliceEnd` is where the slice of `_prune_tool_results` ends, whose bound is negative, and so
counts from the end, while there are fewer results than are to be kept.
A tool is the capability that gates it. `CheckTool` and `RunTool` are separate because
`execute_tool` awaits the database between them. `session` is the shared SQLAlchemy session:
a failed statement aborts it for the rest of the request. A provider refuses a transcript
that breaks the contract of the API, which `ContractKept` states (as do the adapters'
comments in `message_utils.py`). `late[c]` counts tools of `c` that started since `c` was
switched off.

### PrSync

`got[n]` counts how often the pages fetched by a caller contain pull request `n`: GitHub may
change between two pages. `existing` is the dict of `reconcile_prs`, one row for each
number. `Commit` is one transaction. `clash` and `fresh` are history: whether a sync ever ran
beside another or beside a change, and whether one was completed since the last change.

### GraphSync

A file is a path with a version; a node, a manifest entry and a tree map paths to versions.
Versions in `Skipped` stand for files that `RepoManifest.scan` does not list (over 10 MB, or
unreadable): `Scanned` leaves them out, and a full sync writes their nodes without a sha
(`Blank`), as onboarding does for all files (`Init`). `FullBegin` stores the manifest before any
node (as `full_sync` does); `Diff` and `Scan` are the two scans of `incremental_sync`. `ChangeCap`
and `FullCap` are the 200 and 500 files a sync writes at most. Faults are fetches, loads, node
writes and stores that fail, most of them swallowed, and a restart of the API process. `damaged`
remembers that a write was lost, `leftOut` the files a sync left as they were: those beyond its
cap, and the nodes of files that are gone, which a full sync does not look for. `Calm` says that
syncs and pulls take turns.

The clone is a working tree, the tree at HEAD, and whether HEAD is detached. `PullBranch` and
`PullHead` are the two things `clone_or_pull` does on an existing clone, depending on the name of
the branch it is given. The name is the recorded one for the webhook's first pull,
`head.shorthand` for `_sync_repo`, and always `main` for the Celery worker, which names none
(`WorkerPull`; `Main` says what the repository has under that name). What libgit2 does is external and
modelled as it documents it: setting HEAD to a remote branch detaches it, a detached HEAD is
called "HEAD", HEAD cannot be set to the symbolic reference `origin/HEAD`, and a safe checkout
(the default strategy of pygit2) refuses as a whole when it would overwrite a file that is
neither as at the old HEAD nor as in the target (`Refused`).

### Services

The services around the chat and the pipeline run in the same API process and database, and
share none of the state modelled here. `Services` instantiates the thirteen modules over
disjoint variables. Interleaving steps of components that share nothing reaches no new
state of either and breaks no invariant of one, so a behaviour picks one component, its
`focus`, and runs it in every interleaving of its own requests, tasks, failures and restarts. The
size of the state space is the sum of theirs and not their product. Each property of
`Services` is the property of one module under the condition that it has the focus.

Every request is a record in its module's `request`, `call`, `build` or `run`, at the grain of the
code's awaits: what is looked up before an await is kept in the record, and another request may
move in between.

* **Accounts.** `BeginLogin` consults both limiters, `FailLogin` records with both, and the awaited
  lookup of the user is between them. `failures[k]` is the list of the times of a key; `Tick`
  advances the clock and `Recent` drops those that `Expired`. `BeginFirstRun`, `CommitAdmin` and `WriteCredential` are the three
  parts of `first_run_check`. A restart empties the limiter and, with an insecure key, replaces it
  and with it every token.
* **Uploads.** `disk` is the volume, `rows` the table. `WriteFile`/`CommitRow` and
  `RemoveFile`/`DropRow` are upload and deletion; both may stop between their halves.
* **Notepad.** A page that loaded sets `loaded`, which starts the timer of an autosave whatever the load
  brought; `Leave` drops the timer. A save of the server is a lookup and an upsert.
* **Egress.** `CheckUrl` is the endpoint, `RegistryAllows` the tool's gate, both over the same rows. A
  domain is a host, bare or `dressed` (a port, capitals, a user name): the endpoint compares the netloc
  as it stands, the gate the bare host name. A row spells its methods in `capitals` or not: the gate
  does not mind, the endpoint does. A registry that cannot be read (`readable`) lets everything through
  the gate.
* **Plugins.** Handlers do not await between their steps, so each is one action. The registry keeps
  by name the instance that was loaded last.
* **Memory.** An item is the number of the call that stored it. What the poller tells it is
  `NotifyChanges`. Episodic memory is a list, in which an item occurs again when it was
  recalled and evicted once more, or loaded from the database beside the one still there. The scores
  that choose whom to drop depend on the clock: any items may be, and the rest be sorted in any
  order. `LoadFromDb` minds no cap; a memory it overfilled is not loaded into again (a bound). Without
  a row (`present`) it changes nothing.
* **Providers.** A chat's call passes through the chain of providers and the rounds of the loop, adding
  up what it was billed; `chain` is the set of the places in `Order` still to be tried, `Foremost` the
  provider asked next; `EndChat` books the sum, `Abandon` is a chat that never comes to it.
  An answer costs tokens of the prompt and of the completion and reports all or part of them
  (`Answers`). `leaks` is the set of the ways met so far in which tokens stay out of the books. The chain
  is read anew for each call, and a database that fails is taken for no configuration (`DbConfig`).
* **Connections.** `LookUp`, `CommitRow`, `Register` are `configure_integration`; `Close` is the task it
  leaves behind for the replaced client. `BeginUse`/`EndUse` hold a client across their awaits.
  Of `Unusable` credentials the constructor raises, after the commit (`RegisterFails`); of `Incomplete`
  ones the client is made with the environment's value in the empty field (`Used`).
* **Workspace.** `Execute` checks the capability and starts; what the tool then does is actions of
  its own. A file's content is the set of edits it shows. `run_command` is a shell: while one runs,
  `Command` may change the files, what is checked out, the branches and the pull requests in any way, and
  what it started may go on after the call (`orphans`). The branch tools end without doing anything
  (`EndWithoutBranch`), because no caller names their repository. `CheckDirect` is the request that runs a
  tool outside of any chat.
* **Ownership.** `count` are a person's commits to a repository, `onFile` those to its file; `Rewrite` is a
  force-push. A build is read (`BeginBuild`) and merged (`EndBuild`), or loses its batch. A contributor may
  get two nodes until `AddConstraint`; `Collapse` is the repair at start-up. `FindOwner` is the set of
  those that `find_owner` may name.
* **CodeGraph.** Files are merged in any order; a callee nobody merged yet is a placeholder without file.
  A target is a text (`Texts`), `foo` or `self.foo`, while a function is named `foo`. A query answers with
  at most `Limit` edges, some of them if there are more.
* **Registry.** `Flush` is one URL of a request, in its transaction; `Commit` ends it and
  `StartOnboarding` enqueues. `Crawl` clones or pulls into the directory `NameOf` gives. `raced` and
  `removed` are history: URLs inserted twice, directories deleted under a checkout.
* **Concepts.** `pending` are the cards a session flushed and did not commit; a second session that
  writes the same key waits.

## 3. Runs

| Run | Question and answer | Bounds |
|---|---|---|
| `onboarding_patient` | With a patient user and no faults, do the rows implement `StageBoard`, is the verdict the last chain's, are checkout and graph of a deleted repository gone? Yes. | 3 stages, 1 retry, 2 chains, 2 workers |
| `onboarding_faults` | For any user and any fault: truthful "completed", order, final deletion, rest? Yes. | 2 stages, 1 retry, 1 chain, 2 workers, 1 fault |
| `agent_chat` | Contract within the tool limit, pruning, gates, storage, last word? Yes. | 3 turns, 2 tools a turn, 3 calls asked for, 3 results kept, 2 capabilities, 3 switches |
| `agent_chat_unsaved` | Is what was shown stored? **No**: a swallowed database error aborts the session. | 2 turns |
| `agent_chat_pruned` | Are the most recent results left as they are? **No**: with fewer than are to be kept, some are elided. | 2 turns, 3 results kept |
| `pr_sync` | A lone sync exact, every open pull request eventually listed? Yes. | 3 pull requests, pages of 1, 2 pages, 2 callers, 1 change, 1 failure |
| `pr_sync_counts` | Are the counts eventually real? **No**: a listing that shifts between pages inserts a duplicate for good. | 1 caller, 2 changes |
| `graph_sync` | When syncs take turns: manifest truthful, nothing missed, graph follows the clone? Yes. | 2 files, 3 versions, one of them skipped, 3 pushes, 1 fault, caps of 1 and 2, a poller and a webhook |
| `graph_sync_race` | Does the graph follow the clone also when they overlap? **No**: a change is lost for good without any fault. | 2 files, 2 versions, 2 pushes, no cap reached |
| `graph_sync_stall` | Does the clone follow the branch, so that the graph shows it? **No**: after the first pull the poller pulls a branch called "HEAD", and soon every checkout refuses. | 1 file, 3 versions, 3 pushes, a poller |
| `services` | Does each service keep its promise, in every interleaving of its own steps? Yes. | 2 requests, chats, workers or runs at once; 2 files, branches, repositories (that share a directory) and a malformed URL; 2 e-mails, 1 source, limits 2 and 3, window 1; 2 tabs and edits; 1 host, bare and dressed; 4 manifests; memories of 2; 2 providers and tokens; 1 integration, 3 credentials and clients; 1 orphan; 3 commits; answers of 2 edges; 1 restart |
| `notepad_emptied` | Is a note emptied only by a user who edited? **No**: a failed or early load makes the page save its empty text. | 1 page, 2 edits, 1 failed load |

**Why the bounds are enough.** Two workers give every overlap of two tasks; one retry gives a
stage that fails, fails again and gives up; three stages have a first, a middle and a
last. One fault per behaviour covers each single fault at each place; in the proofs the number
is arbitrary. One more call than the tools of a turn reaches the truncation. With three kept
results, three turns of up to two tools are pruned at one to four results, where the slice is empty, wraps
around, is exact and cuts. Pages of one entry let one change shift the listing. Three pushes let a
file grow too large for the scan and shrink again; with two files a cap of one bites on an incremental
sync, and a skipped file among them gives a full sync one to leave without sha. In `services`, two
requests give every overlap of two handlers, and the pairs of files, branches, repositories and
names let two of them collide; limits of two and memories of two can be filled and
overfilled; the limit of a source is above that of an e-mail so that each of the two
limiters can be the one that blocks; three clients let one be replaced while another is
used; three commits let two people tie or one outrun the other, with one left to drop; an answer
of two edges has one too few for a third. The requests, chats, workers and runs are the same two model
values, and so are files, repositories and their URLs: `ServicesSymmetry` exchanges them, which no module
can tell. The safety properties it is used with are symmetric as well.

### Facts met on the way

These follow from the models or the code beside them, and have no run of their own. Where a
document says otherwise its line is given.

* *Onboarding.* `onboarding_summary` counts a repository as ready between two stages. With `Patient =
  FALSE`, two chains and no fault, `GivenUpIsNotOnboarding` fails: a retry while a chain runs lets two
  copies of a stage insert a row each, every later save of it raises and is swallowed, and the rows stay
  "running" (`repos.py:206` says such a repository never keeps the banner up). With one chain and `Patient =
  FALSE`, `CheckoutAndGraphGone` fails: a running chain clones again what `delete_repo` removed.
* *Deletion.* The docstring of `delete_repo` (`repos.py:395`) lists the embeddings, but their rows were
  inserted without the `repo_id` they are selected by (`pipeline.py:754`) and stay, with a patient user
  too; scoped search misses them as well. A repository with concept cards cannot be deleted at all:
  their foreign key refuses (`DeleteRepo` of `Concepts`).
* *Graph sync.* Files beyond the first 200 (500 in a full sync) are in the manifest and never written:
  with `ChangeCap = 1` and two files, `GraphFollowsClone` fails with a single poller and no fault. The scheduled
  pull asks every clone for `main` (`tasks.py:33`; `README.md:250` says the default branch): with `Main =
  "another"`, `KnowledgeTracksReality` fails after one push.
* *Chat.* Tool calls beyond `max_tools_per_turn` stay in the transcript unanswered.
* *Tools.* A chat never asks for confirmation of a tool that requires it; only `POST /agent/tool` does.
  `http_request`, `schedule_task`, `write_note` and `web_search` have no capability. No caller sets the
  repository of a chat's context (`runtime.py:391`), so `create_branch` opens `/data/repos/unknown` and
  fails, and `commit_files` and `create_pr` answer that there is no active branch, although `README.md:135`
  and `:517` present them as the agent's way to a pull request. Branches, commits and pull requests
  come about by `run_command` alone, that is under the capability `execute`. A command's timeout kills its
  shell and not what the shell started. `edit_file` loses an edit made since it read. A pull's hard
  reset drops what was not committed. `schedule_task` offers cron expressions and refuses them.
* *Registry.* Repositories of one local name share a checkout: the second is served the first one's
  files, and deleting one removes the other's. Two requests may insert a URL twice; later
  additions of it then fail. A broker that fails in the middle of a list leaves registered repositories
  that never start. One bad name rolls the whole list back.
* *Concepts.* A repository whose cards were flushed but not committed is reported with 0 of them, and the
  next repository's commit stores them; after a database error all the later ones get 0.
* *Integrations.* Two configurations may register their clients in another order than they committed.
  When the client of a committed row cannot be made, the old one goes on answering, while the list
  of repositories uses the row's token. Removing an integration leaves its client; a restart makes
  none. With an insecure key, credentials cannot be decrypted after a restart.
* *Egress.* Removing the last active entry lifts the restriction, and so does a registry that cannot be
  read. An entry with a port, or with capitals in its host, counts for the check but never for the
  tool. The check refuses a method that was entered in small letters, which the tool allows.
* *Graphs.* The owner of a file is, of those who touched it, who has the most commits to the repository,
  not to the file (`people_profiler.py:98`; the comment at 74 says to the file). The repair at start-up
  adds up the weights of two nodes that both had the full count, so an edge outweighs its commits
  (`README.md:167` says commit count). `OWNS` edges and `Function` nodes that are stale stay. On a tie of
  weights, after a rewritten history or once the repair added weights up, `find_owner` may name a stale
  owner. A call written `self.foo` is an edge to a node of that name, so `find_dependents` of `foo` leaves
  its caller out (`graph.py:183` says functions that call it).
  Onboarding a repository again duplicates its calls' edges where a placeholder was, which use up the
  rows of an answer sooner.
* *Books.* A chat whose prompt tokens were not reported is not booked, whatever its completions cost. One
  that falls back between two answers is booked whole to the last provider, so that the breakdown by
  provider is wrong (`knowledge.py:338` promises it).
* *Others.* A plugin named like another's tool removes it when it is switched off. The second of two first
  saves of a note fails with 500.   The route `/notes/{note_id}` shadows `/notes/search`.

### Fairness

* Workers and handlers in progress keep going (`WF` of `WorkerStep(w)` and `HandlerStep`):
  a Celery worker takes the next message and stages have time limits. Users and faults
  have no fairness. No strong fairness is used.
* A chat request goes on (`WF` of `RequestStep`): provider calls and tools time out
  (`loop.py`, `runtime.py`); the browser and the administrator owe nothing.
* The poller starts a sync again and again and a sync that began goes on: `_poll_loop`
  loops for ever and its requests have timeouts.
* The services owe safety only: a request may stop anywhere, and the specification of `Services`
  states no fairness.

### Deadlock

Requests and pipelines end, so `CHECK_DEADLOCK FALSE` is set for `Onboarding` and `AgentChat`; in the
services and in the run of the notepad it is the bounds (edits, tokens, versions) that are used up.
The two syncs start again for ever and are checked for deadlock.

## 4. Findings

Each is a violation run; the quoted documents and lines are in `PROJECT.json`.

1. A swallowed database error in a chat loses the answer that was streamed (`agent_chat_unsaved`).
2. Pruning elides results of the latest turn while there are fewer than it should keep
   (`agent_chat_pruned`).
3. A pull request that moves to a later page during the fetch is inserted twice (`pr_sync_counts`).
4. Overlapping syncs leave a manifest that claims content no node shows (`graph_sync_race`).
5. The clone's HEAD is detached by the first pull, and later pulls stop following the branch
   without an error anyone sees (`graph_sync_stall`; it rests on the behaviour of libgit2
   described above).
6. A page whose load failed, or was early, saves its empty text over the note
   (`notepad_emptied`).

## 5. Proofs

Every theorem below is proved for every value of the constants that satisfies the named
assumptions, and TLC checks the property it states on a small instance. Each has the same
argument: an invariant that holds initially, is kept by every step (one lemma per action or per
conjunct), and implies the property. What follows says for each module what the invariant adds to
the property, which is what the correctness of the code rests on.

### Onboarding (`OnboardingProofs`)

Assumptions: `NumStages`, `MaxPipelines` positive, `MaxRetries`, `MaxFaults` natural, the graph and
embedding stages after the first.

* `TypeOK`, `CompletedWasExecuted`, `StageAfterPredecessors`, `DeletedHasNoRows`, whatever fails and
  whatever the user does. `CompletedWasExecuted` is not inductive: a save that writes "completed" must
  come from a task whose stage ran (`SavingWasExecuted`), and an UPDATE must hit a row of that
  task's stage (`SeenIsOfStage`), for which primary keys must be fresh (`RowIdsUnique`). The last
  two are needed because rows are deleted and inserted between the SELECT and the commit of a save.
* `VerdictAtRest`, `GivenUpIsNotOnboarding`, `CheckoutAndGraphGone`, when the user waits for the pipeline and
  nothing fails (`Undisturbed`, as in the run `onboarding_patient`; without it none of the three
  holds, as section 3 tells). The invariant `TokenInv` says that a chain is one token: there is exactly one message,
  task or handler that carries it on, and what the rows and the repository say follows from
  where it is.
* `PipelineImplementsBoard`, under the same condition: each step of the pipeline is a step or a stutter
  of `StageBoard` under the mapping of `ImplementsBoard`. The fairness half of the refinement is TLC's.

### Chat (`AgentChatProofs`)

Assumptions: the limits of the loop are positive, and no capability is called "ungated".

* `TypeOK`, `AtMostOneLateRun`, `ExchangeStored`, `DeletedConversationEmpty`. The second needs that a tool
  that has passed its check has not been counted yet (`LateInv`), and that there is a call to run
  whenever one is checked or run (`CallsInv`); `StoredInv` says what is stored at each place of the request.
* `ContractWithinLimit`, `LatestTurnUsable`, `ContextBounded`: the transcript that is sent. `TranscriptInv`
  says what the loop's transcript looks like at each place: every earlier turn answered in
  full and in order, the latest one up to the call being run, and at most as many results intact as are
  kept plus those of the turns since the last pruning. That all kept results are intact is refuted
  (finding 2). What holds wherever the slice ends: it never reaches the newest result, nor one that
  at least `KeepToolResults - 2` others came before, and leaves at most `KeepToolResults` of them.

### The two syncs (`PrSyncProofs`, `GraphSyncProofs`)

* `PrSync`: `TypeOK`, `CountsReal`, for any listing, page size and callers. `PagesCounted`
  says that what a caller has fetched of an unchanged listing is its first pages, so that each pull
  request on them is counted once: the ranks of the open ones cut the listing into pages.
  `Undisturbed` says that what a sync knows is still so unless it clashed.
* `GraphSync`: `TypeOK`; `ManifestTruthful` and `NothingMissed` when syncs and pulls take turns
  (`Calm`; without it both fail, which is finding 4), for any caps, whichever contents the scan
  skips and whatever `main` is. Both exempt the files a sync left out for its cap. `GraphInv` says, at
  each place of a sync, which paths the diff or the scan still owes to the graph.

### The services (`ConnectionsProofs`, `WorkspaceProofs`, `ServicesProofs`, `AgentStateProofs`)

A step of `Services` is a step of the component in focus and leaves the variables of the others alone
(the `...Step` lemmas), so an invariant of one is an invariant of the whole. `ConnectionsProofs` and
`WorkspaceProofs` are about the module alone and are instantiated in `ServicesProofs`.

* `ClientTrustworthy`. Clients are numbered as they are made (`Numbered`), so a new one is apart from
  all that are in use, closing or closed (`Apart`); credentials of a row and of one about to be registered
  were saved, and those of a client are usable saved ones with the empty field filled (`FromSaved`); and
  for a provider configured by one request at a time the client is the row's except between that
  request's commit and its registration, or when none can be made of the row's (`Tidy`).
* `CloneInGoodHands`, a property of steps. A call under way was granted the capability meant for its tool
  (`CallGranted`), which needs that the table of gates gives each changing tool that capability
  (`GateIsMeant`), and was confirmed if it has to be; a command left running was such a call's.
* `ListedIsReadable` (`UploadsInv`): which request owns a file or a row that is only half there.
* `OffOffersNothing` (`RegistryHonest`): what is registered under a name is of a sound manifest, and what
  is active was loaded after it was last switched off.
* `CheckSpeaksForTheAgent` (`HostsVouched`): a row is active only for a domain that an administrator made
  so; the rest follows from how the two readers compare, once for each of their answers.
* `CredentialOpens` (`FileOpens`): between the commit of the administrator's account and the write of
  the file, the first visit still holds the password that opens it.
* `GuessesBounded` (`GuessesKept`): the failures in a window and the logins that were admitted
  and have not failed yet are together fewer than the limit plus the number of requests.
* `RegistrySound` (`RegistryInv`): of two rows of a URL the second was flushed while the first was not
  committed, for which the rows flushed and not committed must be new and disjoint (`RowsApart`); a
  checkout is that of a committed row (`ClonesKept`).
* `ReportTrue` (`CardsKept`): a card that is reported was pending in the session that reports it, is
  then committed, and keeps its repository from being deleted; nothing else makes a deletion fail.
* `CallsFound` (`CallsMerged`): a merged call has an edge to a node of its target's text, and every edge
  is a call that was once in the code.
* `ForgetsOnlyWhenFull` (`MemoryKept`), a property of steps: both memories are sequences and working memory
  minds its cap, so what an eviction drops is one item beyond it.
* `OwnerIsCurrent` (`OwnersKept`): where no weight was added up and no history rewritten, an edge weighs
  no more than its owner's commits, and only those who touched the file have one; a build no other
  has overlapped then weighs at least every edge it finds.
* `BooksBalance` (`Accounted`): what is booked or held by a chat is at most what was billed, and is all of
  it while nothing has leaked. The sums are folds
  over finite sets, defined by CHOOSE of a recursive function. That this function exists and what
  the sum of a changed function is (`SumExists`, `SumsDiffer`) is shown by a smallest subset for which
  it would fail (`SmallestSubset`, from the well-foundedness of the strict subsets of a finite set).

* `TypeOK` (`ServiceTypes`, `AgentStateTypes`, and `TypeCorrect` of the two instantiated modules): most of
  it rides on the invariants above; what it needs beyond them is the bounds. What a call read are edits
  made so far (`WorkTyped`); items of memory are those that were remembered, and sorting, cutting and
  loading add none (`MemoryTypes`); nobody has more commits than there were changes, nor more on the file
  than in all (`OwnerTypes`); a save of the notepad carries a text as long as it is under way
  (`NoteTypes`); a flushed url was acceptable (`RegistryTypes`).

The assumptions are those of `Services`: what stands for nothing is no file, client, row or owner
(`OwnerAssumption`, `ClientAssumption`, `KeyAssumption`), limits are positive (`LimiterAssumption`,
`MemoryAssumption`), the order of the providers is a sequence that is not empty (`OrderAssumption`),
each URL has a directory and ids are finitely many (`RegistryAssumption`), requests, callers, rows of the
allow-list and function names are finitely many (`FiniteAssumption`), and the bounds are natural numbers (`BoundsAssumption`). TLC evaluates all of them in the run `services`.

### What is only model-checked

Every safety property of a passing run has a theorem. What is left to TLC:

* Liveness: `EventuallySettled`, `EventuallyQuiescent`, `AlwaysAnswered`, `OpenEventuallyListed`,
  `EventuallyTracks`, and the fairness half of `ImplementsBoard`. The prover handles neither fairness, which
  is defined by ENABLED, nor the induction over time these need.

Parts of the models are written for the prover: the chain of providers is a set of places rather
than a sequence that is filtered, what an import flushes is an explicit function, and what two
duplicates weigh is added without a fold. None of them
changes what the models can do.

## 6. Not modelled, and the plan

Left out for good: tree-sitter and regular-expression parsing, Cypher and SQL reads, prompt
texts, HTML and Slack formatting, the chat and settings pages, the evals: data or views without
control. Chunking, scores of retrieval and confidence, guardrails and citations compute text and
numbers from one input and keep no state. Tasks and settings are single statements on one row.

Only partly modelled: of webhooks, the push that starts a sync and not the signature
checks or the Slack events; of auto-sync, not the weekly digest; of the integrations, not what
their HTTP calls answer; of the graph, not the queries without a promise to state.

Next:

1. An abstract specification of a rate limiter (at most so many failures in any window), refined by
   `Accounts` with a single request under way.
2. The sharing that `Services` leaves out: the checkout that `Registry`, `Workspace` and
   `GraphSync` each model for themselves.
