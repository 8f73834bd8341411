------------------------------- MODULE PrSync -------------------------------
(***************************************************************************)
(* The reconciliation of GitHub's open pull requests of one repository     *)
(* into table prs (services/integrations/pr_sync.py).                      *)
(*                                                                         *)
(* The listing is fetched page by page while pull requests open and close  *)
(* on GitHub; the rows are read and written in one transaction, but the    *)
(* table has no unique key on (repo, number) and nothing keeps two syncs   *)
(* apart: the poller, a webhook and the onboarding pipeline all start one. *)
(***************************************************************************)
EXTENDS Naturals, FiniteSets

CONSTANTS
  NumPrs,       \* bound: pull requests ever opened, numbered from 1
  PageSize,     \* entries of a full page (100 in the code)
  MaxPages,     \* MAX_PAGES
  Syncers,      \* callers that may run a sync at the same time
  MaxChanges,   \* bound: pull requests opened, closed or reopened on GitHub
  MaxFailures   \* bound: requests to GitHub that fail

ASSUME ListingAssumption ==
  NumPrs \in Nat /\ PageSize \in Nat \ {0} /\ MaxPages \in Nat \ {0}
ASSUME BoundsAssumption == MaxChanges \in Nat /\ MaxFailures \in Nat

VARIABLES
  github,    \* github[n]: pull request n on GitHub
  prs,       \* the rows of the table, copy telling rows of one number apart
  sync,      \* sync[s]: where caller s stands
  changes,   \* changes on GitHub so far
  failures,  \* failed requests so far
  clash,     \* history: a sync ran while another ran or GitHub changed
  fresh      \* history: a sync was completed since GitHub changed

vars == <<github, prs, sync, changes, failures, clash, fresh>>

Prs == 1..NumPrs
Row == [num : Prs, copy : Nat \ {0}, open : BOOLEAN, agent : BOOLEAN]

\* got[n] counts the entries of n in the pages fetched; existing is the dict of
\* reconcile_prs, one row for each number.
Sync == [pc : {"idle", "fetch", "read", "commit"}, page : 1..MaxPages,
         got : [Prs -> 0..MaxPages], existing : SUBSET Row]

IdleSync == [pc |-> "idle", page |-> 1, got |-> [n \in Prs |-> 0],
             existing |-> {}]

TypeOK ==
  /\ github \in [Prs -> {"unborn", "open", "closed"}]
  /\ prs \subseteq Row
  /\ sync \in [Syncers -> Sync]
  /\ \A s \in Syncers : \A r1, r2 \in sync[s].existing : r1.num = r2.num => r1 = r2
  /\ changes \in 0..MaxChanges
  /\ failures \in 0..MaxFailures
  /\ clash \in BOOLEAN /\ fresh \in BOOLEAN

\* Pull request 1 may have a row linked to a task, which reconcile_prs treats as the
\* agent's.  The table has the column; nothing in the repository fills it.
AgentRow == [num |-> 1, copy |-> 1, open |-> TRUE, agent |-> TRUE]

Init ==
  /\ \E born \in 0..NumPrs, done \in SUBSET Prs :
       github = [n \in Prs |-> IF n > born THEN "unborn"
                               ELSE IF n \in done THEN "closed" ELSE "open"]
  /\ prs = {} \/ (NumPrs > 0 /\ github[1] = "open" /\ prs = {AgentRow})
  /\ sync = [s \in Syncers |-> IdleSync]
  /\ changes = 0 /\ failures = 0
  /\ clash = FALSE /\ fresh = FALSE

-----------------------------------------------------------------------------
(* GitHub.                                                                  *)

GithubChanges(n, status) ==
  /\ changes < MaxChanges
  /\ github' = [github EXCEPT ![n] = status]
  /\ changes' = changes + 1
  /\ clash' = (clash \/ \E s \in Syncers : sync[s].pc # "idle")
  /\ fresh' = FALSE
  /\ UNCHANGED <<prs, sync, failures>>

OpenPr(n) ==
  /\ github[n] = "unborn"
  /\ \A m \in 1..(n - 1) : github[m] # "unborn"
  /\ GithubChanges(n, "open")

ClosePr(n)  == github[n] = "open" /\ GithubChanges(n, "closed")
ReopenPr(n) == github[n] = "closed" /\ GithubChanges(n, "open")

OpenOnGithub == {n \in Prs : github[n] = "open"}

\* Open pull requests listed before n; the newest comes first.
Rank(n) == Cardinality({m \in OpenOnGithub : m > n})

Page(p) == {n \in OpenOnGithub : Rank(n) \div PageSize = p - 1}

-----------------------------------------------------------------------------
(* sync_repo_prs by caller s.                                               *)

Start(s) ==
  /\ sync[s].pc = "idle"
  /\ sync' = [sync EXCEPT ![s].pc = "fetch"]
  /\ clash' = (clash \/ \E o \in Syncers \ {s} : sync[o].pc # "idle")
  /\ UNCHANGED <<github, prs, changes, failures, fresh>>

\* Mutant: full pages are followed without end.
FetchPageAlways(s) ==
  LET batch == Page(sync[s].page)
  IN  /\ sync[s].pc = "fetch"
      /\ sync' = [sync EXCEPT
           ![s].got  = [n \in Prs |-> IF n \in batch THEN @[n] + 1 ELSE @[n]],
           ![s].page = IF Cardinality(batch) < PageSize THEN @ ELSE @ + 1,
           ![s].pc   = IF Cardinality(batch) < PageSize THEN "read" ELSE @]
      /\ UNCHANGED <<github, prs, changes, failures, clash, fresh>>

\* fetch_open_prs: one request; a short page or the last allowed one is the end.
FetchPage(s) ==
  LET batch == Page(sync[s].page)
      last  == Cardinality(batch) < PageSize \/ sync[s].page = MaxPages
  IN  /\ sync[s].pc = "fetch"
      /\ sync' = [sync EXCEPT
           ![s].got  = [n \in Prs |-> IF n \in batch THEN @[n] + 1 ELSE @[n]],
           ![s].page = IF last THEN @ ELSE @ + 1,
           ![s].pc   = IF last THEN "read" ELSE @]
      /\ UNCHANGED <<github, prs, changes, failures, clash, fresh>>

\* A request fails: the callers log it, and the sync is over.
FetchFails(s) ==
  /\ sync[s].pc = "fetch" /\ failures < MaxFailures
  /\ failures' = failures + 1
  /\ sync' = [sync EXCEPT ![s] = IdleSync]
  /\ UNCHANGED <<github, prs, changes, clash, fresh>>

RowsOf(n) == {r \in prs : r.num = n}
KnownPrs  == {r.num : r \in prs}

\* The SELECT of reconcile_prs.  Of several rows of a number any may come last.
ReadRows(s) ==
  /\ sync[s].pc = "read"
  /\ \E row \in [KnownPrs -> prs] :
       /\ \A n \in KnownPrs : row[n] \in RowsOf(n)
       /\ sync' = [sync EXCEPT ![s].pc = "commit",
                               ![s].existing = {row[n] : n \in KnownPrs}]
  /\ UNCHANGED <<github, prs, changes, failures, clash, fresh>>

\* A number fetched twice is added twice: the dict is not updated on the way.
Added(s) ==
  LET new == {n \in Prs : \A r \in sync[s].existing : r.num # n}
  IN  UNION {{[num |-> n, copy |-> Cardinality(RowsOf(n)) + k,
               open |-> TRUE, agent |-> FALSE] : k \in 1..sync[s].got[n]}
             : n \in new}

Key(r) == <<r.num, r.copy>>

\* Mutant: a row that is there already is left as it is.
ReopenedNone(s) == {}
Reopened(s) == {Key(r) : r \in
  {e \in sync[s].existing : sync[s].got[e.num] > 0 /\ ~e.open}}

\* Mutant: what left the listing stays open.
ClosedNone(s) == {}
Closed(s) == {Key(r) : r \in
  {e \in sync[s].existing : sync[s].got[e.num] = 0 /\ e.open /\ ~e.agent}}

\* reconcile_prs, to its commit.
Commit(s) ==
  /\ sync[s].pc = "commit"
  /\ prs' = {[r EXCEPT !.open = IF Key(r) \in Reopened(s) THEN TRUE
                                ELSE IF Key(r) \in Closed(s) THEN FALSE
                                ELSE @] : r \in prs}
            \cup Added(s)
  /\ sync' = [sync EXCEPT ![s] = IdleSync]
  /\ fresh' = TRUE
  /\ UNCHANGED <<github, changes, failures, clash>>

SyncStep(s) == FetchPage(s) \/ FetchFails(s) \/ ReadRows(s) \/ Commit(s)

Next ==
  \/ \E n \in Prs : OpenPr(n) \/ ClosePr(n) \/ ReopenPr(n)
  \/ \E s \in Syncers : Start(s) \/ SyncStep(s)

Spec == Init /\ [][Next]_vars

\* The poller starts a sync again and again, and a sync that began goes on.
FairSpec ==
  /\ Spec
  /\ \A s \in Syncers : WF_vars(Start(s)) /\ WF_vars(SyncStep(s))

-----------------------------------------------------------------------------
(* Properties.                                                              *)

AgentPrs == {r.num : r \in {x \in prs : x.agent}}

Listed == {n \in OpenOnGithub : Rank(n) < PageSize * MaxPages}

\* A sync that ran alone, with GitHub standing still, makes the table real: of
\* the rows that are not the agent's, one is open for each pull request listed
\* on GitHub within the page limit, and no other.
CountsReal ==
  ~clash /\ fresh /\ (\A s \in Syncers : sync[s].pc = "idle") =>
    /\ {r.num : r \in {x \in prs : x.open}} \ AgentPrs = Listed \ AgentPrs
    /\ \A r1, r2 \in prs : r1.num = r2.num => r1 = r2

\* However syncs overlapped, failed or fetched torn listings, once GitHub stands
\* still each pull request listed there has an open row, and keeps it.
OpenEventuallyListed ==
  <>[](\A n \in Listed : \E r \in RowsOf(n) : r.open)

\* What the documents say and the code does not do.

\* "reconciles them into prs, idempotently, so the counts are real" (docstring
\* of pr_sync.py): in the end each open pull request counts once, others never.
CountsEventuallyReal ==
  <>[](\A n \in Prs \ AgentPrs :
         Cardinality({r \in RowsOf(n) : r.open}) = IF n \in Listed THEN 1 ELSE 0)
=============================================================================
