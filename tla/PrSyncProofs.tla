------------------------------ MODULE PrSyncProofs ------------------------------
(***************************************************************************)
(* Safety of module PrSync, for any number of pull requests, pages, page   *)
(* sizes, overlapping callers, changes on GitHub and failed requests.      *)
(***************************************************************************)
EXTENDS PrSync, FiniteSetTheorems, TLAPS

USE ListingAssumption, BoundsAssumption

\* A caller that is idle kept nothing, and no number was counted oftener than there were
\* pages.
Fetched(s) == IF sync[s].pc = "fetch" THEN sync[s].page - 1 ELSE sync[s].page

PagesCounted ==
  \A s \in Syncers :
    /\ sync[s].pc = "idle" => sync[s] = IdleSync
    /\ \A n \in Prs : sync[s].got[n] <= Fetched(s)

\* The row of the agent's pull request, where there is one, is the only one of its key, also
\* in the snapshots the callers took.
AgentRowAlone ==
  \/ \A r \in prs : ~r.agent
  \/ /\ AgentRow \in prs
     /\ \A r \in prs : r.agent \/ Key(r) = Key(AgentRow) => r = AgentRow
     /\ \A s \in Syncers : \A e \in sync[s].existing : Key(e) = Key(AgentRow) => e = AgentRow

OneRowEach == \A r1, r2 \in prs : r1.num = r2.num => r1 = r2

InPages(n, p) == n \in OpenOnGithub /\ Rank(n) < p * PageSize

\* What a caller holds that nobody disturbed.
Alone(s) ==
  /\ \A o \in Syncers \ {s} : sync[o].pc = "idle"
  /\ sync[s].pc = "fetch" =>
       \A n \in Prs : sync[s].got[n] = IF InPages(n, sync[s].page - 1) THEN 1 ELSE 0
  /\ sync[s].pc \in {"read", "commit"} =>
       \A n \in Prs : sync[s].got[n] = IF n \in Listed THEN 1 ELSE 0
  /\ sync[s].pc = "commit" => sync[s].existing = prs

OpenRows == {r.num : r \in {x \in prs : x.open}}
CountsTrue == OpenRows \ AgentPrs = Listed \ AgentPrs

Undisturbed ==
  ~clash =>
    /\ OneRowEach
    /\ \A s \in Syncers : sync[s].pc # "idle" => Alone(s)
    /\ fresh => CountsTrue

IInv == TypeOK /\ IsFiniteSet(prs) /\ PagesCounted /\ AgentRowAlone /\ Undisturbed

-----------------------------------------------------------------------------
(* The listing: pull requests have the ranks 0, 1, ... without a gap, so a   *)
(* page that is not full is the last one.                                    *)

LEMMA OpenFinite ==
  /\ IsFiniteSet(OpenOnGithub) /\ Cardinality(OpenOnGithub) \in Nat
  /\ OpenOnGithub \subseteq Prs /\ Prs \subseteq Nat /\ IsFiniteSet(Prs)
<1>1. IsFiniteSet(Prs) /\ Prs \subseteq Nat
  BY FS_Interval DEF Prs
<1>2. OpenOnGithub \subseteq Prs
  BY DEF OpenOnGithub
<1> QED
  BY <1>1, <1>2, FS_Subset, FS_CardinalityType

LEMMA RankBelow ==
  ASSUME NEW n \in OpenOnGithub
  PROVE  Rank(n) \in Nat /\ Rank(n) < Cardinality(OpenOnGithub)
<1> DEFINE above == {m \in OpenOnGithub : m > n}
           rest == OpenOnGithub \ {n}
<1>1. IsFiniteSet(rest) /\ Cardinality(rest) = Cardinality(OpenOnGithub) - 1
  BY OpenFinite, FS_RemoveElement
<1>2. above \subseteq rest
  BY OpenFinite
<1>3. Cardinality(above) <= Cardinality(rest) /\ Cardinality(above) \in Nat
  BY <1>1, <1>2, FS_Subset, FS_CardinalityType
<1>4. Rank(n) = Cardinality(above)
  BY DEF Rank
<1> HIDE DEF above, rest
<1> QED
  BY <1>1, <1>3, <1>4, OpenFinite

LEMMA RankApart ==
  ASSUME NEW n \in OpenOnGithub, NEW m \in OpenOnGithub, n < m
  PROVE  Rank(m) < Rank(n)
<1> DEFINE aboveN == {k \in OpenOnGithub : k > n}
           aboveM == {k \in OpenOnGithub : k > m}
<1>1. IsFiniteSet(aboveN) /\ m \in aboveN
  <2>1. aboveN \subseteq OpenOnGithub /\ m \in aboveN
    BY OpenFinite
  <2> QED
    BY <2>1, OpenFinite, FS_Subset
<1>2. IsFiniteSet(aboveN \ {m}) /\ Cardinality(aboveN \ {m}) = Cardinality(aboveN) - 1
  BY <1>1, FS_RemoveElement
<1>3. aboveM \subseteq aboveN \ {m}
  <2> SUFFICES ASSUME NEW k \in OpenOnGithub, k > m PROVE k > n /\ k # m
    OBVIOUS
  <2>1. k \in Nat /\ m \in Nat /\ n \in Nat
    BY OpenFinite
  <2> QED
    BY <2>1
<1>4. Cardinality(aboveM) <= Cardinality(aboveN \ {m})
  BY <1>2, <1>3, FS_Subset
<1>5. Rank(n) = Cardinality(aboveN) /\ Rank(m) = Cardinality(aboveM)
  BY DEF Rank
<1> HIDE DEF aboveN, aboveM
<1> QED
  BY <1>2, <1>4, <1>5, RankBelow

LEMMA RankOnto ==
  ASSUME NEW j \in Nat, j < Cardinality(OpenOnGithub)
  PROVE  \E n \in OpenOnGithub : Rank(n) = j
<1> DEFINE c == Cardinality(OpenOnGithub)
           f == [n \in OpenOnGithub |-> Rank(n)]
           ranks == 0 .. (c - 1)
<1>1. c \in Nat
  BY OpenFinite
<1>2. IsFiniteSet(ranks) /\ Cardinality(ranks) = c
  <2>1. c - 1 \in Int /\ (0 > c - 1 <=> c = 0) /\ c - 1 - 0 + 1 = c
    BY <1>1
  <2> HIDE DEF c
  <2>2. IsFiniteSet(0 .. (c - 1)) /\ Cardinality(0 .. (c - 1)) = IF 0 > c - 1 THEN 0 ELSE c - 1 - 0 + 1
    BY <2>1, FS_Interval
  <2> QED
    BY <2>1, <2>2
<1>3. f \in [OpenOnGithub -> ranks]
  BY <1>1, RankBelow
<1>4. ASSUME NEW n \in OpenOnGithub, NEW m \in OpenOnGithub, f[n] = f[m] PROVE n = m
  <2>1. Rank(n) = Rank(m) /\ n \in Nat /\ m \in Nat /\ Rank(n) \in Nat
    BY <1>4, OpenFinite, RankBelow
  <2>2. ~ (n < m) /\ ~ (m < n)
    BY <2>1, RankApart
  <2> QED
    BY <2>1, <2>2
<1>5. f \in Injection(OpenOnGithub, ranks)
  BY <1>3, <1>4 DEF Injection, IsInjective
<1>6. f \in Surjection(OpenOnGithub, ranks)
  BY <1>2, <1>5, FS_Injection
<1>7. j \in ranks
  BY <1>1
<1> HIDE DEF ranks
<1> QED
  BY <1>6, <1>7 DEF Surjection

LEMMA DivBounds ==
  ASSUME NEW a \in Nat, NEW d \in Nat \ {0}, NEW q \in Nat
  PROVE  a \div d = q <=> q * d <= a /\ a < (q + 1) * d
  OBVIOUS

LEMMA PageRanks ==
  ASSUME NEW n \in OpenOnGithub, NEW p \in Nat \ {0}
  PROVE  n \in Page(p) <=> (p - 1) * PageSize <= Rank(n) /\ Rank(n) < p * PageSize
<1>1. Rank(n) \in Nat /\ p - 1 \in Nat
  BY RankBelow
<1>2. Rank(n) \div PageSize = p - 1 <=> (p - 1) * PageSize <= Rank(n) /\ Rank(n) < ((p - 1) + 1) * PageSize
  BY <1>1, DivBounds
<1>3. (p - 1) + 1 = p
  OBVIOUS
<1> QED
  BY <1>2, <1>3 DEF Page

LEMMA ShortPageLast ==
  ASSUME NEW p \in Nat \ {0}, Cardinality(Page(p)) < PageSize, NEW n \in OpenOnGithub
  PROVE  Rank(n) < p * PageSize
<1> SUFFICES ASSUME ~ (Rank(n) < p * PageSize) PROVE FALSE
  OBVIOUS
<1> DEFINE a == (p - 1) * PageSize
           b == p * PageSize
           full == a .. (b - 1)
           f == [k \in Page(p) |-> Rank(k)]
<1>1. a \in Nat /\ b \in Nat /\ b = a + PageSize /\ PageSize \in Nat \ {0}
  OBVIOUS
<1>2. IsFiniteSet(Page(p)) /\ Page(p) \subseteq OpenOnGithub
  <2>1. Page(p) \subseteq OpenOnGithub
    BY DEF Page
  <2> QED
    BY <2>1, OpenFinite, FS_Subset
<1>3. \A k \in OpenOnGithub : k \in Page(p) <=> a <= Rank(k) /\ Rank(k) < b
  BY PageRanks
<1>4. ~ (Rank(n) < b) /\ Rank(n) \in Nat /\ Rank(n) < Cardinality(OpenOnGithub)
  BY RankBelow
<1> HIDE DEF a, b
<1>5. f \in [Page(p) -> full]
  BY <1>1, <1>2, <1>3, RankBelow
<1>6. ASSUME NEW j \in full PROVE \E k \in Page(p) : f[k] = j
  <2>1. j \in Nat /\ a <= j /\ j < b /\ j < Cardinality(OpenOnGithub)
    BY <1>1, <1>4, OpenFinite
  <2>2. PICK k \in OpenOnGithub : Rank(k) = j
    BY <2>1, RankOnto
  <2>3. k \in Page(p)
    BY <1>3, <2>1, <2>2
  <2> QED
    BY <2>2, <2>3
<1>7. f \in Surjection(Page(p), full)
  BY <1>5, <1>6 DEF Surjection
<1>8. Cardinality(full) = PageSize
  BY <1>1, FS_Interval
<1> HIDE DEF full, f
<1>9. Cardinality(full) <= Cardinality(Page(p))
  BY <1>2, <1>7, FS_Surjection
<1> QED
  BY <1>1, <1>2, <1>8, <1>9, FS_CardinalityType

-----------------------------------------------------------------------------
(* The steps.                                                                *)

LEMMA InitInv == Init => IInv
<1> SUFFICES ASSUME Init PROVE IInv
  OBVIOUS
<1>1. PICK born \in 0..NumPrs : \E done \in SUBSET Prs :
        github = [n \in Prs |-> IF n > born THEN "unborn"
                                ELSE IF n \in done THEN "closed" ELSE "open"]
  BY DEF Init
<1>2. PICK done \in SUBSET Prs :
        github = [n \in Prs |-> IF n > born THEN "unborn"
                                ELSE IF n \in done THEN "closed" ELSE "open"]
  BY <1>1
<1>3. github \in [Prs -> {"unborn", "open", "closed"}]
  BY <1>2
<1>4. /\ sync = [s \in Syncers |-> IdleSync] /\ changes = 0 /\ failures = 0
      /\ clash = FALSE /\ fresh = FALSE
  BY DEF Init
<1>5. /\ IdleSync \in Sync /\ IdleSync.pc = "idle" /\ IdleSync.existing = {}
      /\ IdleSync.page = 1 /\ \A n \in Prs : IdleSync.got[n] = 0
  BY DEF IdleSync, Sync
<1>6. prs = {} \/ (1 \in Prs /\ prs = {AgentRow})
  BY DEF Init, Prs
<1>7. prs \subseteq Row /\ IsFiniteSet(prs)
  <2>1. 1 \in Prs => AgentRow \in Row
    BY DEF AgentRow, Row
  <2>2. IsFiniteSet({}) /\ IsFiniteSet({AgentRow})
    BY FS_EmptySet, FS_Singleton
  <2> QED
    BY <1>6, <2>1, <2>2
<1>8. TypeOK
  <2>1. changes \in 0..MaxChanges /\ failures \in 0..MaxFailures
    BY <1>4
  <2>2. sync \in [Syncers -> Sync]
    BY <1>4, <1>5
  <2>3. \A s \in Syncers : \A r1, r2 \in sync[s].existing : r1.num = r2.num => r1 = r2
    BY <1>4, <1>5
  <2> QED
    BY <1>3, <1>4, <1>7, <2>1, <2>2, <2>3 DEF TypeOK
<1>9. PagesCounted
  BY <1>4, <1>5 DEF PagesCounted, Fetched
<1>10. AgentRowAlone
  BY <1>4, <1>5, <1>6 DEF AgentRowAlone
<1>11. Undisturbed
  BY <1>4, <1>5, <1>6 DEF Undisturbed, OneRowEach
<1> QED
  BY <1>7, <1>8, <1>9, <1>10, <1>11 DEF IInv

\* What the type says of a caller.
LEMMA SyncTyped ==
  ASSUME IInv, NEW s \in Syncers
  PROVE  /\ sync[s] \in Sync /\ sync[s].page \in 1..MaxPages /\ sync[s].page \in Nat \ {0}
         /\ sync[s].got \in [Prs -> 0..MaxPages] /\ sync[s].existing \subseteq Row
         /\ \A n \in Prs : sync[s].got[n] \in Nat
<1>1. sync[s] \in Sync
  BY DEF IInv, TypeOK
<1>2. /\ sync[s].page \in 1..MaxPages
      /\ sync[s].got \in [Prs -> 0..MaxPages] /\ sync[s].existing \subseteq Row
  BY <1>1 DEF Sync
<1> QED
  BY <1>1, <1>2

LEMMA GithubInv ==
  ASSUME IInv, NEW n \in Prs, NEW status \in {"open", "closed"}, GithubChanges(n, status)
  PROVE  IInv'
<1>1. /\ github' \in [Prs -> {"unborn", "open", "closed"}]
      /\ changes' = changes + 1 /\ changes < MaxChanges
      /\ clash' = (clash \/ \E s \in Syncers : sync[s].pc # "idle")
      /\ fresh' = FALSE /\ UNCHANGED <<prs, sync, failures>>
  BY DEF GithubChanges, IInv, TypeOK
<1>2. TypeOK'
  <2>1. changes' \in 0..MaxChanges
    BY <1>1 DEF IInv, TypeOK
  <2>2. clash' \in BOOLEAN /\ fresh' \in BOOLEAN
    BY <1>1 DEF IInv, TypeOK
  <2> QED
    BY <1>1, <2>1, <2>2 DEF IInv, TypeOK
<1>3. PagesCounted' /\ AgentRowAlone' /\ IsFiniteSet(prs)'
  BY <1>1 DEF IInv, PagesCounted, Fetched, AgentRowAlone
<1>4. Undisturbed'
  BY <1>1 DEF IInv, Undisturbed, OneRowEach
<1> QED
  BY <1>2, <1>3, <1>4 DEF IInv

\* While GitHub stands still, so does the listing.
LEMMA ListingStill ==
  ASSUME github' = github
  PROVE  /\ OpenOnGithub' = OpenOnGithub /\ Listed' = Listed
         /\ \A n, p : InPages(n, p)' = InPages(n, p)
  BY DEF OpenOnGithub, Listed, InPages, Rank

\* A step of caller s alone, on GitHub nothing and of the rows nothing.
LEMMA CallerStep ==
  ASSUME IInv, NEW s \in Syncers, NEW v \in Sync, sync' = [sync EXCEPT ![s] = v],
         UNCHANGED <<github, prs, changes, fresh>>, failures' \in 0..MaxFailures,
         clash' \in BOOLEAN, ~clash' => ~clash,
         \A r1, r2 \in v.existing : r1.num = r2.num => r1 = r2,
         v.pc = "idle" => v = IdleSync,
         \A n \in Prs : v.got[n] <= IF v.pc = "fetch" THEN v.page - 1 ELSE v.page,
         v.existing \subseteq prs \/ v.existing \subseteq sync[s].existing,
         ~clash' /\ v.pc # "idle" => Alone(s)',
         ~clash' => \A o \in Syncers \ {s} : sync[o].pc = "idle"
  PROVE  IInv'
<1>1. /\ sync' \in [Syncers -> Sync] /\ sync'[s] = v
      /\ \A o \in Syncers \ {s} : sync'[o] = sync[o]
  BY DEF IInv, TypeOK
<1>2. TypeOK'
  BY <1>1 DEF IInv, TypeOK
<1>3. PagesCounted'
  BY <1>1 DEF IInv, PagesCounted, Fetched
<1>4. AgentRowAlone'
  <2>1. CASE \A r \in prs : ~r.agent
    BY <2>1 DEF AgentRowAlone
  <2>2. CASE /\ AgentRow \in prs
             /\ \A r \in prs : r.agent \/ Key(r) = Key(AgentRow) => r = AgentRow
             /\ \A o \in Syncers : \A e \in sync[o].existing : Key(e) = Key(AgentRow) => e = AgentRow
    <3>1. ASSUME NEW o \in Syncers, NEW e \in sync'[o].existing, Key(e) = Key(AgentRow)
          PROVE  e = AgentRow
      <4>1. CASE o = s
        BY <1>1, <2>2, <3>1, <4>1
      <4>2. CASE o # s
        BY <1>1, <2>2, <3>1, <4>2
      <4> QED
        BY <4>1, <4>2
    <3> QED
      BY <2>2, <3>1 DEF AgentRowAlone, Key
  <2> QED
    BY <2>1, <2>2 DEF IInv, AgentRowAlone
<1>5. Undisturbed'
  <2> SUFFICES ASSUME ~clash' PROVE OneRowEach' /\ (\A o \in Syncers : sync'[o].pc # "idle" => Alone(o)')
                                    /\ (fresh' => CountsTrue')
    BY DEF Undisturbed
  <2>1. OneRowEach' /\ (fresh' => CountsTrue')
    BY ListingStill DEF IInv, Undisturbed, OneRowEach, CountsTrue, OpenRows, AgentPrs
  <2>2. ASSUME NEW o \in Syncers, sync'[o].pc # "idle" PROVE Alone(o)'
    BY <1>1, <2>2
  <2> QED
    BY <2>1, <2>2
<1> QED
  BY <1>2, <1>3, <1>4, <1>5 DEF IInv

LEMMA StartInv == ASSUME IInv, NEW s \in Syncers, Start(s) PROVE IInv'
<1>1. sync[s].pc = "idle" /\ sync[s] = IdleSync
  BY DEF IInv, PagesCounted, Start
<1>2. PICK v : v = [sync[s] EXCEPT !.pc = "fetch"]
  OBVIOUS
<1>3. /\ v \in Sync /\ v.pc = "fetch" /\ v.page = 1 /\ v.existing = {}
      /\ \A n \in Prs : v.got[n] = 0
  BY <1>1, <1>2 DEF IdleSync, Sync
<1>4. /\ sync' = [sync EXCEPT ![s] = v]
      /\ clash' = (clash \/ \E o \in Syncers \ {s} : sync[o].pc # "idle")
      /\ UNCHANGED <<github, prs, changes, failures, fresh>>
  BY <1>2 DEF Start
<1>5. /\ failures' \in 0..MaxFailures /\ clash' \in BOOLEAN
      /\ sync'[s] = v /\ \A o \in Syncers \ {s} : sync'[o] = sync[o]
  <2>1. failures' \in 0..MaxFailures
    BY <1>4 DEF IInv, TypeOK
  <2> QED
    BY <1>4, <2>1 DEF IInv, TypeOK
<1>6. ASSUME NEW n \in Prs PROVE ~ InPages(n, v.page - 1)
  <2>1. v.page - 1 = 0 /\ 0 * PageSize = 0
    BY <1>3
  <2> QED
    BY <2>1, RankBelow DEF InPages
<1>7. ASSUME ~clash'
      PROVE  Alone(s)' /\ ~clash /\ \A o \in Syncers \ {s} : sync[o].pc = "idle"
  <2>1. ~clash /\ \A o \in Syncers \ {s} : sync[o].pc = "idle"
    BY <1>4, <1>7
  <2>2. \A o \in Syncers \ {s} : sync'[o].pc = "idle"
    BY <1>5, <2>1
  <2>3. PICK p : p = v.page - 1
    OBVIOUS
  <2>4. \A n \in Prs : v.got[n] = IF InPages(n, p)' THEN 1 ELSE 0
    BY <1>3, <1>4, <1>6, <2>3, ListingStill
  <2> QED
    BY <1>3, <1>5, <2>1, <2>2, <2>3, <2>4 DEF Alone
<1>8. \A n \in Prs : v.got[n] <= IF v.pc = "fetch" THEN v.page - 1 ELSE v.page
  BY <1>3
<1>9. \A r1, r2 \in v.existing : r1.num = r2.num => r1 = r2
  BY <1>3
<1>10. v.existing \subseteq prs /\ v.pc # "idle"
  BY <1>3
<1> QED
  BY <1>3, <1>4, <1>5, <1>7, <1>8, <1>9, <1>10, CallerStep

\* A caller's record with three fields replaced.
LEMMA SyncReplaced ==
  ASSUME NEW x \in Sync, NEW g, NEW p, NEW c, NEW v,
         v = [x EXCEPT !.got = g, !.page = p, !.pc = c]
  PROVE  v = [pc |-> c, page |-> p, got |-> g, existing |-> x.existing]
<1>1. x = [pc |-> x.pc, page |-> x.page, got |-> x.got, existing |-> x.existing]
  BY DEF Sync
<1>2. PICK a : a = [x EXCEPT !.got = g]
  OBVIOUS
<1>3. a = [pc |-> x.pc, page |-> x.page, got |-> g, existing |-> x.existing]
  BY <1>1, <1>2
<1>4. PICK b : b = [a EXCEPT !.page = p]
  OBVIOUS
<1>5. b = [pc |-> x.pc, page |-> p, got |-> g, existing |-> x.existing]
  BY <1>3, <1>4
<1>6. v = [b EXCEPT !.pc = c]
  BY <1>2, <1>4
<1> QED
  BY <1>5, <1>6

LEMMA FetchPageInv == ASSUME IInv, NEW s \in Syncers, FetchPage(s) PROVE IInv'
<1>p. PICK p : p = sync[s].page
  OBVIOUS
<1>b. PICK batch : batch = Page(p)
  OBVIOUS
<1> DEFINE last == Cardinality(batch) < PageSize \/ p = MaxPages
<1>x. PICK x \in Sync : x = sync[s]
  BY SyncTyped
<1>g. PICK g : g = [n \in Prs |-> IF n \in batch THEN x.got[n] + 1 ELSE x.got[n]]
  OBVIOUS
<1>q. PICK q : q = IF last THEN p ELSE p + 1
  OBVIOUS
<1>c. PICK c : c = IF last THEN "read" ELSE "fetch"
  OBVIOUS
<1>v. PICK v : v = [x EXCEPT !.got = g, !.page = q, !.pc = c]
  OBVIOUS
<1>1. /\ sync[s].pc = "fetch"
      /\ sync' = [sync EXCEPT ![s] = v]
      /\ UNCHANGED <<github, prs, changes, failures, clash, fresh>>
  <2>1. /\ sync[s].pc = "fetch"
        /\ UNCHANGED <<github, prs, changes, failures, clash, fresh>>
    BY DEF FetchPage
  <2>2. sync' = [sync EXCEPT
           ![s].got  = [n \in Prs |-> IF n \in batch THEN @[n] + 1 ELSE @[n]],
           ![s].page = IF last THEN @ ELSE @ + 1,
           ![s].pc   = IF last THEN "read" ELSE @]
    BY <1>p, <1>b DEF FetchPage
  <2> QED
    BY <1>p, <1>x, <1>g, <1>q, <1>c, <1>v, <2>1, <2>2
<1>2. /\ sync[s] \in Sync /\ p \in 1..MaxPages /\ p \in Nat \ {0} /\ sync[s].got \in [Prs -> 0..MaxPages]
      /\ \A n \in Prs : sync[s].got[n] \in Nat /\ sync[s].got[n] <= p - 1
  BY <1>p, <1>1, SyncTyped DEF IInv, PagesCounted, Fetched
<1>3. /\ v.pc = IF last THEN "read" ELSE "fetch"
      /\ v.page = IF last THEN p ELSE p + 1
      /\ v.existing = sync[s].existing
      /\ v.got = [n \in Prs |-> IF n \in batch THEN sync[s].got[n] + 1 ELSE sync[s].got[n]]
      /\ v = [pc |-> v.pc, page |-> v.page, got |-> v.got, existing |-> v.existing]
  <2>1. v = [pc |-> c, page |-> q, got |-> g, existing |-> x.existing]
    BY <1>v, SyncReplaced
  <2> QED
    BY <1>x, <1>g, <1>q, <1>c, <2>1
<1>4. \A n \in Prs : v.got[n] = IF n \in batch THEN sync[s].got[n] + 1 ELSE sync[s].got[n]
  BY <1>3
<1>5. \A n \in Prs : v.got[n] \in Nat /\ v.got[n] <= p
  BY <1>2, <1>4
<1>6. v \in Sync
  <2>1. v.got \in [Prs -> 0..MaxPages]
    BY <1>2, <1>3, <1>4, <1>5
  <2>2. v.page \in 1..MaxPages /\ v.pc \in {"fetch", "read"}
    <3>1. p + 1 \in 1..MaxPages \/ last
      BY <1>2
    <3> QED
      BY <1>2, <1>3, <3>1
  <2>3. v = [pc |-> v.pc, page |-> v.page, got |-> v.got, existing |-> v.existing]
    BY <1>3
  <2>4. v.existing \in SUBSET Row
    BY <1>2, <1>3 DEF Sync
  <2> QED
    BY <2>1, <2>2, <2>3, <2>4 DEF Sync
<1>7. /\ sync'[s] = v /\ \A o \in Syncers \ {s} : sync'[o] = sync[o]
      /\ failures' \in 0..MaxFailures /\ clash' \in BOOLEAN
      /\ \A r1, r2 \in v.existing : r1.num = r2.num => r1 = r2
  BY <1>1, <1>3 DEF IInv, TypeOK
<1>8. \A n \in Prs : v.got[n] <= IF v.pc = "fetch" THEN v.page - 1 ELSE v.page
  BY <1>2, <1>3, <1>5
<1>9. ASSUME ~clash
      PROVE  /\ \A o \in Syncers \ {s} : sync[o].pc = "idle"
             /\ \A n \in Prs : v.got[n] = IF InPages(n, p) THEN 1 ELSE 0
  <2>1. Alone(s)
    BY <1>1, <1>9 DEF IInv, Undisturbed
  <2>2. ASSUME NEW n \in Prs PROVE v.got[n] = IF InPages(n, p) THEN 1 ELSE 0
    <3>1. sync[s].got[n] = IF InPages(n, p - 1) THEN 1 ELSE 0
      BY <1>p, <1>1, <2>1 DEF Alone
    <3>2. CASE n \notin OpenOnGithub
      BY <1>b, <1>4, <1>2, <3>1, <3>2 DEF InPages, Page
    <3>3. CASE n \in OpenOnGithub
      <4>1. n \in batch <=> (p - 1) * PageSize <= Rank(n) /\ Rank(n) < p * PageSize
        BY <1>b, <1>2, <3>3, PageRanks
      <4>2. InPages(n, p) <=> Rank(n) < p * PageSize
        BY <3>3 DEF InPages
      <4>3. InPages(n, p - 1) <=> Rank(n) < (p - 1) * PageSize
        BY <3>3 DEF InPages
      <4>4. p * PageSize = (p - 1) * PageSize + PageSize /\ (p - 1) * PageSize \in Nat
        BY <1>2
      <4>5. Rank(n) \in Nat
        BY <3>3, RankBelow
      <4>6. n \in batch <=> InPages(n, p) /\ ~ InPages(n, p - 1)
        BY <4>1, <4>2, <4>3, <4>4, <4>5
      <4>7. InPages(n, p - 1) => InPages(n, p)
        BY <4>2, <4>3, <4>4, <4>5
      <4> QED
        BY <1>4, <3>1, <4>6, <4>7
    <3> QED
      BY <3>2, <3>3
  <2> QED
    BY <2>1, <2>2 DEF Alone
<1>10. ASSUME last, NEW n \in Prs PROVE InPages(n, p) <=> n \in Listed
  <2>1. CASE p = MaxPages
    <3>1. PageSize * MaxPages = p * PageSize
      BY <2>1
    <3> QED
      BY <3>1 DEF InPages, Listed
  <2>2. CASE Cardinality(batch) < PageSize
    <3>1. \A k \in OpenOnGithub : Rank(k) < p * PageSize
      BY <1>b, <1>2, <2>2, ShortPageLast
    <3>2. p * PageSize <= PageSize * MaxPages /\ p * PageSize \in Nat /\ PageSize * MaxPages \in Nat
      BY <1>2
    <3>3. \A k \in OpenOnGithub : Rank(k) < PageSize * MaxPages
      BY <3>1, <3>2, RankBelow
    <3> QED
      BY <3>1, <3>3 DEF InPages, Listed
  <2> QED
    BY <1>10, <2>1, <2>2
<1>11. ASSUME ~clash' PROVE Alone(s)'
  <2>1. /\ \A o \in Syncers \ {s} : sync'[o].pc = "idle"
        /\ \A n \in Prs : v.got[n] = IF InPages(n, p) THEN 1 ELSE 0
    BY <1>1, <1>7, <1>9, <1>11
  <2>2. CASE last
    <3>1. \A n \in Prs : v.got[n] = IF n \in Listed' THEN 1 ELSE 0
      BY <1>1, <1>10, <2>1, <2>2, ListingStill
    <3>2. v.pc = "read"
      BY <1>3, <2>2
    <3> QED
      BY <1>7, <2>1, <3>1, <3>2 DEF Alone
  <2>3. CASE ~last
    <3>1. v.pc = "fetch" /\ v.page - 1 = p
      BY <1>2, <1>3, <2>3
    <3>2. \A n \in Prs : v.got[n] = IF InPages(n, p)' THEN 1 ELSE 0
      BY <1>1, <2>1, ListingStill
    <3> QED
      BY <1>7, <2>1, <3>1, <3>2 DEF Alone
  <2> QED
    BY <2>2, <2>3
<1> QED
  BY <1>1, <1>3, <1>6, <1>7, <1>8, <1>9, <1>11, CallerStep

LEMMA FetchFailsInv == ASSUME IInv, NEW s \in Syncers, FetchFails(s) PROVE IInv'
<1>1. PICK v : v = IdleSync
  OBVIOUS
<1>2. /\ v \in Sync /\ v.pc = "idle" /\ v.page = 1 /\ v.existing = {}
      /\ \A n \in Prs : v.got[n] = 0
  BY <1>1 DEF IdleSync, Sync
<1>3. /\ sync[s].pc = "fetch" /\ sync' = [sync EXCEPT ![s] = v]
      /\ UNCHANGED <<github, prs, changes, clash, fresh>>
  BY <1>1 DEF FetchFails
<1>4. failures' \in 0..MaxFailures
  BY DEF FetchFails, IInv, TypeOK
<1>5. clash' \in BOOLEAN
  BY <1>3 DEF IInv, TypeOK
<1>6. ~clash' => ~clash /\ \A o \in Syncers \ {s} : sync[o].pc = "idle"
  BY <1>3 DEF IInv, Undisturbed, Alone
<1>7. \A n \in Prs : v.got[n] <= IF v.pc = "fetch" THEN v.page - 1 ELSE v.page
  BY <1>2
<1>8. /\ \A r1, r2 \in v.existing : r1.num = r2.num => r1 = r2
      /\ v.existing \subseteq prs
  BY <1>2
<1> QED
  BY <1>1, <1>2, <1>3, <1>4, <1>5, <1>6, <1>7, <1>8, CallerStep

LEMMA ReadRowsInv == ASSUME IInv, NEW s \in Syncers, ReadRows(s) PROVE IInv'
<1>1. PICK row \in [KnownPrs -> prs] :
        /\ \A n \in KnownPrs : row[n] \in RowsOf(n)
        /\ sync' = [sync EXCEPT ![s].pc = "commit",
                                ![s].existing = {row[n] : n \in KnownPrs}]
  BY DEF ReadRows
<1>2. /\ sync[s].pc = "read"
      /\ UNCHANGED <<github, prs, changes, failures, clash, fresh>>
  BY DEF ReadRows
<1>3. PICK found : found = {row[n] : n \in KnownPrs}
  OBVIOUS
<1>4. \A n \in KnownPrs : row[n] \in prs /\ row[n].num = n
  BY <1>1 DEF RowsOf
<1>5. found \subseteq prs /\ \A r1, r2 \in found : r1.num = r2.num => r1 = r2
  BY <1>3, <1>4
<1>6. found \subseteq Row
  BY <1>5 DEF IInv, TypeOK
<1>7. ASSUME OneRowEach PROVE found = prs
  <2> SUFFICES ASSUME NEW r \in prs PROVE r \in found
    BY <1>5
  <2>1. r.num \in KnownPrs
    BY DEF KnownPrs
  <2>2. row[r.num] = r
    BY <1>4, <1>7, <2>1 DEF OneRowEach
  <2> QED
    BY <1>3, <2>1, <2>2
<1>8. PICK x \in Sync : x = sync[s]
  BY SyncTyped
<1>9. PICK v : v = [x EXCEPT !.pc = "commit", !.existing = found]
  OBVIOUS
<1>10. v = [pc |-> "commit", page |-> x.page, got |-> x.got, existing |-> found]
  <2>1. x = [pc |-> x.pc, page |-> x.page, got |-> x.got, existing |-> x.existing]
    BY DEF Sync
  <2>2. PICK a : a = [x EXCEPT !.pc = "commit"]
    OBVIOUS
  <2>3. a = [pc |-> "commit", page |-> x.page, got |-> x.got, existing |-> x.existing]
    BY <2>1, <2>2
  <2>4. v = [a EXCEPT !.existing = found]
    BY <1>9, <2>2
  <2> QED
    BY <2>3, <2>4
<1>11. /\ v.pc = "commit" /\ v.page = sync[s].page /\ v.got = sync[s].got /\ v.existing = found
       /\ v \in Sync
  BY <1>6, <1>8, <1>10 DEF Sync
<1>12. sync' = [sync EXCEPT ![s] = v]
  BY <1>1, <1>3, <1>8, <1>9
<1>13. /\ failures' \in 0..MaxFailures /\ clash' \in BOOLEAN
       /\ sync'[s] = v /\ \A o \in Syncers \ {s} : sync'[o] = sync[o]
  BY <1>2, <1>12 DEF IInv, TypeOK
<1>14. \A n \in Prs : v.got[n] <= IF v.pc = "fetch" THEN v.page - 1 ELSE v.page
  BY <1>2, <1>11 DEF IInv, PagesCounted, Fetched
<1>15. ASSUME ~clash'
       PROVE  Alone(s)' /\ ~clash /\ \A o \in Syncers \ {s} : sync[o].pc = "idle"
  <2>1. ~clash /\ Alone(s) /\ OneRowEach
    BY <1>2, <1>15 DEF IInv, Undisturbed
  <2>2. /\ \A o \in Syncers \ {s} : sync[o].pc = "idle"
        /\ \A n \in Prs : v.got[n] = IF n \in Listed THEN 1 ELSE 0
    BY <1>2, <1>11, <2>1 DEF Alone
  <2>3. \A n \in Prs : v.got[n] = IF n \in Listed' THEN 1 ELSE 0
    BY <1>2, <2>2, ListingStill
  <2>4. v.existing = prs'
    BY <1>2, <1>7, <1>11, <2>1
  <2> QED
    BY <1>11, <1>13, <2>1, <2>2, <2>3, <2>4 DEF Alone
<1> QED
  BY <1>2, <1>5, <1>11, <1>12, <1>13, <1>14, <1>15, CallerStep

LEMMA ImageFinite ==
  ASSUME NEW S, IsFiniteSet(S), NEW g
  PROVE  IsFiniteSet({g[x] : x \in S})
<1> DEFINE T == {g[x] : x \in S}
           f == [x \in S |-> g[x]]
<1>1. f \in Surjection(S, T)
  BY DEF Surjection
<1> HIDE DEF T, f
<1>2. IsFiniteSet(T)
  BY <1>1, FS_Surjection
<1> QED
  BY <1>2 DEF T

\* Rows the reconciliation adds: of numbers it did not find, none the agent's, none with the
\* key of a row there is.
LEMMA AddedRows ==
  ASSUME IInv, NEW s \in Syncers
  PROVE  /\ IsFiniteSet(Added(s)) /\ Added(s) \subseteq Row
         /\ \A a \in Added(s) :
              /\ a.open /\ ~a.agent /\ \A e \in sync[s].existing : e.num # a.num
              /\ \E k \in 1..sync[s].got[a.num] : a.copy = Cardinality(RowsOf(a.num)) + k
         /\ \A n \in Prs : sync[s].got[n] > 0 /\ (\A e \in sync[s].existing : e.num # n)
              => \E a \in Added(s) : a.num = n
<1> DEFINE new == {n \in Prs : \A r \in sync[s].existing : r.num # n}
           row(n, k) == [num |-> n, copy |-> Cardinality(RowsOf(n)) + k, open |-> TRUE, agent |-> FALSE]
           pairs == Prs \X (1..MaxPages)
           g == [d \in pairs |-> row(d[1], d[2])]
<1>1. Added(s) = UNION {{row(n, k) : k \in 1..sync[s].got[n]} : n \in new}
  BY DEF Added
<1>2. \A n \in Prs : sync[s].got[n] \in 0..MaxPages /\ sync[s].got[n] \in Nat
  BY SyncTyped
<1>3. \A n \in Prs : Cardinality(RowsOf(n)) \in Nat
  <2> SUFFICES ASSUME NEW n \in Prs PROVE Cardinality(RowsOf(n)) \in Nat
    OBVIOUS
  <2>1. RowsOf(n) \subseteq prs /\ IsFiniteSet(prs)
    BY DEF RowsOf, IInv
  <2> QED
    BY <2>1, FS_Subset, FS_CardinalityType
<1>4. \A n \in Prs : \A k \in 1..sync[s].got[n] :
        /\ row(n, k) \in Row /\ k \in 1..MaxPages /\ row(n, k).num = n
        /\ row(n, k).copy = Cardinality(RowsOf(n)) + k
  <2> SUFFICES ASSUME NEW n \in Prs, NEW k \in 1..sync[s].got[n]
               PROVE  /\ row(n, k) \in Row /\ k \in 1..MaxPages /\ row(n, k).num = n
                      /\ row(n, k).copy = Cardinality(RowsOf(n)) + k
    OBVIOUS
  <2>1. k \in 1..MaxPages /\ Cardinality(RowsOf(n)) + k \in Nat \ {0}
    BY <1>2, <1>3
  <2> QED
    BY <2>1 DEF Row
<1>5. ASSUME NEW a \in Added(s)
      PROVE  \E n \in new : \E k \in 1..sync[s].got[n] : a = row(n, k)
  BY <1>1, <1>5
<1>6. Added(s) \subseteq Row
  BY <1>4, <1>5
<1>7. IsFiniteSet(Added(s))
  <2>1. IsFiniteSet(pairs)
    <3>1. IsFiniteSet(1..MaxPages) /\ IsFiniteSet(Prs)
      BY FS_Interval, OpenFinite
    <3> QED
      BY <3>1, FS_Product
  <2>2. IsFiniteSet({g[d] : d \in pairs})
    <3> HIDE DEF pairs, g
    <3> QED
      BY <2>1, ImageFinite
  <2>3. Added(s) \subseteq {g[d] : d \in pairs}
    <3> SUFFICES ASSUME NEW a \in Added(s) PROVE \E d \in pairs : a = g[d]
      OBVIOUS
    <3>1. PICK n \in new : \E k \in 1..sync[s].got[n] : a = row(n, k)
      BY <1>5
    <3>2. PICK k \in 1..sync[s].got[n] : a = row(n, k)
      BY <3>1
    <3>3. <<n, k>> \in pairs /\ g[<<n, k>>] = row(n, k)
      BY <1>4
    <3> QED
      BY <3>2, <3>3
  <2> QED
    BY <2>2, <2>3, FS_Subset
<1>8. ASSUME NEW a \in Added(s)
      PROVE  /\ a.open /\ ~a.agent /\ \A e \in sync[s].existing : e.num # a.num
             /\ \E k \in 1..sync[s].got[a.num] : a.copy = Cardinality(RowsOf(a.num)) + k
  <2>1. PICK n \in new : \E k \in 1..sync[s].got[n] : a = row(n, k)
    BY <1>5
  <2>2. PICK k \in 1..sync[s].got[n] : a = row(n, k)
    BY <2>1
  <2>3. a.num = n /\ a.copy = Cardinality(RowsOf(n)) + k /\ a.open = TRUE /\ a.agent = FALSE
    BY <2>2
  <2> QED
    BY <2>3
<1>9. ASSUME NEW n \in Prs, sync[s].got[n] > 0, \A e \in sync[s].existing : e.num # n
      PROVE  \E a \in Added(s) : a.num = n
  <2>1. n \in new /\ 1 \in 1..sync[s].got[n]
    BY <1>2, <1>9
  <2>2. row(n, 1).num = n
    OBVIOUS
  <2>3. row(n, 1) \in {row(n, k) : k \in 1..sync[s].got[n]}
    BY <2>1
  <2>4. row(n, 1) \in Added(s)
    <3> HIDE DEF row
    <3> QED
      BY <1>1, <2>1, <2>3
  <2> QED
    BY <2>2, <2>4
<1> QED
  BY <1>6, <1>7, <1>8, <1>9

\* What reconcile_prs makes of a row that is there: only its state may change.
Reconciled(s, r) == [r EXCEPT !.open = IF Key(r) \in Reopened(s) THEN TRUE
                                       ELSE IF Key(r) \in Closed(s) THEN FALSE
                                       ELSE @]

LEMMA ReconciledRow ==
  ASSUME IInv, NEW s \in Syncers, NEW r \in prs
  PROVE  /\ Reconciled(s, r) \in Row
         /\ Reconciled(s, r).num = r.num /\ Reconciled(s, r).copy = r.copy
         /\ Reconciled(s, r).agent = r.agent
         /\ Reconciled(s, r).open <=>
              Key(r) \in Reopened(s) \/ (Key(r) \notin Closed(s) /\ r.open)
         /\ (Reconciled(s, r).open <=> r.open) => Reconciled(s, r) = r
<1>1. r \in Row
  BY DEF IInv, TypeOK
<1>2. PICK b \in BOOLEAN : b = IF Key(r) \in Reopened(s) THEN TRUE
                               ELSE IF Key(r) \in Closed(s) THEN FALSE ELSE r.open
  BY <1>1 DEF Row
<1>3. Reconciled(s, r) = [r EXCEPT !.open = b]
  BY <1>2 DEF Reconciled
<1>4. Reconciled(s, r) = [num |-> r.num, copy |-> r.copy, open |-> b, agent |-> r.agent]
  BY <1>1, <1>3 DEF Row
<1>5. r = [num |-> r.num, copy |-> r.copy, open |-> r.open, agent |-> r.agent]
  BY <1>1 DEF Row
<1>6. r.num \in Prs /\ r.copy \in Nat \ {0} /\ r.open \in BOOLEAN /\ r.agent \in BOOLEAN
  BY <1>1 DEF Row
<1>7. Reconciled(s, r).open = b /\ (b <=> Key(r) \in Reopened(s) \/ (Key(r) \notin Closed(s) /\ r.open))
  BY <1>2, <1>4
<1>8. Reconciled(s, r) \in Row
  BY <1>4, <1>6 DEF Row
<1>9. /\ Reconciled(s, r).num = r.num /\ Reconciled(s, r).copy = r.copy
      /\ Reconciled(s, r).agent = r.agent
  BY <1>4
<1>10. (b <=> r.open) => Reconciled(s, r) = r
  <2>1. (b <=> r.open) => b = r.open
    BY <1>6
  <2> QED
    BY <1>4, <1>5, <2>1
<1> QED
  BY <1>7, <1>8, <1>9, <1>10

LEMMA CommitInv == ASSUME IInv, NEW s \in Syncers, Commit(s) PROVE IInv'
<1>1. /\ sync[s].pc = "commit" /\ sync' = [sync EXCEPT ![s] = IdleSync]
      /\ fresh' = TRUE /\ UNCHANGED <<github, changes, failures, clash>>
  BY DEF Commit
<1>2. PICK new : new = Added(s)
  OBVIOUS
<1>3. PICK f : f = [r \in prs |-> Reconciled(s, r)]
  OBVIOUS
<1>4. prs' = {f[r] : r \in prs} \cup new
  <2>1. prs' = {Reconciled(s, r) : r \in prs} \cup new
    BY <1>2 DEF Commit, Reconciled
  <2> QED
    BY <1>3, <2>1
<1>5. ASSUME NEW r \in prs
      PROVE  /\ f[r] \in Row
             /\ f[r].num = r.num /\ f[r].copy = r.copy /\ f[r].agent = r.agent
             /\ f[r].open <=> Key(r) \in Reopened(s) \/ (Key(r) \notin Closed(s) /\ r.open)
             /\ (f[r].open <=> r.open) => f[r] = r
  BY <1>3, ReconciledRow
<1>6. /\ IsFiniteSet(new) /\ new \subseteq Row
      /\ \A a \in new :
           /\ a.open /\ ~a.agent /\ \A e \in sync[s].existing : e.num # a.num
           /\ \E k \in 1..sync[s].got[a.num] : a.copy = Cardinality(RowsOf(a.num)) + k
      /\ \A n \in Prs : sync[s].got[n] > 0 /\ (\A e \in sync[s].existing : e.num # n)
           => \E a \in new : a.num = n
  BY <1>2, AddedRows
<1>7. /\ IdleSync \in Sync /\ IdleSync.pc = "idle" /\ IdleSync.existing = {}
      /\ IdleSync.page = 1 /\ \A n \in Prs : IdleSync.got[n] = 0
  BY DEF IdleSync, Sync
<1>8. /\ sync' \in [Syncers -> Sync] /\ sync'[s] = IdleSync
      /\ \A o \in Syncers \ {s} : sync'[o] = sync[o]
  BY <1>1, <1>7 DEF IInv, TypeOK
<1>9. IsFiniteSet(prs')
  <2>1. IsFiniteSet({f[r] : r \in prs})
    BY ImageFinite DEF IInv
  <2> QED
    BY <1>4, <1>6, <2>1, FS_Union
<1>10. TypeOK'
  <2>1. prs' \subseteq Row
    BY <1>4, <1>5, <1>6
  <2>2. \A o \in Syncers : \A r1, r2 \in sync'[o].existing : r1.num = r2.num => r1 = r2
    BY <1>7, <1>8 DEF IInv, TypeOK
  <2>3. changes' \in 0..MaxChanges /\ failures' \in 0..MaxFailures
    BY <1>1 DEF IInv, TypeOK
  <2>4. github' \in [Prs -> {"unborn", "open", "closed"}] /\ clash' \in BOOLEAN /\ fresh' \in BOOLEAN
    BY <1>1 DEF IInv, TypeOK
  <2> QED
    BY <1>8, <2>1, <2>2, <2>3, <2>4 DEF TypeOK
<1>11. PagesCounted'
  <2>1. \A o \in Syncers : Fetched(o) = IF sync[o].pc = "fetch" THEN sync[o].page - 1 ELSE sync[o].page
    BY DEF Fetched
  <2>2. ASSUME NEW o \in Syncers
        PROVE  /\ sync'[o].pc = "idle" => sync'[o] = IdleSync
               /\ \A n \in Prs : sync'[o].got[n] <= Fetched(o)'
    <3>1. CASE o = s
      BY <1>7, <1>8, <3>1 DEF Fetched
    <3>2. CASE o # s
      BY <1>8, <3>2 DEF IInv, PagesCounted, Fetched
    <3> QED
      BY <3>1, <3>2
  <2> QED
    BY <2>2 DEF PagesCounted
<1>12. AgentRowAlone'
  <2>1. CASE \A r \in prs : ~r.agent
    <3>1. \A r \in prs' : ~r.agent
      BY <1>4, <1>5, <1>6, <2>1
    <3> QED
      BY <3>1 DEF AgentRowAlone
  <2>2. CASE /\ AgentRow \in prs
             /\ \A r \in prs : r.agent \/ Key(r) = Key(AgentRow) => r = AgentRow
             /\ \A o \in Syncers : \A e \in sync[o].existing : Key(e) = Key(AgentRow) => e = AgentRow
    <3>1. AgentRow.num = 1 /\ AgentRow.copy = 1 /\ AgentRow.open = TRUE /\ AgentRow.agent = TRUE
      BY DEF AgentRow
    <3>2. Key(AgentRow) \notin Closed(s)
      BY <2>2, <3>1 DEF Closed
    <3>3. f[AgentRow] = AgentRow
      BY <1>5, <2>2, <3>1, <3>2
    <3>4. AgentRow \in prs'
      BY <1>4, <2>2, <3>3
    <3>5. \A a \in new : Key(a) # Key(AgentRow)
      <4> SUFFICES ASSUME NEW a \in new, a.num = 1, a.copy = 1 PROVE FALSE
        BY <3>1 DEF Key
      <4>1. IsFiniteSet(RowsOf(1)) /\ AgentRow \in RowsOf(1)
        <5>1. RowsOf(1) \subseteq prs /\ AgentRow \in RowsOf(1)
          BY <2>2, <3>1 DEF RowsOf
        <5> QED
          BY <5>1, FS_Subset DEF IInv
      <4>2. Cardinality(RowsOf(1)) \in Nat /\ Cardinality(RowsOf(1)) # 0
        BY <4>1, FS_CardinalityType, FS_EmptySet
      <4>3. PICK k \in 1..sync[s].got[1] : a.copy = Cardinality(RowsOf(1)) + k
        BY <1>6
      <4>4. k \in Nat /\ k >= 1
        <5>1. 1 \in Prs
          BY <1>6 DEF Row
        <5>2. sync[s].got[1] \in Nat
          BY <5>1, SyncTyped
        <5> QED
          BY <5>2
      <4> QED
        BY <4>2, <4>3, <4>4
    <3>6. \A r \in prs' : r.agent \/ Key(r) = Key(AgentRow) => r = AgentRow
      <4> SUFFICES ASSUME NEW r \in prs', r.agent \/ Key(r) = Key(AgentRow) PROVE r = AgentRow
        OBVIOUS
      <4>1. r \notin new
        BY <1>6, <3>5
      <4>2. PICK q \in prs : r = f[q]
        BY <1>4, <4>1
      <4>3. q.agent \/ Key(q) = Key(AgentRow)
        BY <1>5, <4>2 DEF Key
      <4> QED
        BY <2>2, <3>3, <4>2, <4>3
    <3>7. \A o \in Syncers : \A e \in sync'[o].existing : Key(e) = Key(AgentRow) => e = AgentRow
      BY <1>7, <1>8, <2>2
    <3> QED
      BY <3>4, <3>6, <3>7 DEF AgentRowAlone, Key
  <2> QED
    BY <2>1, <2>2 DEF IInv, AgentRowAlone
<1>13. Undisturbed'
  <2> SUFFICES ASSUME ~clash
               PROVE  /\ OneRowEach' /\ CountsTrue'
                      /\ \A o \in Syncers : sync'[o].pc # "idle" => Alone(o)'
    BY <1>1 DEF Undisturbed
  <2>1. /\ OneRowEach /\ \A o \in Syncers \ {s} : sync[o].pc = "idle"
        /\ \A n \in Prs : sync[s].got[n] = IF n \in Listed THEN 1 ELSE 0
        /\ sync[s].existing = prs
    BY <1>1 DEF IInv, Undisturbed, Alone
  <2>2. \A o \in Syncers : sync'[o].pc = "idle"
    BY <1>7, <1>8, <2>1
  <2>3. prs \subseteq Row
    BY DEF IInv, TypeOK
  <2>4. \A r \in prs : r.num \in Prs /\ r.open \in BOOLEAN
    BY <2>3 DEF Row
  <2>5. \A a \in new : a.num \in Prs /\ a.copy = Cardinality(RowsOf(a.num)) + 1 /\ a.num \in Listed
    <3> SUFFICES ASSUME NEW a \in new
                 PROVE  a.num \in Prs /\ a.copy = Cardinality(RowsOf(a.num)) + 1 /\ a.num \in Listed
      OBVIOUS
    <3>1. a.num \in Prs
      BY <1>6 DEF Row
    <3>2. PICK k \in 1..sync[s].got[a.num] : a.copy = Cardinality(RowsOf(a.num)) + k
      BY <1>6
    <3>3. a.num \in Listed /\ k = 1
      <4>1. CASE a.num \in Listed
        BY <2>1, <3>1, <3>2, <4>1
      <4>2. CASE a.num \notin Listed
        <5>1. sync[s].got[a.num] = 0
          BY <2>1, <3>1, <4>2
        <5> QED
          BY <3>2, <5>1
      <4> QED
        BY <4>1, <4>2
    <3> QED
      BY <3>1, <3>2, <3>3
  <2>6. OneRowEach'
    <3> SUFFICES ASSUME NEW q1 \in prs', NEW q2 \in prs', q1.num = q2.num PROVE q1 = q2
      BY DEF OneRowEach
    <3>1. ASSUME NEW a \in new, NEW r \in prs PROVE a.num # r.num
      BY <1>6, <2>1
    <3>2. CASE q1 \in new /\ q2 \in new
      <4>1. q1 \in Row /\ q2 \in Row /\ q1.copy = q2.copy
        BY <1>6, <2>5, <3>2
      <4>2. q1.open \in BOOLEAN /\ q2.open \in BOOLEAN /\ q1.open = q2.open
        BY <1>6, <3>2, <4>1 DEF Row
      <4>3. q1.agent \in BOOLEAN /\ q2.agent \in BOOLEAN /\ q1.agent = q2.agent
        BY <1>6, <3>2, <4>1 DEF Row
      <4> QED
        BY <4>1, <4>2, <4>3 DEF Row
    <3>3. CASE q1 \notin new /\ q2 \notin new
      <4>1. PICK r1 \in prs : q1 = f[r1]
        BY <1>4, <3>3
      <4>2. PICK r2 \in prs : q2 = f[r2]
        BY <1>4, <3>3
      <4>3. r1.num = r2.num
        BY <1>5, <4>1, <4>2
      <4> QED
        BY <2>1, <4>1, <4>2, <4>3 DEF OneRowEach
    <3>4. CASE q1 \in new /\ q2 \notin new
      <4>1. PICK r \in prs : q2 = f[r]
        BY <1>4, <3>4
      <4> QED
        BY <1>5, <3>1, <3>4, <4>1
    <3>5. CASE q1 \notin new /\ q2 \in new
      <4>1. PICK r \in prs : q1 = f[r]
        BY <1>4, <3>5
      <4> QED
        BY <1>5, <3>1, <3>5, <4>1
    <3> QED
      BY <3>2, <3>3, <3>4, <3>5
  \* A row is open exactly when its number is listed, but for the agent's.
  <2>7. \A r \in prs : ~r.agent => (f[r].open <=> r.num \in Listed)
    <3> SUFFICES ASSUME NEW r \in prs, ~r.agent PROVE f[r].open <=> r.num \in Listed
      OBVIOUS
    <3>1. r \in sync[s].existing /\ r.num \in Prs
      BY <2>1, <2>4
    <3>2. \A e \in sync[s].existing : Key(e) = Key(r) => e = r
      BY <2>1 DEF Key, OneRowEach
    <3>3. Key(r) \in Reopened(s) <=> sync[s].got[r.num] > 0 /\ ~r.open
      BY <3>1, <3>2 DEF Reopened
    <3>4. Key(r) \in Closed(s) <=> sync[s].got[r.num] = 0 /\ r.open
      BY <3>1, <3>2 DEF Closed
    <3>5. CASE r.num \in Listed
      <4>1. sync[s].got[r.num] = 1
        BY <2>1, <3>1, <3>5
      <4> QED
        BY <1>5, <3>3, <3>4, <3>5, <4>1
    <3>6. CASE r.num \notin Listed
      <4>1. sync[s].got[r.num] = 0
        BY <2>1, <3>1, <3>6
      <4> QED
        BY <1>5, <3>3, <3>4, <3>6, <4>1
    <3> QED
      BY <3>5, <3>6
  <2>8. AgentPrs' = AgentPrs
    BY <1>4, <1>5, <1>6 DEF AgentPrs
  <2>9. Listed' = Listed /\ Listed \subseteq Prs
    BY <1>1, ListingStill, OpenFinite DEF Listed
  <2>10. ASSUME NEW n \in OpenRows', n \notin AgentPrs PROVE n \in Listed
    <3>1. PICK q \in prs' : q.open /\ q.num = n
      BY <2>10 DEF OpenRows
    <3>2. CASE q \in new
      BY <2>5, <3>1, <3>2
    <3>3. CASE q \notin new
      <4>1. PICK r \in prs : q = f[r]
        BY <1>4, <3>3
      <4>2. r.num = n /\ ~r.agent
        BY <1>5, <2>10, <3>1, <4>1 DEF AgentPrs
      <4> QED
        BY <2>7, <3>1, <4>1, <4>2
    <3> QED
      BY <3>2, <3>3
  <2>11. ASSUME NEW n \in Listed, n \notin AgentPrs PROVE n \in OpenRows'
    <3>1. n \in Prs /\ sync[s].got[n] > 0
      BY <2>1, <2>9
    <3>2. CASE \A e \in sync[s].existing : e.num # n
      <4>1. PICK a \in new : a.num = n
        BY <1>6, <3>1, <3>2
      <4> QED
        BY <1>4, <1>6, <4>1 DEF OpenRows
    <3>3. CASE \E e \in sync[s].existing : e.num = n
      <4>1. PICK r \in prs : r.num = n
        BY <2>1, <3>3
      <4>2. ~r.agent
        BY <2>11, <4>1 DEF AgentPrs
      <4>3. f[r] \in prs' /\ f[r].open /\ f[r].num = n
        BY <1>4, <1>5, <2>7, <4>1, <4>2
      <4> QED
        BY <4>3 DEF OpenRows
    <3> QED
      BY <3>2, <3>3
  <2>12. CountsTrue'
    BY <2>8, <2>9, <2>10, <2>11 DEF CountsTrue
  <2> QED
    BY <2>2, <2>6, <2>12
<1> QED
  BY <1>9, <1>10, <1>11, <1>12, <1>13 DEF IInv

LEMMA NextInv == IInv /\ [Next]_vars => IInv'
<1> SUFFICES ASSUME IInv, [Next]_vars PROVE IInv'
  OBVIOUS
<1>1. CASE Next
  <2>1. ASSUME NEW n \in Prs, OpenPr(n) PROVE IInv'
    BY <2>1, GithubInv DEF OpenPr
  <2>2. ASSUME NEW n \in Prs, ClosePr(n) PROVE IInv'
    BY <2>2, GithubInv DEF ClosePr
  <2>3. ASSUME NEW n \in Prs, ReopenPr(n) PROVE IInv'
    BY <2>3, GithubInv DEF ReopenPr
  <2>4. ASSUME NEW s \in Syncers, Start(s) PROVE IInv'
    BY <2>4, StartInv
  <2>5. ASSUME NEW s \in Syncers, SyncStep(s) PROVE IInv'
    BY <2>5, FetchPageInv, FetchFailsInv, ReadRowsInv, CommitInv DEF SyncStep
  <2> QED
    BY <1>1, <2>1, <2>2, <2>3, <2>4, <2>5 DEF Next
<1>2. CASE UNCHANGED vars
  <2>1. TypeOK' /\ IsFiniteSet(prs)' /\ PagesCounted' /\ AgentRowAlone'
    BY <1>2 DEF IInv, vars, TypeOK, PagesCounted, Fetched, AgentRowAlone, Key
  <2>2. \A s \in Syncers : Alone(s)' <=> Alone(s)
    BY <1>2, ListingStill DEF vars, Alone
  <2>3. Undisturbed'
    BY <1>2, <2>2, ListingStill DEF IInv, vars, Undisturbed, OneRowEach, CountsTrue, OpenRows, AgentPrs
  <2> QED
    BY <2>1, <2>3 DEF IInv
<1> QED
  BY <1>1, <1>2

\* What PrSync.tla calls the state of the table: whatever the callers do, it has its type.
THEOREM TypeCorrect == Spec => []TypeOK
<1>1. IInv => TypeOK
  BY DEF IInv
<1> QED
  BY InitInv, NextInv, <1>1, PTL DEF Spec

\* A sync_repo_prs that ran alone while GitHub stood still leaves one open row for each
\* pull request listed within MAX_PAGES pages, and no other but the agent's.
THEOREM CountsAreReal == Spec => []CountsReal
<1>1. IInv => CountsReal
  BY DEF IInv, Undisturbed, OneRowEach, CountsTrue, OpenRows, CountsReal
<1> QED
  BY InitInv, NextInv, <1>1, PTL DEF Spec
=============================================================================
