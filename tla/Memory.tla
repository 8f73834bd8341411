------------------------------- MODULE Memory -------------------------------
(***************************************************************************)
(* The teammate's memory (agent/memory.py): working memory overflows into  *)
(* episodic memory, both are capped, and part of it can be saved and read  *)
(* back.  The poller feeds it with what changed (AutoSyncEngine            *)
(* ._notify_changes).  An item is the number of the remember call that     *)
(* made it; its age and score are abstracted: when episodic memory         *)
(* overflows, it may be sorted in any order.  An item that was recalled is *)
(* in both memories, and is appended to the second again when it leaves    *)
(* the first.                                                              *)
(***************************************************************************)
EXTENDS Naturals, Sequences, FiniteSets, SequencesExt

CONSTANTS
    MaxItems,      \* bound: remember calls in all
    MaxWorking,    \* 20
    MaxEpisodic,   \* 200
    MaxSaved,      \* 50: the items of episodic memory that are saved
    MaxLearned,    \* 100 preferences, 50 conventions
    Lessons        \* what can be learned: keys of preferences, conventions

VARIABLES
    working,       \* sequence of items, most important first
    episodic,      \* sequence of items, with repetitions
    preferences, conventions,  \* sequences of lessons, oldest first
    saved,         \* the memory_state row
    remembered     \* the number of items made

memoryVars == <<working, episodic, preferences, conventions, saved, remembered>>

NoState == [present |-> FALSE, episodic |-> <<>>, preferences |-> <<>>, conventions |-> <<>>]

Init ==
    /\ working = <<>> /\ episodic = <<>> /\ preferences = <<>> /\ conventions = <<>>
    /\ saved = NoState /\ remembered = 0

\* What episodic memory may be after it was sorted and cut down to its cap.
Capped(items) ==
    IF Len(items) <= MaxEpisodic THEN {items}
    ELSE {[i \in 1 .. MaxEpisodic |-> items[best[i]]] : best \in Injection(1 .. MaxEpisodic, 1 .. Len(items))}

RememberDropping(important) ==
    LET all == IF important THEN <<remembered + 1>> \o working ELSE Append(working, remembered + 1)
    IN /\ remembered < MaxItems /\ remembered' = remembered + 1
       /\ working' = IF Len(all) > MaxWorking THEN Front(all) ELSE all
       /\ UNCHANGED <<episodic, preferences, conventions, saved>>

(***************************************************************************)
(* Importance of 0.7 or more goes to the front; over the cap the last item *)
(* moves to episodic memory, which may be the one that was just appended.  *)
(***************************************************************************)
Remember(important) ==
    LET all == IF important THEN <<remembered + 1>> \o working ELSE Append(working, remembered + 1)
    IN /\ remembered < MaxItems /\ remembered' = remembered + 1
       /\ IF Len(all) > MaxWorking
          THEN working' = Front(all) /\ episodic' \in Capped(Append(episodic, Last(all)))
          ELSE working' = all /\ episodic' \in Capped(episodic)
       /\ UNCHANGED <<preferences, conventions, saved>>

\* Added and changed files are important (0.7, 0.8), removed ones are not (0.6).
NotifyChanges == \E important \in BOOLEAN : Remember(important)

\* A recall that leaves the overflow to the next remember.
RecallOverfilling ==
    /\ \E item \in ToSet(episodic) \ ToSet(working) : working' = <<item>> \o working
    /\ UNCHANGED <<episodic, preferences, conventions, saved, remembered>>

(***************************************************************************)
(* An item found in working memory stays where it is; one found in         *)
(* episodic memory is also put in front of working memory, whose last item *)
(* is dropped when that overflows.                                         *)
(***************************************************************************)
Recall ==
    /\ \E item \in ToSet(episodic) \ ToSet(working) :
          working' = IF Len(working) = MaxWorking THEN <<item>> \o Front(working)
                     ELSE <<item>> \o working
    /\ UNCHANGED <<episodic, preferences, conventions, saved, remembered>>

\* At the cap the oldest key goes, even when the key is one of those present.
LearnPreference(k) ==
    LET rest == IF Len(preferences) >= MaxLearned THEN Tail(preferences) ELSE preferences
    IN /\ preferences' = IF k \in ToSet(rest) THEN rest ELSE Append(rest, k)
       /\ UNCHANGED <<working, episodic, conventions, saved, remembered>>

LearnConvention(c) ==
    /\ c \notin ToSet(conventions)
    /\ conventions' =
          Append(IF Len(conventions) >= MaxLearned THEN Tail(conventions) ELSE conventions, c)
    /\ UNCHANGED <<working, episodic, preferences, saved, remembered>>

\* Working memory is not saved, and of episodic memory only its first items are.
PersistToDb ==
    /\ saved' = [present |-> TRUE,
                 episodic |-> SubSeq(episodic, 1, IF Len(episodic) < MaxSaved THEN Len(episodic) ELSE MaxSaved),
                 preferences |-> preferences, conventions |-> conventions]
    /\ UNCHANGED <<working, episodic, preferences, conventions, remembered>>

\* With no row nothing is loaded.  Preferences and conventions are replaced, the items added
\* once more, whatever the cap.
\* Bound: a memory that was overfilled is not loaded into again.
LoadFromDb ==
    /\ saved.present
    /\ Len(episodic) <= MaxEpisodic
    /\ preferences' = saved.preferences /\ conventions' = saved.conventions
    /\ episodic' = episodic \o saved.episodic
    /\ UNCHANGED <<working, saved, remembered>>

RestartApi ==
    /\ working' = <<>> /\ episodic' = <<>> /\ preferences' = <<>> /\ conventions' = <<>>
    /\ UNCHANGED <<saved, remembered>>

Next ==
    \/ NotifyChanges \/ Recall \/ PersistToDb \/ LoadFromDb \/ RestartApi
    \/ \E l \in Lessons : LearnPreference(l) \/ LearnConvention(l)

Spec == Init /\ [][Next]_memoryVars

Held == ToSet(working) \cup ToSet(episodic)

TypeOK ==
    /\ working \in Seq(1 .. MaxItems) /\ Len(working) <= MaxWorking
    /\ episodic \in Seq(1 .. MaxItems) /\ Len(episodic) <= MaxEpisodic + MaxSaved
    /\ preferences \in Seq(Lessons) /\ Len(preferences) <= MaxLearned
    /\ conventions \in Seq(Lessons) /\ Len(conventions) <= MaxLearned
    /\ saved.present \in BOOLEAN /\ saved.episodic \in Seq(1 .. MaxItems) /\ Len(saved.episodic) <= MaxSaved
    /\ remembered \in 0 .. MaxItems

(***************************************************************************)
(* What was remembered can be recalled until both memories are full: short *)
(* of a restart, and unless a load overfilled episodic memory, an item is  *)
(* forgotten only when working memory is full, one at a time, and when     *)
(* episodic memory is full as well or a recall pushed it out (remember,    *)
(* recall).                                                                *)
(***************************************************************************)
ForgetsOnlyWhenFull ==
    [][Held \ Held' # {} =>
          \/ working' = <<>> /\ episodic' = <<>>
          \/ Len(episodic) > MaxEpisodic
          \/ /\ Len(working) = MaxWorking /\ Cardinality(Held \ Held') = 1
             /\ Len(episodic) = MaxEpisodic \/ Head(working') \in ToSet(episodic)]_memoryVars
=============================================================================
