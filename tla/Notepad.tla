------------------------------- MODULE Notepad -------------------------------
(***************************************************************************)
(* The notepad of one user: the page that loads and autosaves it           *)
(* (frontend/src/app/notepad/page.tsx), open in several tabs, and the      *)
(* handler that upserts its row (api/notepad.py).  A text is the number of *)
(* the edit that made it; Empty is the page's initial text and what GET    *)
(* answers when there is no row.                                           *)
(***************************************************************************)
EXTENDS Naturals

CONSTANTS
    Tabs,          \* the open pages
    MaxEdits,      \* bound: edits in all
    MaxLoadFaults, \* bound: loads that fail
    NoRow          \* stands for the absence of the row

VARIABLES
    stored,     \* the text in the row, or NoRow
    tab,        \* each tab's page
    save,       \* each tab's save under way
    edits, faults

noteVars == <<stored, tab, save, edits, faults>>

Empty == 0
Closed == [at |-> "closed"]
NoSave == [at |-> "none"]
Ready(text, due) == [at |-> "ready", text |-> text, due |-> due]
Texts == 0 .. MaxEdits

Init ==
    /\ stored = NoRow
    /\ tab = [t \in Tabs |-> Closed]
    /\ save = [t \in Tabs |-> NoSave]
    /\ edits = 0 /\ faults = 0

Open(t) ==
    /\ tab[t] = Closed
    /\ tab' = [tab EXCEPT ![t] = [at |-> "loading"]]
    /\ UNCHANGED <<stored, save, edits, faults>>

\* loaded turns true, which alone runs the autosave effect.
Load(t) ==
    /\ tab[t].at = "loading"
    /\ tab' = [tab EXCEPT ![t] = Ready(IF stored = NoRow THEN Empty ELSE stored, TRUE)]
    /\ UNCHANGED <<stored, save, edits, faults>>

\* The empty catch leaves the initial text, and loaded turns true as well.
FailLoad(t) ==
    /\ tab[t].at = "loading" /\ faults < MaxLoadFaults
    /\ faults' = faults + 1
    /\ tab' = [tab EXCEPT ![t] = Ready(Empty, TRUE)]
    /\ UNCHANGED <<stored, save, edits>>

\* Each change of the text restarts the 800 ms timer.
Type(t) ==
    /\ tab[t].at = "ready" /\ edits < MaxEdits
    /\ edits' = edits + 1
    /\ tab' = [tab EXCEPT ![t] = Ready(edits + 1, TRUE)]
    /\ UNCHANGED <<stored, save, faults>>

\* The timer: the POST leaves.  One save of a tab is under way at a time here.
FireTimer(t) ==
    /\ tab[t].at = "ready" /\ tab[t].due /\ save[t] = NoSave
    /\ save' = [save EXCEPT ![t] = [at |-> "sent", text |-> tab[t].text]]
    /\ tab' = [tab EXCEPT ![t].due = FALSE]
    /\ UNCHANGED <<stored, edits, faults>>

\* Leaving clears the timer: a change not yet sent is dropped.
Leave(t) ==
    /\ tab[t].at \in {"loading", "ready"}
    /\ tab' = [tab EXCEPT ![t] = Closed]
    /\ UNCHANGED <<stored, save, edits, faults>>

LookUpRow(t) ==
    /\ save[t].at = "sent"
    /\ save' = [save EXCEPT ![t] =
          [at |-> IF stored = NoRow THEN "insert" ELSE "update", text |-> save[t].text]]
    /\ UNCHANGED <<stored, tab, edits, faults>>

\* A second INSERT breaks the primary key; the page's catch drops the text it carried.
SaveRow(t) ==
    /\ save[t].at \in {"insert", "update"}
    /\ stored' = IF save[t].at = "insert" /\ stored # NoRow THEN stored ELSE save[t].text
    /\ save' = [save EXCEPT ![t] = NoSave]
    /\ UNCHANGED <<tab, edits, faults>>

Next == \E t \in Tabs :
    \/ Open(t) \/ Load(t) \/ FailLoad(t) \/ Type(t) \/ FireTimer(t) \/ Leave(t)
    \/ LookUpRow(t) \/ SaveRow(t)

Spec == Init /\ [][Next]_noteVars

TypeOK ==
    /\ stored \in Texts \cup {NoRow} /\ edits \in Texts /\ faults \in 0 .. MaxLoadFaults
    /\ \A t \in Tabs :
          /\ tab[t].at \in {"closed", "loading", "ready"}
          /\ tab[t].at = "ready" => tab[t].text \in Texts /\ tab[t].due \in BOOLEAN
          /\ save[t].at \in {"none", "sent", "insert", "update"}

(***************************************************************************)
(* page.tsx:27: "Skip the initial load so we don't immediately re-save     *)
(* what we just fetched": opening the notepad must not touch the note, so  *)
(* a note once written is emptied by nobody who types nothing.  The effect *)
(* runs when loaded turns true, whether the load succeeded or not, so the  *)
(* page saves Empty over the note after a load that failed, or that was    *)
(* answered before the last save of the page just left arrived.            *)
(***************************************************************************)
NoteNotEmptied == [][stored \notin {NoRow, Empty} => stored' # Empty]_noteVars
=============================================================================
