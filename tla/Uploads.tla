------------------------------- MODULE Uploads -------------------------------
(***************************************************************************)
(* A user's uploaded files: the bytes on the uploads volume and the row    *)
(* that names them are two stores, written and removed one after the other *)
(* (api/uploads.py), and read by downloads and by chat attachments         *)
(* (agent/attachments.py).                                                 *)
(***************************************************************************)
EXTENDS Naturals, FiniteSets

CONSTANTS
    Requests,  \* the upload and delete requests under way at once
    Files,     \* the names uuid4 generates, each handed out once
    Owners,    \* the users (the sub of their tokens)
    NoOwner    \* stands for the absence of a row

VARIABLES
    disk,      \* the files on the volume
    rows,      \* Files -> the owner of its row, or NoOwner
    call,      \* the requests past their first effect
    named,     \* the names handed out so far
    unwanted   \* history: the files whose owner asked for their deletion

uploadVars == <<disk, rows, call, named, unwanted>>

Idle == [op |-> "idle"]
UploadRows == [Files -> Owners \cup {NoOwner}]

Init ==
    /\ disk = {} /\ named = {} /\ unwanted = {}
    /\ rows = [f \in Files |-> NoOwner]
    /\ call = [q \in Requests |-> Idle]

(***************************************************************************)
(* A file over the limit, an empty one and an owner whose directory would  *)
(* lie outside the volume are refused before any effect.  The bytes are    *)
(* written before the row is.                                              *)
(***************************************************************************)
RowFirst(q) ==
    /\ call[q] = Idle
    /\ \E f \in Files \ named, o \in Owners :
          /\ named' = named \cup {f}
          /\ rows' = [rows EXCEPT ![f] = o]
          /\ call' = [call EXCEPT ![q] = [op |-> "upload", file |-> f, owner |-> o]]
    /\ UNCHANGED <<disk, unwanted>>

WriteFile(q) ==
    /\ call[q] = Idle
    /\ \E f \in Files \ named, o \in Owners :
          /\ named' = named \cup {f}
          /\ disk' = disk \cup {f}
          /\ call' = [call EXCEPT ![q] = [op |-> "upload", file |-> f, owner |-> o]]
    /\ UNCHANGED <<rows, unwanted>>

\* A failed commit leaves the file behind without a row.
CommitRow(q) ==
    /\ call[q].op = "upload"
    /\ rows' \in {rows, [rows EXCEPT ![call[q].file] = call[q].owner]}
    /\ call' = [call EXCEPT ![q] = Idle]
    /\ UNCHANGED <<disk, named, unwanted>>

(***************************************************************************)
(* Deleting: only the owner's row is found; the file goes first.           *)
(***************************************************************************)
FindOwned(q) ==
    /\ call[q] = Idle
    /\ \E f \in Files, o \in Owners :
          /\ rows[f] = o
          /\ call' = [call EXCEPT ![q] = [op |-> "remove", file |-> f, owner |-> o]]
          /\ unwanted' = unwanted \cup {f}
    /\ UNCHANGED <<disk, rows, named>>

\* An OSError is logged and the row goes all the same.
RemoveFile(q) ==
    /\ call[q].op = "remove"
    /\ disk' \in {disk, disk \ {call[q].file}}
    /\ call' = [call EXCEPT ![q].op = "drop"]
    /\ UNCHANGED <<rows, named, unwanted>>

DropRow(q) ==
    /\ call[q].op = "drop"
    /\ rows' \in {rows, [rows EXCEPT ![call[q].file] = NoOwner]}
    /\ call' = [call EXCEPT ![q] = Idle]
    /\ UNCHANGED <<disk, named, unwanted>>

RestartApi ==
    /\ call' = [q \in Requests |-> Idle]
    /\ UNCHANGED <<disk, rows, named, unwanted>>

Next ==
    \/ \E q \in Requests :
          WriteFile(q) \/ CommitRow(q) \/ FindOwned(q) \/ RemoveFile(q) \/ DropRow(q)
    \/ RestartApi

Spec == Init /\ [][Next]_uploadVars

(***************************************************************************)
(* What a request of user o for file f is answered with.                   *)
(***************************************************************************)
Download(o, f) ==
    IF rows[f] # o THEN "not found" ELSE IF f \in disk THEN "bytes" ELSE "missing on disk"

\* A foreign or missing id never fails the chat: the message goes out as typed.
AttachedText(o, f) ==
    IF rows[f] # o THEN {"message alone"}
    ELSE IF f \notin disk THEN {"could not be read"}
    ELSE {"text", "truncated text", "is binary"}

TypeOK ==
    /\ disk \subseteq named /\ named \subseteq Files /\ unwanted \subseteq named
    /\ rows \in UploadRows
    /\ \A q \in Requests :
          \/ call[q] = Idle
          \/ call[q] \in [op : {"upload", "remove", "drop"}, file : named, owner : Owners]

(***************************************************************************)
(* Whatever overlaps, fails or is cut short by a restart, a file the list  *)
(* shows its owner is there to download and to attach until the owner asks *)
(* for its deletion (upload_file, delete_upload).                          *)
(***************************************************************************)
ListedIsReadable ==
    \A f \in Files, o \in Owners :
        rows[f] = o /\ f \notin unwanted =>
            Download(o, f) = "bytes" /\ "could not be read" \notin AttachedText(o, f)
=============================================================================
