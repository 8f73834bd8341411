------------------------------ MODULE Workspace ------------------------------
(***************************************************************************)
(* The tools that change a clone and what lies behind it                   *)
(* (AgentRuntime.execute_tool and the tools it dispatches to), called by   *)
(* several chats on one clone, beside the poller that pulls into it.  Each *)
(* file operation and command runs in a thread or a process of its own, so *)
(* that those of two chats interleave, and may outlive the loop's patience *)
(* with it.  The clone has one file; its content is the set of edits it    *)
(* shows.  Sync with a moving remote is module GraphSync's.                *)
(***************************************************************************)
EXTENDS Naturals, FiniteSets

CONSTANTS
    Threads,     \* tool calls under way at once
    Branches,    \* the names the model gives to branches
    MaxEdits,    \* bound: edits made in all
    MaxSwitches, \* bound: switches of a capability
    MaxOrphans   \* bound: commands left running at once

VARIABLES
    off,         \* the capabilities switched off
    call,        \* thread -> its tool call
    work,        \* the working tree
    head,        \* the tree of the commit checked out; origin's is {}
    branches,    \* the local branches
    prs,         \* branches with a pull request
    orphans,     \* number of commands whose call ended before all they started did
    edits, switches

workspaceVars == <<off, call, work, head, branches, prs, orphans, edits, switches>>
clone == <<work, head, branches, prs>>

(***************************************************************************)
(* The registered tools (tools.py), the capability that gates each         *)
(* (TOOL_CAPABILITY; the ungated ones are always allowed), and those that  *)
(* a direct request has to confirm.                                        *)
(***************************************************************************)
FileTools == {"read_file", "write_file", "edit_file", "list_directory", "glob_search", "grep_search"}
GitTools == {"create_branch", "commit_files", "create_pr", "get_diff", "get_blame", "get_commit_log"}
KnowledgeTools ==
    {"web_search", "semantic_search", "graph_query", "find_owner", "find_dependents",
     "find_dependencies", "get_architecture", "search_notes", "write_note"}
AgentTools ==
    {"run_command", "run_tests", "run_lint", "http_request", "schedule_task", "trace_issue", "list_prs"}
Tools == FileTools \cup GitTools \cup KnowledgeTools \cup AgentTools

RequiresConfirmation ==
    {"write_file", "edit_file", "commit_files", "create_pr", "run_command", "http_request"}

Ungated == {"web_search", "write_note", "http_request", "schedule_task"}

Gate(t) ==
    {cap \in {"read_code", "write_code", "create_pr", "execute"} :
        \/ cap = "write_code" /\ t \in {"write_file", "edit_file", "commit_files", "create_branch"}
        \/ cap = "create_pr" /\ t = "create_pr"
        \/ cap = "execute" /\ t \in {"run_command", "run_lint", "run_tests"}
        \/ cap = "read_code" /\ t \notin Ungated \cup {"write_file", "edit_file", "commit_files",
              "create_branch", "create_pr", "run_command", "run_lint", "run_tests"}}

Powers == {"write_code", "create_pr", "execute"}

\* The capability a tool that changes something is meant to need.
Meant(t) ==
    CASE t = "create_pr" -> {"create_pr"}
      [] t = "run_command" -> {"execute"}
      [] OTHER -> {"write_code"}
Changing == {"write_file", "edit_file", "commit_files", "create_branch", "create_pr", "run_command"}

Idle == [tool |-> "none"]

Init ==
    /\ off = {} /\ call = [c \in Threads |-> Idle]
    /\ work = {} /\ head = {} /\ branches = {} /\ prs = {}
    /\ orphans = 0 /\ edits = 0 /\ switches = 0

Switch ==
    /\ switches < MaxSwitches /\ switches' = switches + 1
    /\ \E c \in Powers : off' = IF c \in off THEN off \ {c} ELSE off \cup {c}
    /\ UNCHANGED <<call, clone, orphans, edits>>

(***************************************************************************)
(* execute_tool: a refused tool answers at once.  The others go on under   *)
(* what was read of the permissions.                                       *)
(***************************************************************************)
Begin(c, t, unconfirmed) ==
    /\ call' = [call EXCEPT ![c] = [tool |-> t, at |-> "begin", granted |-> Meant(t) \ off,
                                   unconfirmed |-> unconfirmed]]
    /\ UNCHANGED <<off, clone, orphans, edits, switches>>

ExecuteShellAnyway(c, t, unconfirmed) ==
    (t # "run_command" => Gate(t) \cap off = {}) /\ Begin(c, t, unconfirmed)

Execute(c, t, unconfirmed) == Gate(t) \cap off = {} /\ Begin(c, t, unconfirmed)

\* The loop of a chat runs every registered tool the model names, and asks nobody; those
\* that change nothing here are left out.
Check(c) == call[c] = Idle /\ \E t \in Tools \cap Changing : Execute(c, t, FALSE)

\* A direct request (POST /agent/tool).
CheckDirect(c) ==
    /\ call[c] = Idle
    /\ \E t \in Tools \cap Changing, confirm \in BOOLEAN :
          (t \in RequiresConfirmation => confirm) /\ Execute(c, t, ~confirm)

At(c, tool, step) == call[c].tool = tool /\ call[c].at = step
Return(c) == call' = [call EXCEPT ![c] = Idle]
NewEdit == edits < MaxEdits /\ edits' = edits + 1

\* A missing argument, a path outside the allowed directories or an error ends a tool where it stands.
Raise(c) ==
    /\ call[c] # Idle /\ ~ At(c, "run_command", "running") /\ Return(c)
    /\ UNCHANGED <<off, clone, orphans, edits, switches>>

(***************************************************************************)
(* create_branch, commit_files and create_pr work on the repository of     *)
(* their context, and neither a chat nor a direct request ever names one:  *)
(* the first opens /data/repos/unknown, which is no clone, and raises, the *)
(* others answer that there is no active branch.                           *)
(***************************************************************************)
BranchTools == {"create_branch", "commit_files", "create_pr"}

EndWithoutBranch(c) ==
    /\ call[c].tool \in BranchTools /\ Return(c)
    /\ UNCHANGED <<off, clone, orphans, edits, switches>>

WriteFile(c) ==
    /\ At(c, "write_file", "begin") /\ NewEdit
    /\ work' = {edits'} /\ Return(c)
    /\ UNCHANGED <<off, head, branches, prs, orphans, switches>>

\* An old_string that is not in the text read ends the tool (Raise).
ReadForEdit(c) ==
    /\ At(c, "edit_file", "begin")
    /\ call' = [call EXCEPT ![c] = [tool |-> "edit_file", at |-> "write", granted |-> @.granted,
                                   unconfirmed |-> @.unconfirmed, read |-> work]]
    /\ UNCHANGED <<off, clone, orphans, edits, switches>>

WriteEdited(c) ==
    /\ At(c, "edit_file", "write") /\ NewEdit
    /\ work' = call[c].read \cup {edits'} /\ Return(c)
    /\ UNCHANGED <<off, head, branches, prs, orphans, switches>>

(***************************************************************************)
(* run_command runs any command in a shell, and the prompt tells the agent *)
(* to branch, edit, commit, push and open pull requests with it.  The call *)
(* is over with the shell, which its timeout kills, but not with what the  *)
(* shell started.  In steps, a command leaves the files, what is checked   *)
(* out (checkout, commit, reset), the branches and the pull requests in    *)
(* any state.                                                              *)
(***************************************************************************)
RunCommand(c) ==
    /\ At(c, "run_command", "begin")
    /\ call' = [call EXCEPT ![c] = [tool |-> "run_command", at |-> "running", granted |-> @.granted,
                                   unconfirmed |-> @.unconfirmed]]
    /\ UNCHANGED <<off, clone, orphans, edits, switches>>

Command ==
    /\ orphans > 0 \/ \E c \in Threads : At(c, "run_command", "running")
    /\ \/ NewEdit /\ work' \in SUBSET (1 .. edits') /\ UNCHANGED <<head, branches, prs>>
       \/ /\ work' \in SUBSET (1 .. edits) /\ head' \in SUBSET (1 .. edits)
          /\ UNCHANGED <<branches, prs, edits>>
       \/ /\ branches' \in SUBSET Branches /\ prs' \in SUBSET Branches
          /\ UNCHANGED <<work, head, edits>>
    /\ UNCHANGED <<off, call, orphans, switches>>

EndCommand(c) ==
    /\ At(c, "run_command", "running") /\ Return(c)
    /\ orphans' \in {orphans, orphans + 1} \cap 0 .. MaxOrphans
    /\ UNCHANGED <<off, clone, edits, switches>>

OrphanEnds ==
    /\ orphans > 0 /\ orphans' = orphans - 1
    /\ UNCHANGED <<off, call, clone, edits, switches>>

\* The poller or a scheduled pull: checkout of origin's branch, refused when the file is
\* neither as at HEAD nor as at the target, then a hard reset.
Pull ==
    /\ head = {} \/ work \in {head, {}}
    /\ work' = {} /\ head' = {}
    /\ UNCHANGED <<off, call, branches, prs, orphans, edits, switches>>

Next ==
    \/ \E c \in Threads :
          \/ Check(c) \/ CheckDirect(c) \/ Raise(c) \/ WriteFile(c) \/ ReadForEdit(c) \/ WriteEdited(c)
          \/ EndWithoutBranch(c) \/ RunCommand(c) \/ EndCommand(c)
    \/ Command \/ OrphanEnds \/ Switch \/ Pull

Spec == Init /\ [][Next]_workspaceVars

TypeOK ==
    /\ off \subseteq Powers /\ edits \in 0 .. MaxEdits /\ switches \in 0 .. MaxSwitches
    /\ orphans \in 0 .. MaxOrphans
    /\ \A c \in Threads :
          \/ call[c] = Idle
          \/ (call[c].tool \in Changing /\ call[c].at \in {"begin", "write", "running"})
    /\ work \subseteq 1 .. MaxEdits /\ head \subseteq 1 .. MaxEdits
    /\ branches \subseteq Branches /\ prs \subseteq Branches

(***************************************************************************)
(* However the tools of several chats, their commands and the poller's     *)
(* pulls interleave on one clone and capabilities are switched: what       *)
(* changes in it is a pull's doing, or the file of a call that was granted *)
(* write_code, or is done while a command runs that was granted execute or *)
(* was left running by such a one; and a direct request has confirmed the  *)
(* call.  So nothing but a pull changes the clone once a capability is off *)
(* and what was begun before has ended, branches and pull requests change  *)
(* by a command alone, and a command is the one thing that goes on after   *)
(* its call (execute_tool, _capability_denied, _dispatch_legacy,           *)
(* execute_tool of api/agent.py).                                          *)
(***************************************************************************)
Granted(c) == call[c] # Idle /\ Meant(call[c].tool) \subseteq call[c].granted /\ ~ call[c].unconfirmed

ByPoller == work' = {} /\ head' = {} /\ UNCHANGED <<branches, prs, call>>

ByFileTool ==
    /\ UNCHANGED <<head, branches, prs>>
    /\ \E c \in Threads : /\ Granted(c) /\ "write_code" \in call[c].granted
                         /\ call' = [call EXCEPT ![c] = Idle]

Commanding(c) == At(c, "run_command", "running") /\ Granted(c)

StepInGoodHands ==
    /\ clone' # clone => ByPoller \/ ByFileTool \/ orphans > 0 \/ \E c \in Threads : Commanding(c)
    /\ orphans' > orphans => \E c \in Threads : Commanding(c) /\ call'[c] = Idle
    /\ \A c \in Threads : call[c] = Idle /\ call'[c] # Idle => Meant(call'[c].tool) \cap off = {}

CloneInGoodHands == [][StepInGoodHands]_workspaceVars
=============================================================================
