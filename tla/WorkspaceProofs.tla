---------------------------- MODULE WorkspaceProofs ----------------------------
(***************************************************************************)
(* Safety of module Workspace for any number of threads, branches, edits,  *)
(* switches of capabilities and commands left running.                     *)
(***************************************************************************)
EXTENDS Workspace, TLAPS

\* A call under way is of a tool that changes something, its gate was open to it, so that it
\* was granted what is meant for its tool, and unless a chat asked for it, it was confirmed
\* or is a create_branch.
CallGranted(c) ==
    call[c] # Idle => /\ call[c].tool \in Changing /\ call[c].granted = Meant(call[c].tool)
                      /\ call[c].tool # "create_branch" => ~ call[c].unconfirmed

IInv == call = [c \in Threads |-> call[c]] /\ \A c \in Threads : CallGranted(c)

-----------------------------------------------------------------------------
\* The gate of each changing tool is the capability meant for it.
LEMMA GateIsMeant == \A t \in Changing : Gate(t) = Meant(t)
<1> SUFFICES ASSUME NEW t \in Changing PROVE Gate(t) = Meant(t)
  OBVIOUS
<1>1. CASE t \in {"write_file", "edit_file", "commit_files", "create_branch"}
  <2>1. Gate(t) = {"write_code"}
    BY <1>1 DEF Gate
  <2>2. Meant(t) = {"write_code"}
    BY <1>1 DEF Meant
  <2> QED
    BY <2>1, <2>2
<1>2. CASE t = "create_pr"
  <2>1. Gate(t) = {"create_pr"}
    BY <1>2 DEF Gate
  <2>2. Meant(t) = {"create_pr"}
    BY <1>2 DEF Meant
  <2> QED
    BY <2>1, <2>2
<1>3. CASE t = "run_command"
  <2>1. Gate(t) = {"execute"}
    BY <1>3 DEF Gate
  <2>2. Meant(t) = {"execute"}
    BY <1>3 DEF Meant
  <2> QED
    BY <2>1, <2>2
<1> QED
  BY <1>1, <1>2, <1>3 DEF Changing

LEMMA InitInv == Init => IInv
  BY DEF Init, IInv, CallGranted

\* A step that ends a call, or moves it on under the same grant, keeps the others'.
LEMMA CallMoved ==
  ASSUME IInv, NEW c \in Threads, NEW new, call' = [call EXCEPT ![c] = new],
         new # Idle => /\ new.tool \in Changing /\ new.granted = Meant(new.tool)
                       /\ new.tool # "create_branch" => ~ new.unconfirmed
  PROVE  IInv' /\ call'[c] = new /\ \A d \in Threads \ {c} : call'[d] = call[d]
<1>1. \A d \in Threads : call'[d] = IF d = c THEN new ELSE call[d]
  BY DEF IInv
<1>2. \A d \in Threads : CallGranted(d)'
  BY <1>1 DEF IInv, CallGranted
<1> QED
  BY <1>1, <1>2 DEF IInv

\* A direct request of a tool that is not confirmed is of create_branch.
LEMMA CheckInv ==
  ASSUME IInv, orphans \in Nat, NEW c \in Threads, Check(c) \/ CheckDirect(c)
  PROVE  IInv' /\ StepInGoodHands
<1>1. PICK t \in Changing, u \in BOOLEAN : Execute(c, t, u) /\ (t # "create_branch" => ~ u)
  BY DEF Check, CheckDirect, Changing, RequiresConfirmation
<1>2. Meant(t) \ off = Meant(t) /\ Meant(t) \cap off = {}
  BY <1>1, GateIsMeant DEF Execute
<1>3. PICK new : new = [tool |-> t, at |-> "begin", granted |-> Meant(t) \ off, unconfirmed |-> u]
  OBVIOUS
<1>4. call' = [call EXCEPT ![c] = new] /\ UNCHANGED <<clone, orphans>>
  BY <1>1, <1>3 DEF Execute, Begin
<1>5. new.tool = t /\ new.granted = Meant(t) /\ new.unconfirmed = u
  BY <1>2, <1>3
<1>6. IInv' /\ call'[c] = new /\ \A d \in Threads \ {c} : call'[d] = call[d]
  BY <1>1, <1>4, <1>5, CallMoved
<1>7. \A d \in Threads : call[d] = Idle /\ call'[d] # Idle => Meant(call'[d].tool) \cap off = {}
  BY <1>2, <1>5, <1>6
<1>8. ~ (orphans' > orphans)
  BY <1>4
<1> QED
  BY <1>4, <1>6, <1>7, <1>8 DEF StepInGoodHands

\* A call that ends and changes nothing.
LEMMA Ends ==
  ASSUME IInv, orphans \in Nat, NEW c \in Threads, Return(c)
  PROVE  /\ IInv' /\ call'[c] = Idle
         /\ UNCHANGED <<clone, orphans>> => StepInGoodHands
<1>1. IInv' /\ call'[c] = Idle /\ \A d \in Threads \ {c} : call'[d] = call[d]
  BY CallMoved DEF Return
<1> QED
  BY <1>1 DEF StepInGoodHands

\* A call that has begun moves on and changes nothing.
LEMMA MovesOn ==
  ASSUME IInv, orphans \in Nat, NEW c \in Threads, NEW new, call[c] # Idle, call' = [call EXCEPT ![c] = new],
         new.tool = call[c].tool, new.granted = call[c].granted, new.unconfirmed = call[c].unconfirmed,
         UNCHANGED <<clone, orphans>>
  PROVE  IInv' /\ StepInGoodHands
<1>1. IInv' /\ \A d \in Threads \ {c} : call'[d] = call[d]
  BY CallMoved DEF IInv, CallGranted
<1> QED
  BY <1>1 DEF StepInGoodHands

LEMMA ReadForEditInv ==
  ASSUME IInv, orphans \in Nat, NEW c \in Threads, ReadForEdit(c)
  PROVE  IInv' /\ StepInGoodHands
<1>1. PICK new : new = [tool |-> "edit_file", at |-> "write", granted |-> call[c].granted,
                        unconfirmed |-> call[c].unconfirmed, read |-> work]
  OBVIOUS
<1>2. call' = [call EXCEPT ![c] = new] /\ UNCHANGED <<clone, orphans>>
  BY <1>1 DEF ReadForEdit, IInv
<1>3. call[c] # Idle /\ call[c].tool = "edit_file"
  BY DEF ReadForEdit, At, Idle
<1>4. new.tool = call[c].tool /\ new.granted = call[c].granted /\ new.unconfirmed = call[c].unconfirmed
  BY <1>1, <1>3
<1> QED
  BY <1>2, <1>3, <1>4, MovesOn

LEMMA RunCommandInv ==
  ASSUME IInv, orphans \in Nat, NEW c \in Threads, RunCommand(c)
  PROVE  IInv' /\ StepInGoodHands
<1>1. PICK new : new = [tool |-> "run_command", at |-> "running", granted |-> call[c].granted,
                        unconfirmed |-> call[c].unconfirmed]
  OBVIOUS
<1>2. call' = [call EXCEPT ![c] = new] /\ UNCHANGED <<clone, orphans>>
  BY <1>1 DEF RunCommand, IInv
<1>3. call[c] # Idle /\ call[c].tool = "run_command"
  BY DEF RunCommand, At, Idle
<1>4. new.tool = call[c].tool /\ new.granted = call[c].granted /\ new.unconfirmed = call[c].unconfirmed
  BY <1>1, <1>3
<1> QED
  BY <1>2, <1>3, <1>4, MovesOn

\* A call under way holds its tool's capability, and was confirmed.
LEMMA Under ==
  ASSUME IInv, NEW c \in Threads, call[c].tool \in Changing \ {"create_branch"}
  PROVE  Granted(c) /\ call[c].granted = Meant(call[c].tool)
<1>1. call[c] # Idle
  BY DEF Changing, Idle
<1> QED
  BY <1>1 DEF IInv, CallGranted, Granted

LEMMA FileWritten ==
  ASSUME IInv, orphans \in Nat, NEW c \in Threads, WriteFile(c) \/ WriteEdited(c)
  PROVE  IInv' /\ StepInGoodHands
<1>1. /\ call[c].tool \in {"write_file", "edit_file"} /\ Return(c)
      /\ UNCHANGED <<head, branches, prs, orphans>>
  BY DEF WriteFile, WriteEdited, At
<1>2. Granted(c) /\ call[c].granted = Meant(call[c].tool)
  BY <1>1, Under DEF Changing
<1>3. "write_code" \in call[c].granted
  BY <1>1, <1>2 DEF Meant
<1>4. ByFileTool
  BY <1>1, <1>2, <1>3 DEF ByFileTool, Return
<1>5. IInv' /\ \A d \in Threads : call'[d] = IF d = c THEN Idle ELSE call[d]
  BY <1>1, CallMoved DEF Return
<1>6. ~ (orphans' > orphans)
  <2>1. orphans' = orphans
    BY <1>1
  <2>2. ~ (orphans > orphans)
    OBVIOUS
  <2> QED
    BY <2>1, <2>2
<1> QED
  BY <1>4, <1>5, <1>6 DEF StepInGoodHands

LEMMA EndCommandInv ==
  ASSUME IInv, orphans \in Nat, NEW c \in Threads, EndCommand(c)
  PROVE  IInv' /\ StepInGoodHands
<1>1. At(c, "run_command", "running") /\ Return(c) /\ UNCHANGED clone
  BY DEF EndCommand
<1>2. Commanding(c)
  BY <1>1, Under DEF At, Changing, Commanding
<1>3. IInv' /\ \A d \in Threads : call'[d] = IF d = c THEN Idle ELSE call[d]
  BY <1>1, CallMoved DEF Return
<1> QED
  BY <1>1, <1>2, <1>3 DEF StepInGoodHands

LEMMA CommandInv == ASSUME IInv, orphans \in Nat, Command PROVE IInv' /\ StepInGoodHands
<1>1. (orphans > 0 \/ \E c \in Threads : At(c, "run_command", "running")) /\ UNCHANGED <<call, orphans>>
  BY DEF Command
<1>2. \A c \in Threads : At(c, "run_command", "running") => Commanding(c)
  BY Under DEF At, Changing, Commanding
<1>3. IInv'
  BY <1>1 DEF IInv, CallGranted
<1> QED
  BY <1>1, <1>2, <1>3 DEF StepInGoodHands

LEMMA NextInv == ASSUME IInv, orphans \in Nat, Next PROVE IInv' /\ StepInGoodHands
<1>1. ASSUME NEW c \in Threads, Raise(c) \/ EndWithoutBranch(c) PROVE IInv' /\ StepInGoodHands
  BY <1>1, Ends DEF Raise, EndWithoutBranch
<1>2. ASSUME UNCHANGED call, orphans' \in Nat, orphans' <= orphans, UNCHANGED clone \/ ByPoller
      PROVE  IInv' /\ StepInGoodHands
  <2>1. IInv' /\ ~ (orphans' > orphans)
    BY <1>2 DEF IInv, CallGranted
  <2> QED
    BY <1>2, <2>1 DEF StepInGoodHands
<1>3. CASE OrphanEnds
  BY <1>2, <1>3 DEF OrphanEnds
<1>4. CASE Switch
  BY <1>2, <1>4 DEF Switch
<1>5. CASE Pull
  BY <1>2, <1>5 DEF Pull, ByPoller
<1> QED
  BY <1>1, <1>3, <1>4, <1>5, CheckInv, FileWritten, ReadForEditInv, RunCommandInv, EndCommandInv,
     CommandInv DEF Next

\* The number of commands left running is one.
LEMMA LeftCounts == orphans \in Nat /\ [Next]_workspaceVars => orphans' \in Nat
<1> SUFFICES ASSUME orphans \in Nat, [Next]_workspaceVars PROVE orphans' \in Nat
  OBVIOUS
<1>1. orphans' = orphans \/ orphans' \in {orphans, orphans + 1} \/ (orphans > 0 /\ orphans' = orphans - 1)
  BY DEF Next, Check, CheckDirect, Execute, Begin, Raise, WriteFile, ReadForEdit, WriteEdited,
         EndWithoutBranch, RunCommand, EndCommand, Command, OrphanEnds, Switch, Pull, workspaceVars
<1> QED
  BY <1>1

\* However the tools of several chats, their commands and the poller's pulls interleave on
\* one clone and capabilities are switched, nothing in it changes but by a pull, by the file
\* of a call granted write_code, or while a command runs that was granted execute or was left
\* running by such a one (execute_tool, _capability_denied, _dispatch_legacy).
THEOREM CloneStaysInGoodHands == Spec => CloneInGoodHands
<1> DEFINE Inv == IInv /\ orphans \in Nat
<1>1. Init => Inv
  BY InitInv DEF Init
<1>2. IInv /\ orphans \in Nat /\ [Next]_workspaceVars => IInv'
  <2>1. IInv /\ UNCHANGED workspaceVars => IInv'
    BY DEF IInv, CallGranted, workspaceVars
  <2> QED
    BY <2>1, NextInv
<1>3. Inv /\ [Next]_workspaceVars => Inv'
  BY <1>2, LeftCounts
<1>4. Inv /\ [Next]_workspaceVars =>
        [StepInGoodHands]_workspaceVars
  BY NextInv
<1> QED
  BY <1>1, <1>3, <1>4, PTL DEF Spec, CloneInGoodHands

-----------------------------------------------------------------------------
(* Type correctness.                                                         *)
\* The bounds are numbers.
BoundsAreNumbers == MaxEdits \in Nat /\ MaxSwitches \in Nat /\ MaxOrphans \in Nat

\* A call that read the file keeps edits of it.
CallTyped(x) ==
    x # Idle =>
        /\ x.tool \in Changing /\ x.at \in {"begin", "write", "running"}
        /\ x.at = "write" => x.read \subseteq 1 .. MaxEdits

CloneTyped ==
    /\ work \subseteq 1 .. MaxEdits /\ head \subseteq 1 .. MaxEdits
    /\ branches \subseteq Branches /\ prs \subseteq Branches

WorkTyped ==
    /\ off \subseteq Powers /\ edits \in 0 .. MaxEdits /\ switches \in 0 .. MaxSwitches
    /\ orphans \in 0 .. MaxOrphans
    /\ call = [c \in Threads |-> call[c]] /\ \A c \in Threads : CallTyped(call[c])
    /\ CloneTyped

\* A step that moves one call.
LEMMA CallMovesOn ==
  ASSUME WorkTyped, NEW c \in Threads, NEW x, call' = [call EXCEPT ![c] = x], CallTyped(x),
         CloneTyped', edits' \in 0 .. MaxEdits, orphans' \in 0 .. MaxOrphans, UNCHANGED <<off, switches>>
  PROVE  WorkTyped'
<1>1. \A d \in Threads : call'[d] = IF d = c THEN x ELSE call[d]
  BY DEF WorkTyped
<1>2. call' = [d \in Threads |-> call'[d]] /\ \A d \in Threads : CallTyped(call'[d])
  BY <1>1 DEF WorkTyped
<1> QED
  BY <1>2 DEF WorkTyped, CallTyped

LEMMA IdleTyped == CallTyped(Idle)
  BY DEF CallTyped

LEMMA EditMade ==
  ASSUME BoundsAreNumbers, WorkTyped, NewEdit
  PROVE  edits' \in 0 .. MaxEdits /\ edits' \in 1 .. MaxEdits /\ 1 .. edits' \subseteq 1 .. MaxEdits
  BY DEF BoundsAreNumbers, WorkTyped, NewEdit

LEMMA WorkNext ==
  ASSUME BoundsAreNumbers, WorkTyped, [Next]_workspaceVars
  PROVE  WorkTyped'
<1>1. ASSUME NEW c \in Threads, Check(c) \/ CheckDirect(c) PROVE WorkTyped'
  <2>1. PICK t \in Changing, u \in BOOLEAN : Execute(c, t, u)
    BY <1>1 DEF Check, CheckDirect
  <2>2. PICK x : x = [tool |-> t, at |-> "begin", granted |-> Meant(t) \ off, unconfirmed |-> u]
    OBVIOUS
  <2>3. CallTyped(x)
    BY <2>2 DEF CallTyped
  <2> QED
    BY <2>1, <2>2, <2>3, CallMovesOn DEF Execute, Begin, clone, WorkTyped, CloneTyped
<1>2. ASSUME NEW c \in Threads, Raise(c) \/ EndWithoutBranch(c) PROVE WorkTyped'
  BY <1>2, CallMovesOn, IdleTyped DEF Raise, EndWithoutBranch, Return, clone, WorkTyped, CloneTyped
<1>3. ASSUME NEW c \in Threads, WriteFile(c) PROVE WorkTyped'
  BY <1>3, EditMade, CallMovesOn, IdleTyped DEF WriteFile, Return, WorkTyped, CloneTyped
<1>4. ASSUME NEW c \in Threads, ReadForEdit(c) PROVE WorkTyped'
  <2>1. PICK x : x = [tool |-> "edit_file", at |-> "write", granted |-> call[c].granted,
                      unconfirmed |-> call[c].unconfirmed, read |-> work]
    OBVIOUS
  <2>2. call' = [call EXCEPT ![c] = x]
    BY <1>4, <2>1 DEF ReadForEdit, WorkTyped
  <2>3. CallTyped(x)
    BY <2>1 DEF CallTyped, Changing, WorkTyped, CloneTyped
  <2> QED
    BY <1>4, <2>2, <2>3, CallMovesOn DEF ReadForEdit, clone, WorkTyped, CloneTyped
<1>5. ASSUME NEW c \in Threads, WriteEdited(c) PROVE WorkTyped'
  <2>1. call[c].read \subseteq 1 .. MaxEdits
    BY <1>5 DEF WriteEdited, At, WorkTyped, CallTyped, Idle
  <2> QED
    BY <1>5, <2>1, EditMade, CallMovesOn, IdleTyped DEF WriteEdited, Return, WorkTyped, CloneTyped
<1>6. ASSUME NEW c \in Threads, RunCommand(c) PROVE WorkTyped'
  <2>1. PICK x : x = [tool |-> "run_command", at |-> "running", granted |-> call[c].granted,
                      unconfirmed |-> call[c].unconfirmed]
    OBVIOUS
  <2>2. call' = [call EXCEPT ![c] = x]
    BY <1>6, <2>1 DEF RunCommand, WorkTyped
  <2>3. CallTyped(x)
    BY <2>1 DEF CallTyped, Changing
  <2> QED
    BY <1>6, <2>2, <2>3, CallMovesOn DEF RunCommand, clone, WorkTyped, CloneTyped
<1>7. ASSUME NEW c \in Threads, EndCommand(c) PROVE WorkTyped'
  BY <1>7, CallMovesOn, IdleTyped DEF EndCommand, Return, clone, WorkTyped, CloneTyped
<1>8. CASE Command
  <2>1. UNCHANGED <<off, call, orphans, switches>>
    BY <1>8 DEF Command
  <2>2. edits' \in 0 .. MaxEdits /\ 1 .. edits \subseteq 1 .. MaxEdits
    BY <1>8, EditMade DEF Command, WorkTyped, BoundsAreNumbers
  <2>3. CloneTyped'
    BY <1>8, <2>2, EditMade DEF Command, WorkTyped, CloneTyped
  <2> QED
    BY <2>1, <2>2, <2>3 DEF WorkTyped, CallTyped
<1>9. CASE OrphanEnds
  BY <1>9 DEF OrphanEnds, clone, WorkTyped, CloneTyped, CallTyped, BoundsAreNumbers
<1>10. CASE Switch
  <2>1. switches' \in 0 .. MaxSwitches /\ off' \subseteq Powers
    BY <1>10 DEF Switch, WorkTyped, BoundsAreNumbers
  <2> QED
    BY <1>10, <2>1 DEF Switch, clone, WorkTyped, CloneTyped, CallTyped
<1>11. CASE Pull
  BY <1>11 DEF Pull, WorkTyped, CloneTyped, CallTyped
<1>12. CASE UNCHANGED workspaceVars
  BY <1>12 DEF workspaceVars, WorkTyped, CloneTyped, CallTyped
<1> QED
  BY <1>1, <1>2, <1>3, <1>4, <1>5, <1>6, <1>7, <1>8, <1>9, <1>10, <1>11, <1>12 DEF Next

\* Type correctness: a tool past its first step has what that step read, and what a command
\* leaves is made of the edits there are (execute_tool, _dispatch_legacy).
THEOREM TypeCorrect == ASSUME BoundsAreNumbers PROVE Spec => []TypeOK
<1>1. Init => WorkTyped
  BY DEF BoundsAreNumbers, Init, WorkTyped, CloneTyped, CallTyped
<1>2. WorkTyped /\ [Next]_workspaceVars => WorkTyped'
  BY WorkNext
<1>3. WorkTyped => TypeOK
  BY DEF WorkTyped, CloneTyped, CallTyped, TypeOK
<1> QED
  BY <1>1, <1>2, <1>3, PTL DEF Spec
=============================================================================
