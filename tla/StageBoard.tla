----------------------------- MODULE StageBoard -----------------------------
(***************************************************************************)
(* What the onboarding screen promises about one repository: a board with  *)
(* one status per stage.  Stages are worked on one at a time and in order; *)
(* a stage that failed may be tried again; the board is wiped only while   *)
(* nothing runs.  The Celery pipeline of module Onboarding implements it   *)
(* when the user is patient and no fault happens.                          *)
(***************************************************************************)
EXTENDS Naturals

CONSTANT NumStages       \* number of stages of the pipeline

VARIABLE board           \* board[s]: the status shown for stage s

Stages == 1..NumStages
BoardStatus == {"none", "running", "completed", "failed"}

BoardTypeOK == board \in [Stages -> BoardStatus]

BoardInit == board = [s \in Stages |-> "none"]

\* A stage starts, or starts again after a failure, when all before it are done.
Begin(s) ==
  /\ board[s] \in {"none", "failed"}
  /\ \A t \in 1..(s - 1) : board[t] = "completed"
  /\ board' = [board EXCEPT ![s] = "running"]

Settle(s) ==
  /\ board[s] = "running"
  /\ \E outcome \in {"completed", "failed"} :
       board' = [board EXCEPT ![s] = outcome]

Wipe ==
  /\ \A s \in Stages : board[s] # "running"
  /\ board' = [s \in Stages |-> "none"]

\* The chain moves on by itself to the stage after the one that completed.
Advance == \E s \in Stages \ {1} : board[s] = "none" /\ Begin(s)

BoardNext == Wipe \/ \E s \in Stages : Begin(s) \/ Settle(s)

BoardSpec ==
  /\ BoardInit
  /\ [][BoardNext]_board
  /\ WF_board(\E s \in Stages : Settle(s))
  /\ WF_board(Advance)
=============================================================================
