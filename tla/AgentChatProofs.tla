-------------------------- MODULE AgentChatProofs --------------------------
(***************************************************************************)
(* Safety properties of module AgentChat, for every limit of the loop, any *)
(* capabilities, and any number of tool calls and switches.                *)
(***************************************************************************)
EXTENDS AgentChat, FiniteSetTheorems, SequenceTheorems, WellFoundedInduction, TLAPS

\* The calls of a turn in progress, as far as the properties below need them.
CallsInv ==
  /\ calls \in Seq(Tools)
  /\ pc \in {"check", "run"} => calls # <<>>

\* A tool that is about to start has not started late since its capability was
\* switched off, and nothing is late while a capability is on.
LateInv ==
  /\ enabled \in [Capabilities -> BOOLEAN]
  /\ late \in [Capabilities -> Nat]
  /\ \A c \in Capabilities :
       /\ late[c] <= 1
       /\ enabled[c] => late[c] = 0
       /\ pc = "run" /\ Head(calls) = c => late[c] = 0

\* What is stored at each place of the request.
StoredInv ==
  /\ pc = "open" => convo = "none"
  /\ pc # "open" /\ convo = "kept" =>
       /\ pc # "closed" => stored = {"user"}
       /\ pc = "closed" =>
            stored = {"user"} \cup (IF shown = "text" THEN {"assistant"} ELSE {})
  /\ DeletedConversationEmpty

IInv == CallsInv /\ LateInv /\ StoredInv

-----------------------------------------------------------------------------
LEMMA InitInv == Init => IInv
  BY DEF Init, IInv, CallsInv, LateInv, StoredInv, DeletedConversationEmpty

\* The calls that are run are the first ones asked for, and there is one at least.
LEMMA FirstCalls ==
  ASSUME NEW n \in 1..MaxCalls, NEW asked \in [1..n -> Tools]
  PROVE  LET k == IF n < MaxToolsPerTurn THEN n ELSE MaxToolsPerTurn
         IN  /\ SubSeq(asked, 1, k) \in Seq(Tools) /\ SubSeq(asked, 1, k) # <<>>
             /\ Len(SubSeq(asked, 1, k)) = k
<1> DEFINE k == IF n < MaxToolsPerTurn THEN n ELSE MaxToolsPerTurn
<1>1. n \in Nat /\ k \in Nat /\ 1 <= k /\ k <= n
  BY LoopAssumption, BoundsAssumption
<1>2. asked \in Seq(Tools) /\ Len(asked) = n
  BY <1>1
<1>3. SubSeq(asked, 1, k) \in Seq(Tools) /\ Len(SubSeq(asked, 1, k)) = k
  BY <1>1, <1>2
<1>4. SubSeq(asked, 1, k) # <<>>
  BY <1>1, <1>3
<1> QED
  BY <1>3, <1>4

LEMMA ReplyCalls ==
  ASSUME IInv, pc \in {"check", "run"}, Reply
  PROVE  CallsInv' /\ pc' \in {"prune", "check"}
<1>1. calls \in Seq(Tools) /\ calls # <<>>
  BY DEF IInv, CallsInv
<1>2. calls' = Tail(calls) /\ pc' = IF Len(calls) = 1 THEN "prune" ELSE "check"
  BY DEF Reply
<1>3. calls' \in Seq(Tools) /\ Len(calls') = Len(calls) - 1
  BY <1>1, <1>2
<1>4. pc' = "check" => Len(calls') # 0
  BY <1>1, <1>2, <1>3
<1> QED
  BY <1>2, <1>3, <1>4, EmptySeq DEF CallsInv

LEMMA StepCalls == IInv /\ [Next]_vars => CallsInv'
<1> SUFFICES ASSUME IInv, [Next]_vars PROVE CallsInv'
  OBVIOUS
<1> USE DEF IInv
<1>1. CASE LLMCallsTools
  <2>0. PICK n \in 1..MaxCalls : \E asked \in [1..n -> Tools] :
          calls' = SubSeq(asked, 1, IF n < MaxToolsPerTurn
                                    THEN n ELSE MaxToolsPerTurn)
    BY <1>1 DEF LLMCallsTools
  <2>1. PICK asked \in [1..n -> Tools] :
          calls' = SubSeq(asked, 1, IF n < MaxToolsPerTurn
                                    THEN n ELSE MaxToolsPerTurn)
    BY <2>0
  <2> QED
    BY <2>1, FirstCalls DEF CallsInv
<1>2. CASE CheckTool
  <2>1. CASE Reply
    BY <1>2, <2>1, ReplyCalls DEF CheckTool
  <2>2. CASE pc' = "run" /\ UNCHANGED <<transcript, calls>>
    BY <1>2, <2>2 DEF CheckTool, CallsInv
  <2> QED
    BY <1>2, <2>1, <2>2 DEF CheckTool
<1>3. CASE RunTool
  BY <1>3, ReplyCalls DEF RunTool
<1>4. CASE ToolRaises
  BY <1>4, ReplyCalls DEF ToolRaises
<1>5. CASE OpenChat \/ RetrieveContext \/ Prune \/ LLMFails \/ LLMLeaks
           \/ LLMAnswers \/ StepLimit \/ WrapUp \/ LogUsage \/ SaveAnswer
           \/ Disconnect
  BY <1>5 DEF CallsInv, OpenChat, RetrieveContext, Prune, LLMFails, LLMLeaks,
              LLMAnswers, StepLimit, WrapUp, LogUsage, SaveAnswer, Disconnect,
              loopVars
<1>6. CASE DeleteConversation \/ UNCHANGED vars
           \/ \E c \in Capabilities, on \in BOOLEAN : SetPermission(c, on)
  BY <1>6 DEF CallsInv, DeleteConversation, SetPermission, loopVars, vars
<1> QED
  BY <1>1, <1>2, <1>3, <1>4, <1>5, <1>6 DEF Next, RequestStep

\* A tool that starts is counted late at most once: its check saw the capability
\* on, and the next check will see it off.
LEMMA CountedLate ==
  ASSUME IInv, pc = "run", Counted, UNCHANGED enabled, pc' # "run"
  PROVE  LateInv'
<1> USE DEF IInv, LateInv
<1>1. CASE Gated /\ ~enabled[Head(calls)]
  <2>1. late' = [late EXCEPT ![Head(calls)] = @ + 1]
    BY <1>1 DEF Counted
  <2>2. Head(calls) \in Capabilities /\ late[Head(calls)] = 0
    BY <1>1 DEF Gated
  <2>3. late' \in [Capabilities -> Nat]
    BY <2>1, <2>2
  <2>4. ASSUME NEW c \in Capabilities
        PROVE  late'[c] <= 1 /\ (enabled[c] => late'[c] = 0)
    BY <1>1, <2>1, <2>2
  <2> QED
    BY <2>3, <2>4
<1>2. CASE ~(Gated /\ ~enabled[Head(calls)])
  BY <1>2 DEF Counted
<1> QED
  BY <1>1, <1>2

LEMMA StepLate == IInv /\ [Next]_vars => LateInv'
<1> SUFFICES ASSUME IInv, [Next]_vars PROVE LateInv'
  OBVIOUS
<1> USE DEF IInv
<1>1. CASE CheckTool
  <2>1. UNCHANGED <<enabled, late>>
    BY <1>1 DEF CheckTool, envVars
  <2>2. CASE Reply
    <3>1. pc' \in {"prune", "check"}
      BY <1>1, <2>2, ReplyCalls DEF CheckTool
    <3> QED
      BY <2>1, <3>1 DEF LateInv
  <2>3. CASE /\ ~(Gated /\ (session = "aborted" \/ ~enabled[Head(calls)]))
             /\ UNCHANGED <<transcript, calls>>
    <3>1. ASSUME NEW c \in Capabilities, Head(calls) = c
          PROVE  late[c] = 0
      BY <2>3, <3>1 DEF Gated, LateInv
    <3> QED
      BY <2>1, <2>3, <3>1 DEF LateInv
  <2> QED
    BY <1>1, <2>2, <2>3 DEF CheckTool
<1>2. CASE RunTool \/ ToolRaises
  <2>1. pc = "run" /\ Counted /\ Reply /\ UNCHANGED enabled
    BY <1>2 DEF RunTool, ToolRaises, envVars
  <2>2. pc' \in {"prune", "check"}
    BY <2>1, ReplyCalls
  <2> QED
    BY <2>1, <2>2, CountedLate
<1>3. ASSUME NEW c \in Capabilities, NEW on \in BOOLEAN, SetPermission(c, on)
      PROVE  LateInv'
  BY <1>3 DEF SetPermission, LateInv, loopVars
<1>4. CASE LLMCallsTools
  BY <1>4 DEF LateInv, LLMCallsTools, envVars
<1>5. CASE OpenChat \/ RetrieveContext \/ Prune \/ LLMFails \/ LLMLeaks
           \/ LLMAnswers \/ StepLimit \/ WrapUp \/ LogUsage \/ SaveAnswer
           \/ Disconnect
  BY <1>5 DEF LateInv, OpenChat, RetrieveContext, Prune, LLMFails, LLMLeaks,
              LLMAnswers, StepLimit, WrapUp, LogUsage, SaveAnswer, Disconnect,
              loopVars, envVars
<1>6. CASE DeleteConversation \/ UNCHANGED vars
  BY <1>6 DEF LateInv, DeleteConversation, loopVars, vars
<1> QED
  BY <1>1, <1>2, <1>3, <1>4, <1>5, <1>6 DEF Next, RequestStep

LEMMA StepStored == IInv /\ [Next]_vars => StoredInv'
<1> SUFFICES ASSUME IInv, [Next]_vars PROVE StoredInv'
  OBVIOUS
<1> USE DEF IInv, StoredInv, DeletedConversationEmpty
<1>1. CASE CheckTool \/ RunTool \/ ToolRaises
  <2>1. pc \in {"check", "run"} /\ pc' \in {"prune", "check", "run"}
    BY <1>1, ReplyCalls DEF CheckTool, RunTool, ToolRaises
  <2>2. UNCHANGED <<convo, stored, shown>>
    BY <1>1 DEF CheckTool, RunTool, ToolRaises, envVars
  <2> QED
    BY <2>1, <2>2
<1>2. CASE SaveAnswer
  BY <1>2 DEF SaveAnswer
<1>3. CASE OpenChat \/ DeleteConversation \/ Disconnect
           \/ \E c \in Capabilities, on \in BOOLEAN : SetPermission(c, on)
  BY <1>3 DEF OpenChat, DeleteConversation, Disconnect, SetPermission,
              Streaming, envVars
<1>4. CASE RetrieveContext \/ Prune \/ LLMFails \/ LLMCallsTools \/ LLMLeaks
           \/ LLMAnswers \/ StepLimit \/ WrapUp \/ LogUsage
  BY <1>4 DEF RetrieveContext, Prune, LLMFails, LLMCallsTools, LLMLeaks,
              LLMAnswers, StepLimit, WrapUp, LogUsage, envVars
<1>5. CASE UNCHANGED vars
  BY <1>5 DEF vars
<1> QED
  BY <1>1, <1>2, <1>3, <1>4, <1>5 DEF Next, RequestStep

LEMMA Invariance == Spec => []IInv
<1>1. IInv /\ [Next]_vars => IInv'
  BY StepCalls, StepLate, StepStored DEF IInv
<1> QED
  BY InitInv, <1>1, PTL DEF Spec

-----------------------------------------------------------------------------
\* Of the tools gated by a capability that was switched off, at most the one that
\* had passed its check still starts, whatever the model asks for and however
\* often capabilities are switched (execute_tool and set_permission).
THEOREM SwitchedOffStaysOff == Spec => []AtMostOneLateRun
<1>1. IInv => AtMostOneLateRun
  BY DEF IInv, LateInv, AtMostOneLateRun
<1> QED
  BY <1>1, Invariance, PTL

\* A chat that ended in good order has stored both messages of the exchange, or
\* the user's alone if there was no answer (handler chat of api/agent.py).
THEOREM ClosedIsStored == Spec => []ExchangeStored
<1>1. IInv => ExchangeStored
  BY DEF IInv, StoredInv, ExchangeStored
<1> QED
  BY <1>1, Invariance, PTL

\* Deleting a conversation is final, even while its answer is being written.
THEOREM DeletedStaysEmpty == Spec => []DeletedConversationEmpty
<1>1. IInv => DeletedConversationEmpty
  BY DEF IInv, StoredInv
<1> QED
  BY <1>1, Invariance, PTL
-----------------------------------------------------------------------------
(* The transcript.  Its shape is an invariant of its own: TranscriptInv says *)
(* which messages follow which, and the three properties about what the      *)
(* provider is sent are read off it.                                         *)

\* The calls of a turn that are run at all.
Limit(n) == IF n < MaxToolsPerTurn THEN n ELSE MaxToolsPerTurn

\* Messages are in the order of their turns, and a turn asks for tools once.
TurnsGrow ==
  /\ pc \in {"llm", "check", "run"} => turn >= 1
  /\ \A i \in DOMAIN transcript :
       transcript[i].turn <= turn /\ (pc = "llm" => transcript[i].turn < turn)
  /\ \A i, j \in DOMAIN transcript : i < j =>
       /\ transcript[i].turn <= transcript[j].turn
       /\ transcript[j].kind = "calls" => transcript[i].turn < transcript[j].turn

\* What follows an assistant message are the results of the calls that are run;
\* none of them is missing when a provider is called again.
CallsAnswered ==
  \A c \in DOMAIN transcript : transcript[c].kind = "calls" =>
    \A k \in 1..Limit(transcript[c].n) :
      /\ pc \in {"prune", "llm", "wrapup"} => c + k \in DOMAIN transcript
      /\ c + k \in DOMAIN transcript =>
           /\ transcript[c + k].kind = "result"
           /\ transcript[c + k].turn = transcript[c].turn
           /\ transcript[c + k].n = k

ResultsAsked ==
  \A i \in Results(transcript) :
    \E c \in 1..(i - 1) :
      /\ transcript[c].kind = "calls"
      /\ i - c = transcript[i].n
      /\ transcript[i].n <= Limit(transcript[c].n)
      /\ transcript[i].turn = transcript[c].turn

\* While tools are run, the last assistant message is the one whose calls are
\* still to be run, and the ones before it are answered.
TurnPending ==
  pc \in {"check", "run"} =>
    \E c \in DOMAIN transcript :
      /\ transcript[c].kind = "calls" /\ transcript[c].turn = turn
      /\ Len(transcript) - c + Len(calls) = Limit(transcript[c].n)
      /\ \A j \in DOMAIN transcript : j > c => transcript[j].kind = "result"
      /\ \A d \in DOMAIN transcript :
           transcript[d].kind = "calls" /\ d # c =>
             d + Limit(transcript[d].n) <= Len(transcript)

\* A result the slice may not reach as long as it is one of the latest turn.
OutOfReach(tr, i) ==
  ResultsBefore(tr, i) + 2 >= KeepToolResults \/ \A j \in Results(tr) : j <= i

\* LatestTurnUsable wherever the request stands.
LatestIntact ==
  MaxToolsPerTurn <= KeepToolResults =>
    \A i \in LatestResults :
      OutOfReach(transcript, i) => transcript[i].intact

\* Just pruned, a result that kept its content has few results after it.
JustPruned ==
  pc = "llm" =>
    \A i \in Results(transcript) : transcript[i].intact =>
      Cardinality({j \in Results(transcript) : j > i}) < KeepToolResults

TranscriptInv ==
  /\ transcript \in Seq(Message) /\ turn \in 0..MaxIterations
  /\ pc \in {"open", "context"} => transcript = <<>>
  /\ TurnsGrow /\ CallsAnswered /\ ResultsAsked /\ TurnPending
  /\ LatestIntact /\ JustPruned

LEMMA MessageFields ==
  ASSUME NEW tr \in Seq(Message), NEW i \in DOMAIN tr
  PROVE  /\ tr[i].kind \in {"calls", "result", "note"}
         /\ tr[i].turn \in Nat /\ 1 <= tr[i].turn
         /\ tr[i].n \in 0..MaxCalls /\ tr[i].intact \in BOOLEAN
<1>1. tr[i] \in Message
  OBVIOUS
<1> QED
  BY <1>1, LoopAssumption DEF Message

LEMMA LimitNat ==
  ASSUME NEW tr \in Seq(Message), NEW i \in DOMAIN tr
  PROVE  tr[i].n \in Nat /\ Limit(tr[i].n) \in Nat
<1>1. tr[i].n \in Nat
  BY MessageFields, BoundsAssumption
<1> QED
  BY <1>1, LoopAssumption DEF Limit

LEMMA TranscriptInit == Init => TranscriptInv
<1> SUFFICES ASSUME Init PROVE TranscriptInv
  OBVIOUS
<1>1. transcript = <<>> /\ turn = 0 /\ pc = "open" /\ MaxIterations \in Nat
  BY LoopAssumption DEF Init
<1>2. DOMAIN transcript = {} /\ transcript \in Seq(Message)
  BY <1>1
<1> QED
  BY <1>1, <1>2 DEF TranscriptInv, TurnsGrow, CallsAnswered, ResultsAsked,
     TurnPending, LatestIntact, LatestResults, JustPruned, Results

\* Nothing happens to the transcript, and the loop does not go on with it.
LEMMA TranscriptKept ==
  ASSUME TranscriptInv, UNCHANGED <<turn, transcript, calls>>,
         \/ pc' = pc
         \/ pc' \in {"log", "save", "closed", "broken", "gone"}
         \/ pc = "check" /\ pc' = "run"
         \/ pc = "open" /\ pc' = "context"
  PROVE  TranscriptInv'
<1>1. /\ transcript' \in Seq(Message) /\ turn' \in 0..MaxIterations
      /\ pc' \in {"open", "context"} => transcript' = <<>>
  BY DEF TranscriptInv
<1>2. TurnsGrow'
  BY DEF TranscriptInv, TurnsGrow
<1>3. CallsAnswered'
  BY DEF TranscriptInv, CallsAnswered
<1>4. ResultsAsked' /\ LatestIntact'
  BY DEF TranscriptInv, ResultsAsked, LatestIntact, LatestResults, OutOfReach,
     ResultsBefore, Results
<1>5. TurnPending'
  BY DEF TranscriptInv, TurnPending
<1>6. JustPruned'
  BY DEF TranscriptInv, JustPruned, Results
<1> QED
  BY <1>1, <1>2, <1>3, <1>4, <1>5, <1>6 DEF TranscriptInv

\* A message that is no result leaves the results where they were.
LEMMA OldResultsAsked ==
  ASSUME transcript \in Seq(Message), ResultsAsked,
         \A i \in DOMAIN transcript : transcript'[i] = transcript[i],
         Results(transcript') = Results(transcript)
  PROVE  ResultsAsked'
<1> SUFFICES ASSUME NEW i \in Results(transcript)
             PROVE  \E c \in 1..(i - 1) :
                      /\ transcript'[c].kind = "calls"
                      /\ i - c = transcript'[i].n
                      /\ transcript'[i].n <= Limit(transcript'[c].n)
                      /\ transcript'[i].turn = transcript'[c].turn
  BY DEF ResultsAsked
<1>1. PICK c \in 1..(i - 1) :
        /\ transcript[c].kind = "calls" /\ i - c = transcript[i].n
        /\ transcript[i].n <= Limit(transcript[c].n)
        /\ transcript[i].turn = transcript[c].turn
  BY DEF ResultsAsked
<1>2. i \in DOMAIN transcript /\ c \in DOMAIN transcript
  BY <1>1 DEF Results
<1> QED
  BY <1>1, <1>2

\* A reminder comes after all results of its turn (LLMLeaks, StepLimit).
LEMMA NoteAppended ==
  ASSUME TranscriptInv, pc \in {"llm", "prune"}, pc' \in {"prune", "wrapup"},
         transcript' = Append(transcript, Note), turn' = turn, turn >= 1
  PROVE  TranscriptInv'
<1> DEFINE L == Len(transcript)
<1>1. L \in Nat /\ DOMAIN transcript = 1..L /\ DOMAIN transcript' = 1..(L + 1)
  BY DEF TranscriptInv
<1>2. transcript' \in Seq(Message)
  <2>1. Note \in Message
    BY LoopAssumption, BoundsAssumption DEF Note, Message, TranscriptInv
  <2> QED
    BY <2>1 DEF TranscriptInv
<1>3. transcript'[L + 1] = Note /\ \A i \in 1..L : transcript'[i] = transcript[i]
  BY <1>1 DEF TranscriptInv
<1>4. Results(transcript') = Results(transcript)
  BY <1>1, <1>3 DEF Results, Note
<1>5. TurnsGrow'
  <2>1. \A i \in 1..L : transcript[i].turn \in Nat
    BY <1>1, MessageFields DEF TranscriptInv
  <2> QED
    BY <1>1, <1>3, <2>1 DEF TranscriptInv, TurnsGrow, Note
<1>6. CallsAnswered'
  <2> SUFFICES ASSUME NEW c \in 1..(L + 1), transcript'[c].kind = "calls",
                      NEW k \in 1..Limit(transcript'[c].n)
               PROVE  /\ c + k \in 1..(L + 1)
                      /\ transcript'[c + k].kind = "result"
                      /\ transcript'[c + k].turn = transcript'[c].turn
                      /\ transcript'[c + k].n = k
    BY <1>1 DEF CallsAnswered
  <2>1. c \in 1..L /\ transcript'[c] = transcript[c]
    BY <1>1, <1>3 DEF Note
  <2>2. c + k \in 1..L /\ transcript[c + k].kind = "result"
        /\ transcript[c + k].turn = transcript[c].turn /\ transcript[c + k].n = k
    BY <1>1, <2>1 DEF TranscriptInv, CallsAnswered
  <2> QED
    BY <1>1, <1>3, <2>1, <2>2
<1>7. ResultsAsked'
  BY <1>1, <1>3, <1>4, OldResultsAsked DEF TranscriptInv
<1>8. LatestIntact'
  <2>1. LatestResults' = LatestResults /\ LatestResults \subseteq 1..L
    BY <1>1, <1>3, <1>4 DEF LatestResults, Results, Note
  <2>2. \A i \in 1..L : OutOfReach(transcript', i) <=> OutOfReach(transcript, i)
    BY <1>4 DEF OutOfReach, ResultsBefore
  <2> QED
    BY <1>3, <2>1, <2>2 DEF TranscriptInv, LatestIntact
<1> QED
  BY <1>2, <1>5, <1>6, <1>7, <1>8
     DEF TranscriptInv, TurnPending, JustPruned

\* Pruning changes nothing but whether a message is intact.
LEMMA PrunedFacts ==
  ASSUME NEW tr \in Seq(Message)
  PROVE  /\ Pruned(tr) \in Seq(Message) /\ DOMAIN Pruned(tr) = DOMAIN tr
         /\ Len(Pruned(tr)) = Len(tr)
         /\ Results(Pruned(tr)) = Results(tr)
         /\ \A i \in DOMAIN tr :
              /\ Pruned(tr)[i].kind = tr[i].kind
              /\ Pruned(tr)[i].turn = tr[i].turn
              /\ Pruned(tr)[i].n = tr[i].n
         /\ \A i \in Results(tr) :
              Pruned(tr)[i].intact <=>
                /\ tr[i].intact
                /\ ~(ResultsBefore(tr, i) < SliceEnd(Cardinality(Results(tr))))
<1> DEFINE far(i) ==
             /\ i \in Results(tr)
             /\ ResultsBefore(tr, i) < SliceEnd(Cardinality(Results(tr)))
<1>1. Pruned(tr) = [i \in 1..Len(tr) |->
                      IF far(i) THEN [tr[i] EXCEPT !.intact = FALSE] ELSE tr[i]]
  BY DEF Pruned, Elided
<1>2. \A i \in 1..Len(tr) : tr[i] \in Message
  OBVIOUS
<1>3. \A i \in 1..Len(tr) :
        /\ Pruned(tr)[i] \in Message
        /\ Pruned(tr)[i].kind = tr[i].kind
        /\ Pruned(tr)[i].turn = tr[i].turn
        /\ Pruned(tr)[i].n = tr[i].n
        /\ Pruned(tr)[i].intact <=> (tr[i].intact /\ ~far(i))
  <2> HIDE DEF far
  <2> SUFFICES ASSUME NEW i \in 1..Len(tr)
               PROVE  /\ Pruned(tr)[i] \in Message
                      /\ Pruned(tr)[i].kind = tr[i].kind
                      /\ Pruned(tr)[i].turn = tr[i].turn
                      /\ Pruned(tr)[i].n = tr[i].n
                      /\ Pruned(tr)[i].intact <=> (tr[i].intact /\ ~far(i))
    OBVIOUS
  <2>1. CASE far(i)
    <3>1. Pruned(tr)[i] = [tr[i] EXCEPT !.intact = FALSE]
      BY <1>1, <2>1
    <3> QED
      BY <1>2, <2>1, <3>1 DEF Message
  <2>2. CASE ~far(i)
    <3>1. Pruned(tr)[i] = tr[i]
      BY <1>1, <2>2
    <3> QED
      BY <1>2, <2>2, <3>1 DEF Message
  <2> QED
    BY <2>1, <2>2
<1>4. Pruned(tr) \in Seq(Message) /\ DOMAIN Pruned(tr) = 1..Len(tr)
      /\ Len(Pruned(tr)) = Len(tr)
  <2> HIDE DEF far
  <2>1. Pruned(tr) \in [1..Len(tr) -> Message]
    BY <1>1, <1>3
  <2> QED
    BY <2>1
<1>5. DOMAIN tr = 1..Len(tr)
  OBVIOUS
<1>6. Results(Pruned(tr)) = Results(tr)
  <2> HIDE DEF far
  <2> QED
    BY <1>3, <1>4, <1>5 DEF Results
<1>7. \A i \in Results(tr) : i \in 1..Len(tr)
  BY <1>5 DEF Results
<1> QED
  BY <1>3, <1>4, <1>5, <1>6, <1>7

LEMMA AfterFinite ==
  ASSUME NEW tr \in Seq(Message), NEW i
  PROVE  /\ IsFiniteSet(Results(tr))
         /\ IsFiniteSet({j \in Results(tr) : j > i})
         /\ Cardinality({j \in Results(tr) : j > i}) \in Nat
<1>1. Results(tr) \subseteq 1..Len(tr) /\ Len(tr) \in Int
  BY DEF Results
<1>2. IsFiniteSet(1..Len(tr))
  BY <1>1, FS_Interval
<1>3. IsFiniteSet(Results(tr))
  BY <1>1, <1>2, FS_Subset
<1>4. {j \in Results(tr) : j > i} \subseteq Results(tr)
  OBVIOUS
<1>5. IsFiniteSet({j \in Results(tr) : j > i})
  BY <1>3, <1>4, FS_Subset
<1> QED
  BY <1>3, <1>5, FS_CardinalityType

\* What the slice takes and leaves of the results: those it leaves have few after
\* them, and one with few after it is taken only near the start of the request.
LEMMA SliceFacts ==
  ASSUME NEW tr \in Seq(Message), NEW i \in Results(tr)
  PROVE  LET after == Cardinality({j \in Results(tr) : j > i})
             stop  == SliceEnd(Cardinality(Results(tr)))
         IN  /\ ~(ResultsBefore(tr, i) < stop) => after < KeepToolResults
             /\ after < KeepToolResults /\ OutOfReach(tr, i) =>
                  ~(ResultsBefore(tr, i) < stop)
<1> DEFINE R == Results(tr)
           A == {j \in Results(tr) : j > i}
           B == {j \in Results(tr) : j < i}
<1>1. IsFiniteSet(R) /\ IsFiniteSet(A) /\ Cardinality(A) \in Nat /\ R \subseteq Nat
  <2>1. R \subseteq Nat
    BY DEF Results
  <2> QED
    BY <2>1, AfterFinite
<1>2. IsFiniteSet(B) /\ Cardinality(B) \in Nat
  <2>1. B \subseteq R
    OBVIOUS
  <2> QED
    BY <1>1, <2>1, FS_Subset, FS_CardinalityType
<1>3. Cardinality(R) = Cardinality(B) + Cardinality(A) + 1
  <2>1. R \ {i} = A \cup B /\ A \cap B = {} /\ i \in R
    BY <1>1
  <2>2. Cardinality(A \cup B) = Cardinality(A) + Cardinality(B) - Cardinality(A \cap B)
    BY <1>1, <1>2, FS_Union
  <2>3. Cardinality({}) = 0
    BY FS_EmptySet
  <2>4. Cardinality(R \ {i}) = Cardinality(R) - 1 /\ Cardinality(R) \in Nat
    BY <1>1, <2>1, FS_RemoveElement, FS_CardinalityType
  <2>5. Cardinality(R \ {i}) = Cardinality(A) + Cardinality(B) - 0
    <3>1. Cardinality(A \cap B) = 0
      BY ONLY <2>1, <2>3
    <3>2. Cardinality(R \ {i}) = Cardinality(A \cup B)
      BY ONLY <2>1
    <3> HIDE DEF R, A, B
    <3> QED
      BY ONLY <2>2, <3>1, <3>2
  <2> HIDE DEF R, A, B
  <2> QED
    BY ONLY <1>1, <1>2, <2>4, <2>5
<1>4. (\A j \in R : j <= i) => Cardinality(A) = 0
  <2> SUFFICES ASSUME \A j \in R : j <= i PROVE Cardinality(A) = 0
    OBVIOUS
  <2>1. A = {}
    BY <1>1
  <2> QED
    BY <2>1, FS_EmptySet
<1>5. ResultsBefore(tr, i) = Cardinality(B) /\ KeepToolResults \in Nat \ {0}
  BY LoopAssumption DEF ResultsBefore
<1>6. ~(Cardinality(B) < SliceEnd(Cardinality(R))) => Cardinality(A) < KeepToolResults
  <2> HIDE DEF R, A, B
  <2> QED
    BY <1>1, <1>2, <1>3, <1>5 DEF SliceEnd
<1>7. ASSUME Cardinality(A) < KeepToolResults,
             Cardinality(B) + 2 >= KeepToolResults \/ Cardinality(A) = 0
      PROVE  ~(Cardinality(B) < SliceEnd(Cardinality(R)))
  <2> HIDE DEF R, A, B
  <2> QED
    BY <1>1, <1>2, <1>3, <1>5, <1>7 DEF SliceEnd
<1>8. OutOfReach(tr, i) <=>
        Cardinality(B) + 2 >= KeepToolResults \/ \A j \in R : j <= i
  BY <1>5 DEF OutOfReach
<1> HIDE DEF R
<1> QED
  BY <1>4, <1>5, <1>6, <1>7, <1>8 DEF R

LEMMA SmallestExists ==
  ASSUME NEW S \in SUBSET Nat, S # {}
  PROVE  \E m \in S : \A i \in S : m <= i
<1>1. PICK m \in S : \A i \in S : ~ (<<i, m>> \in OpToRel(<, Nat))
  BY NatLessThanWellFounded, WFMin
<1>2. \A i \in S : ~ (i < m)
  BY <1>1 DEF OpToRel
<1> QED
  BY <1>2

\* Of the latest turn there are at most MaxToolsPerTurn - 1 results after any one.
LEMMA FewAfterLatest ==
  ASSUME TranscriptInv, MaxToolsPerTurn <= KeepToolResults,
         NEW i \in Results(transcript),
         \A j \in DOMAIN transcript :
           transcript[j].kind = "calls" => transcript[j].turn <= transcript[i].turn
  PROVE  Cardinality({j \in Results(transcript) : j > i}) < KeepToolResults
<1> DEFINE after == {j \in Results(transcript) : j > i}
<1>1. PICK c \in 1..(i - 1) :
        /\ transcript[c].kind = "calls" /\ i - c = transcript[i].n
        /\ transcript[i].n <= Limit(transcript[c].n)
        /\ transcript[i].turn = transcript[c].turn
  BY DEF TranscriptInv, ResultsAsked
<1>2. DOMAIN transcript = 1..Len(transcript) /\ Len(transcript) \in Nat
      /\ c \in DOMAIN transcript /\ i \in DOMAIN transcript
  BY <1>1 DEF TranscriptInv, Results
<1>3. ASSUME NEW j \in after
      PROVE  j \in (i + 1)..(c + MaxToolsPerTurn)
  <2>1. PICK d \in 1..(j - 1) :
          /\ transcript[d].kind = "calls" /\ j - d = transcript[j].n
          /\ transcript[j].n <= Limit(transcript[d].n)
          /\ transcript[j].turn = transcript[d].turn
    BY DEF TranscriptInv, ResultsAsked
  <2>2. j \in DOMAIN transcript /\ d \in DOMAIN transcript /\ j > i
    BY <1>2, <2>1 DEF Results
  <2>3. /\ transcript[i].turn \in Nat /\ transcript[j].turn \in Nat
        /\ transcript[c].turn \in Nat /\ transcript[d].turn \in Nat
        /\ transcript[d].n \in Nat /\ transcript[j].n \in Nat
    <3>1. transcript \in Seq(Message)
      BY DEF TranscriptInv
    <3>2. 0..MaxCalls \subseteq Nat
      BY BoundsAssumption
    <3> QED
      BY <1>2, <2>2, <3>1, <3>2, MessageFields
  <2>4. ~(c < d)
    BY <1>1, <1>2, <2>1, <2>2, <2>3 DEF TranscriptInv, TurnsGrow
  <2>5. ~(d < c)
    BY <1>1, <1>2, <2>1, <2>2, <2>3 DEF TranscriptInv, TurnsGrow
  <2>6. d = c
    BY <1>2, <2>2, <2>4, <2>5
  <2> QED
    BY <1>2, <2>1, <2>2, <2>3, <2>6, LoopAssumption DEF Limit
<1>4. i \in Nat /\ c \in Nat /\ c < i /\ MaxToolsPerTurn \in Nat
  BY <1>1, <1>2, LoopAssumption
<1>5. /\ IsFiniteSet((i + 1)..(c + MaxToolsPerTurn))
      /\ Cardinality((i + 1)..(c + MaxToolsPerTurn)) < KeepToolResults
  <2>1. i + 1 \in Int /\ c + MaxToolsPerTurn \in Int
    BY <1>4
  <2>2. /\ IsFiniteSet((i + 1)..(c + MaxToolsPerTurn))
        /\ Cardinality((i + 1)..(c + MaxToolsPerTurn)) =
             IF i + 1 > c + MaxToolsPerTurn THEN 0
             ELSE (c + MaxToolsPerTurn) - (i + 1) + 1
    BY <2>1, FS_Interval
  <2> QED
    BY <1>4, <2>2, LoopAssumption
<1>6. /\ IsFiniteSet(after)
      /\ Cardinality(after) <= Cardinality((i + 1)..(c + MaxToolsPerTurn))
  BY <1>3, <1>5, FS_Subset
<1>7. Cardinality(after) \in Nat /\ Cardinality((i + 1)..(c + MaxToolsPerTurn)) \in Nat
  BY <1>5, <1>6, FS_CardinalityType
<1> QED
  BY <1>5, <1>6, <1>7, LoopAssumption

LEMMA TranscriptPruned ==
  ASSUME TranscriptInv, Prune
  PROVE  TranscriptInv'
<1> DEFINE L == Len(transcript)
<1>1. /\ pc = "prune" /\ turn < MaxIterations /\ transcript' = Pruned(transcript)
      /\ turn' = turn + 1 /\ pc' = "llm" /\ transcript \in Seq(Message)
      /\ turn \in Nat /\ MaxIterations \in Nat
  BY LoopAssumption DEF Prune, TranscriptInv
<1>2. /\ transcript' \in Seq(Message) /\ DOMAIN transcript' = DOMAIN transcript
      /\ Results(transcript') = Results(transcript)
      /\ \A i \in DOMAIN transcript : /\ transcript'[i].kind = transcript[i].kind
                                      /\ transcript'[i].turn = transcript[i].turn
                                      /\ transcript'[i].n = transcript[i].n
      /\ \A i \in Results(transcript) : transcript'[i].intact <=>
           /\ transcript[i].intact
           /\ ~(ResultsBefore(transcript, i)
                  < SliceEnd(Cardinality(Results(transcript))))
  BY <1>1, PrunedFacts
<1>3. \A i \in DOMAIN transcript : transcript[i].turn \in Nat
  BY <1>1, MessageFields
<1>4. DOMAIN transcript = 1..L /\ L \in Nat
  BY <1>1
<1>5. TurnsGrow'
  BY <1>1, <1>2, <1>3 DEF TranscriptInv, TurnsGrow
<1>6. CallsAnswered'
  BY <1>1, <1>2 DEF TranscriptInv, CallsAnswered
<1>7. ResultsAsked'
  <2> SUFFICES ASSUME NEW i \in Results(transcript)
               PROVE  \E c \in 1..(i - 1) :
                        /\ transcript'[c].kind = "calls"
                        /\ i - c = transcript'[i].n
                        /\ transcript'[i].n <= Limit(transcript'[c].n)
                        /\ transcript'[i].turn = transcript'[c].turn
    BY <1>2 DEF ResultsAsked
  <2>1. PICK c \in 1..(i - 1) :
          /\ transcript[c].kind = "calls" /\ i - c = transcript[i].n
          /\ transcript[i].n <= Limit(transcript[c].n)
          /\ transcript[i].turn = transcript[c].turn
    BY DEF TranscriptInv, ResultsAsked
  <2>2. i \in DOMAIN transcript /\ c \in DOMAIN transcript
    BY <1>4, <2>1 DEF Results
  <2> QED
    BY <1>2, <2>1, <2>2
<1>8. LatestIntact'
  <2> SUFFICES ASSUME MaxToolsPerTurn <= KeepToolResults,
                      NEW i \in LatestResults, OutOfReach(transcript, i)
               PROVE  transcript'[i].intact
    <3>1. LatestResults' = LatestResults
      BY <1>2 DEF LatestResults, Results
    <3>2. \A i \in Results(transcript) :
            OutOfReach(transcript', i) <=> OutOfReach(transcript, i)
      BY <1>2 DEF OutOfReach, ResultsBefore
    <3>3. LatestResults \subseteq Results(transcript)
      BY DEF LatestResults
    <3> QED
      BY <3>1, <3>2, <3>3 DEF LatestIntact
  <2>1. i \in Results(transcript)
    BY DEF LatestResults
  <2>2. \A j \in DOMAIN transcript :
          transcript[j].kind = "calls" => transcript[j].turn <= transcript[i].turn
    BY DEF LatestResults
  <2>3. transcript[i].intact
    BY DEF TranscriptInv, LatestIntact
  <2>4. Cardinality({j \in Results(transcript) : j > i}) < KeepToolResults
    BY <2>1, <2>2, FewAfterLatest
  <2> QED
    BY <1>1, <1>2, <2>1, <2>3, <2>4, SliceFacts
<1>9. JustPruned'
  <2> SUFFICES ASSUME NEW i \in Results(transcript), transcript'[i].intact
               PROVE  Cardinality({j \in Results(transcript) : j > i}) < KeepToolResults
    BY <1>2 DEF JustPruned
  <2>1. ~(ResultsBefore(transcript, i) < SliceEnd(Cardinality(Results(transcript))))
    BY <1>2
  <2> QED
    BY <1>1, <2>1, SliceFacts
<1> QED
  BY <1>1, <1>2, <1>5, <1>6, <1>7, <1>8, <1>9 DEF TranscriptInv, TurnPending

\* An assistant message with calls opens a turn in which none is answered yet.
LEMMA CallsAppended ==
  ASSUME TranscriptInv, pc = "llm", pc' = "check", turn' = turn,
         NEW n \in 1..MaxCalls,
         transcript' = Append(transcript,
           [kind |-> "calls", turn |-> turn, n |-> n, intact |-> TRUE]),
         calls' \in Seq(Tools), Len(calls') = Limit(n)
  PROVE  TranscriptInv'
<1> DEFINE L == Len(transcript)
           m == [kind |-> "calls", turn |-> turn, n |-> n, intact |-> TRUE]
<1>1. L \in Nat /\ DOMAIN transcript = 1..L /\ DOMAIN transcript' = 1..(L + 1)
      /\ Len(transcript') = L + 1
  BY DEF TranscriptInv
<1>2. turn \in 1..MaxIterations /\ turn \in Nat /\ n \in Nat /\ n \in 0..MaxCalls
  BY LoopAssumption, BoundsAssumption DEF TranscriptInv, TurnsGrow
<1>3. transcript' \in Seq(Message)
  <2>1. m \in Message
    BY <1>2 DEF Message
  <2> QED
    BY <2>1 DEF TranscriptInv
<1>4. transcript'[L + 1] = m /\ \A i \in 1..L : transcript'[i] = transcript[i]
  BY <1>1 DEF TranscriptInv
<1>5. Results(transcript') = Results(transcript)
  BY <1>1, <1>4 DEF Results
<1>6. \A i \in 1..L : transcript[i].turn \in Nat /\ transcript[i].turn < turn
  BY <1>1, MessageFields DEF TranscriptInv, TurnsGrow
<1>7. TurnsGrow'
  BY <1>1, <1>2, <1>4, <1>6 DEF TranscriptInv, TurnsGrow
<1>8. \A c \in 1..L : transcript[c].kind = "calls" =>
        \A k \in 1..Limit(transcript[c].n) : c + k \in 1..L
  BY <1>1 DEF TranscriptInv, CallsAnswered
<1>9. CallsAnswered'
  <2> SUFFICES ASSUME NEW c \in 1..(L + 1), transcript'[c].kind = "calls",
                      NEW k \in 1..Limit(transcript'[c].n),
                      c + k \in 1..(L + 1)
               PROVE  /\ transcript'[c + k].kind = "result"
                      /\ transcript'[c + k].turn = transcript'[c].turn
                      /\ transcript'[c + k].n = k
    BY <1>1 DEF CallsAnswered
  <2>1. c \in 1..L /\ transcript'[c] = transcript[c]
    BY <1>1, <1>4
  <2>2. c + k \in 1..L /\ transcript'[c + k] = transcript[c + k]
    BY <1>4, <1>8, <2>1
  <2>3. /\ transcript[c + k].kind = "result"
        /\ transcript[c + k].turn = transcript[c].turn
        /\ transcript[c + k].n = k
    <3>1. CallsAnswered /\ c \in DOMAIN transcript /\ c + k \in DOMAIN transcript
          /\ transcript[c].kind = "calls" /\ k \in 1..Limit(transcript[c].n)
      BY <1>1, <2>1, <2>2 DEF TranscriptInv
    <3> QED
      BY <3>1 DEF CallsAnswered
  <2> QED
    BY <2>1, <2>2, <2>3
<1>10. ResultsAsked'
  BY <1>1, <1>4, <1>5, OldResultsAsked DEF TranscriptInv
<1>11. TurnPending'
  <2>1. \A d \in 1..L : transcript[d].kind = "calls" =>
          d + Limit(transcript[d].n) <= L
    <3> SUFFICES ASSUME NEW d \in 1..L, transcript[d].kind = "calls"
                 PROVE  d + Limit(transcript[d].n) <= L
      OBVIOUS
    <3>1. Limit(transcript[d].n) \in Nat
      BY <1>1, LimitNat DEF TranscriptInv
    <3>2. CASE Limit(transcript[d].n) = 0
      BY <1>1, <3>2
    <3>3. CASE Limit(transcript[d].n) # 0
      <4>1. Limit(transcript[d].n) \in 1..Limit(transcript[d].n)
        BY <3>1, <3>3
      <4> QED
        BY <1>8, <4>1
    <3> QED
      BY <3>2, <3>3
  <2>2. /\ L + 1 \in DOMAIN transcript'
        /\ transcript'[L + 1].kind = "calls" /\ transcript'[L + 1].turn = turn'
        /\ Len(transcript') - (L + 1) + Len(calls') = Limit(transcript'[L + 1].n)
    BY <1>1, <1>4
  <2>3. \A d \in DOMAIN transcript' :
          transcript'[d].kind = "calls" /\ d # L + 1 =>
            d + Limit(transcript'[d].n) <= Len(transcript')
    <3> SUFFICES ASSUME NEW d \in 1..L, transcript[d].kind = "calls"
                 PROVE  d + Limit(transcript[d].n) <= L + 1
      BY <1>1, <1>4
    <3>1. Limit(transcript[d].n) \in Nat
      BY <1>1, LimitNat DEF TranscriptInv
    <3> QED
      BY <1>1, <2>1, <3>1
  <2>4. \A j \in DOMAIN transcript' : ~(j > L + 1)
    BY <1>1
  <2> QED
    BY <2>2, <2>3, <2>4 DEF TurnPending
<1>12. LatestIntact'
  <2> SUFFICES ASSUME NEW i \in Results(transcript)
               PROVE  ~(transcript'[L + 1].turn <= transcript'[i].turn)
    <3> SUFFICES ASSUME MaxToolsPerTurn <= KeepToolResults,
                        NEW i \in Results(transcript'),
                        \A j \in DOMAIN transcript' :
                          transcript'[j].kind = "calls" =>
                            transcript'[j].turn <= transcript'[i].turn
                 PROVE  FALSE
      BY DEF LatestIntact, LatestResults
    <3>1. L + 1 \in DOMAIN transcript' /\ transcript'[L + 1].kind = "calls"
      BY <1>1, <1>4
    <3>2. transcript'[L + 1].turn <= transcript'[i].turn
      BY <3>1
    <3> QED
      BY <1>5, <3>2
  <2>1. i \in 1..L
    BY <1>1 DEF Results
  <2> QED
    BY <1>2, <1>4, <1>6, <2>1
<1> QED
  BY <1>2, <1>3, <1>7, <1>9, <1>10, <1>11, <1>12 DEF TranscriptInv, JustPruned

\* A result answers the next call of the turn in progress.
LEMMA ResultAppended ==
  ASSUME TranscriptInv, CallsInv, pc \in {"check", "run"}, Reply, turn' = turn
  PROVE  TranscriptInv'
<1> DEFINE L == Len(transcript)
<1>1. L \in Nat /\ DOMAIN transcript = 1..L /\ transcript \in Seq(Message)
      /\ turn \in 1..MaxIterations /\ turn \in Nat
  BY LoopAssumption DEF TranscriptInv, TurnsGrow
<1>2. PICK c \in 1..L :
        /\ transcript[c].kind = "calls" /\ transcript[c].turn = turn
        /\ L - c + Len(calls) = Limit(transcript[c].n)
        /\ \A j \in 1..L : j > c => transcript[j].kind = "result"
        /\ \A d \in 1..L : transcript[d].kind = "calls" /\ d # c =>
             d + Limit(transcript[d].n) <= L
  BY <1>1 DEF TranscriptInv, TurnPending
<1> DEFINE k == L - c + 1
           m == [kind |-> "result", turn |-> turn, n |-> k, intact |-> TRUE]
<1>3. transcript' = Append(transcript, m)
  <2> DEFINE last(i) == /\ transcript[i].kind = "calls"
                        /\ \A j \in DOMAIN transcript :
                             transcript[j].kind = "calls" => j <= i
  <2>1. c \in DOMAIN transcript /\ last(c)
    BY <1>1, <1>2
  <2>2. \A i \in DOMAIN transcript : last(i) => i = c
    BY <1>1, <1>2
  <2>3. c = CHOOSE i \in DOMAIN transcript : last(i)
    <3> HIDE DEF last
    <3> QED
      BY <2>1, <2>2
  <2> QED
    BY <2>3 DEF Reply
<1>4. /\ calls \in Seq(Tools) /\ Len(calls) \in Nat /\ Len(calls) >= 1
      /\ calls' = Tail(calls) /\ Len(calls') = Len(calls) - 1
      /\ pc' = IF Len(calls) = 1 THEN "prune" ELSE "check"
  <2>1. calls \in Seq(Tools) /\ calls # <<>>
    BY DEF CallsInv
  <2>2. Len(calls) \in Nat /\ Len(calls) >= 1 /\ Len(Tail(calls)) = Len(calls) - 1
    BY <2>1, EmptySeq
  <2> QED
    BY <2>1, <2>2 DEF Reply
<1>5. /\ transcript[c].n \in 0..MaxCalls /\ transcript[c].n \in Nat
      /\ Limit(transcript[c].n) <= transcript[c].n
      /\ Limit(transcript[c].n) \in Nat
      /\ k \in Nat /\ 1 <= k /\ k <= Limit(transcript[c].n)
  <2>1. transcript[c].n \in 0..MaxCalls /\ transcript[c].n \in Nat
        /\ Limit(transcript[c].n) \in Nat
    BY <1>1, MessageFields, LimitNat
  <2>2. Limit(transcript[c].n) <= transcript[c].n
    BY <2>1, LoopAssumption DEF Limit
  <2> QED
    BY <1>1, <1>2, <1>4, <2>1, <2>2
<1>6. transcript' \in Seq(Message)
  <2>1. k \in 0..MaxCalls
    BY <1>5, BoundsAssumption
  <2>2. m \in Message
    BY <1>1, <2>1 DEF Message
  <2> QED
    BY <1>1, <1>3, <2>2
<1>7. /\ DOMAIN transcript' = 1..(L + 1) /\ Len(transcript') = L + 1
      /\ transcript'[L + 1] = m /\ \A i \in 1..L : transcript'[i] = transcript[i]
  BY <1>1, <1>3
<1>8. /\ m.kind = "result" /\ m.turn = turn /\ m.n = k /\ m.intact
      /\ L + 1 - c = k /\ c + k = L + 1
  BY <1>1, <1>2
<1>9. Results(transcript') = Results(transcript) \cup {L + 1}
  <2> HIDE DEF m
  <2> QED
    BY <1>1, <1>7, <1>8 DEF Results
<1> HIDE DEF m
<1>10. \A i \in 1..L : transcript[i].turn \in Nat /\ transcript[i].turn <= turn
  BY <1>1, MessageFields DEF TranscriptInv, TurnsGrow
<1>11. TurnsGrow'
  <2>1. pc' # "llm" /\ turn' >= 1 /\ turn' = turn
    BY <1>1, <1>4
  <2>2. \A i \in 1..(L + 1) : transcript'[i].turn <= turn
    BY <1>1, <1>7, <1>8, <1>10
  <2>3. ASSUME NEW i \in 1..(L + 1), NEW j \in 1..(L + 1), i < j
        PROVE  /\ transcript'[i].turn <= transcript'[j].turn
               /\ transcript'[j].kind = "calls" =>
                    transcript'[i].turn < transcript'[j].turn
    <3>1. i \in 1..L /\ transcript'[i] = transcript[i]
      BY <1>1, <1>7, <2>3
    <3>2. CASE j = L + 1
      BY <1>7, <1>8, <1>10, <3>1, <3>2
    <3>3. CASE j \in 1..L
      BY <1>1, <1>7, <2>3, <3>1, <3>3 DEF TranscriptInv, TurnsGrow
    <3> QED
      BY <1>1, <3>2, <3>3
  <2> QED
    BY <1>7, <2>1, <2>2, <2>3 DEF TurnsGrow
<1>12. CallsAnswered'
  <2> SUFFICES ASSUME NEW d \in 1..(L + 1), transcript'[d].kind = "calls",
                      NEW i \in 1..Limit(transcript'[d].n)
               PROVE  /\ pc' \in {"prune", "llm", "wrapup"} => d + i \in 1..(L + 1)
                      /\ d + i \in 1..(L + 1) =>
                           /\ transcript'[d + i].kind = "result"
                           /\ transcript'[d + i].turn = transcript'[d].turn
                           /\ transcript'[d + i].n = i
    BY <1>7 DEF CallsAnswered
  <2>1. d \in 1..L /\ transcript'[d] = transcript[d]
    BY <1>1, <1>7, <1>8
  <2>2. ASSUME d + i \in 1..L
        PROVE  /\ transcript[d + i].kind = "result"
               /\ transcript[d + i].turn = transcript[d].turn
               /\ transcript[d + i].n = i
    BY <1>1, <2>1, <2>2 DEF TranscriptInv, CallsAnswered
  <2>3. CASE d = c
    <3>1. d + i = L + 1 => i = k
      BY <1>1, <2>3
    <3>2. pc' = "prune" => d + i \in 1..(L + 1)
      <4>1. i \in 1..Limit(transcript[c].n)
        BY <2>1, <2>3
      <4>2. pc' = "prune" => Limit(transcript[c].n) = L - c + 1
        BY <1>1, <1>2, <1>4
      <4> QED
        BY <1>1, <2>3, <4>1, <4>2
    <3>3. pc' \in {"prune", "llm", "wrapup"} => pc' = "prune"
      BY <1>4
    <3>4. CASE d + i = L + 1
      BY <1>2, <1>7, <1>8, <2>1, <2>3, <3>1, <3>2, <3>3, <3>4
    <3>5. CASE d + i # L + 1
      <4>1. d + i \in 1..(L + 1) => d + i \in 1..L
        BY <1>1, <3>5
      <4> QED
        BY <1>7, <2>1, <2>2, <3>2, <3>3, <4>1
    <3> QED
      BY <3>4, <3>5
  <2>4. CASE d # c
    <3>1. d + i \in 1..L
      <4>1. Limit(transcript[d].n) \in Nat /\ d + Limit(transcript[d].n) <= L
        BY <1>1, <1>2, <2>1, <2>4, LimitNat
      <4> QED
        BY <1>1, <2>1, <4>1
    <3> QED
      BY <1>1, <1>7, <2>1, <2>2, <3>1
  <2> QED
    BY <2>3, <2>4
<1>13. ResultsAsked'
  <2> SUFFICES ASSUME NEW i \in Results(transcript')
               PROVE  \E d \in 1..(i - 1) :
                        /\ transcript'[d].kind = "calls"
                        /\ i - d = transcript'[i].n
                        /\ transcript'[i].n <= Limit(transcript'[d].n)
                        /\ transcript'[i].turn = transcript'[d].turn
    BY DEF ResultsAsked
  <2>1. CASE i = L + 1
    <3>1. c \in 1..(i - 1)
      BY <1>1, <2>1
    <3> QED
      BY <1>2, <1>5, <1>7, <1>8, <2>1, <3>1
  <2>2. CASE i \in Results(transcript)
    <3>1. PICK d \in 1..(i - 1) :
            /\ transcript[d].kind = "calls" /\ i - d = transcript[i].n
            /\ transcript[i].n <= Limit(transcript[d].n)
            /\ transcript[i].turn = transcript[d].turn
      BY <2>2 DEF TranscriptInv, ResultsAsked
    <3>2. i \in 1..L /\ d \in 1..L
      BY <1>1, <2>2, <3>1 DEF Results
    <3> QED
      BY <1>7, <3>1, <3>2
  <2> QED
    BY <1>9, <2>1, <2>2
<1>14. TurnPending'
  <2> SUFFICES ASSUME pc' = "check"
               PROVE  TurnPending'
    BY <1>4 DEF TurnPending
  <2>1. /\ c \in 1..(L + 1) /\ transcript'[c].kind = "calls"
        /\ transcript'[c].turn = turn'
        /\ Len(transcript') - c + Len(calls') = Limit(transcript'[c].n)
    <3>1. c \in 1..(L + 1) /\ transcript'[c] = transcript[c]
      BY <1>1, <1>7
    <3>2. Len(transcript') - c + Len(calls') = L - c + Len(calls)
      <4> HIDE DEF L
      <4>1. /\ c \in Nat /\ L \in Nat /\ Len(calls) \in Nat
            /\ Len(transcript') = L + 1 /\ Len(calls') = Len(calls) - 1
        BY <1>1, <1>4, <1>7
      <4> QED
        BY <4>1
    <3> QED
      BY <1>2, <3>1, <3>2
  <2>2. \A j \in 1..(L + 1) : j > c => transcript'[j].kind = "result"
    BY <1>1, <1>2, <1>7, <1>8
  <2>3. ASSUME NEW d \in 1..(L + 1), transcript'[d].kind = "calls", d # c
        PROVE  d + Limit(transcript'[d].n) <= Len(transcript')
    <3>1. d \in 1..L /\ transcript'[d] = transcript[d]
      BY <1>1, <1>7, <1>8, <2>3
    <3>2. Limit(transcript[d].n) \in Nat /\ d + Limit(transcript[d].n) <= L
      BY <1>1, <1>2, <2>3, <3>1, LimitNat
    <3> QED
      BY <1>1, <1>7, <3>1, <3>2
  <2> QED
    BY <1>7, <2>1, <2>2, <2>3 DEF TurnPending
<1>15. LatestIntact'
  <2> SUFFICES ASSUME MaxToolsPerTurn <= KeepToolResults,
                      NEW i \in Results(transcript'),
                      OutOfReach(transcript', i),
                      \A j \in DOMAIN transcript' :
                        transcript'[j].kind = "calls" =>
                          transcript'[j].turn <= transcript'[i].turn
               PROVE  transcript'[i].intact
    BY DEF LatestIntact, LatestResults
  <2>1. CASE i = L + 1
    BY <1>7, <1>8, <2>1
  <2>2. CASE i \in Results(transcript)
    <3>1. i \in 1..L
      BY <1>1, <2>2 DEF Results
    <3>2. \A j \in 1..L :
            transcript[j].kind = "calls" => transcript[j].turn <= transcript[i].turn
      BY <1>1, <1>7, <3>1
    <3>3. OutOfReach(transcript, i)
      <4>1. Results(transcript) \subseteq 1..L
        BY <1>1 DEF Results
      <4>2. {j \in Results(transcript') : j < i} = {j \in Results(transcript) : j < i}
        BY <1>1, <1>9, <3>1, <4>1
      <4> QED
        BY <1>1, <1>9, <3>1, <4>2 DEF OutOfReach, ResultsBefore
    <3> QED
      BY <1>1, <1>7, <2>2, <3>1, <3>2, <3>3
         DEF TranscriptInv, LatestIntact, LatestResults
  <2> QED
    BY <1>9, <2>1, <2>2
<1> QED
  BY <1>1, <1>4, <1>6, <1>11, <1>12, <1>13, <1>14, <1>15
     DEF TranscriptInv, JustPruned

LEMMA TranscriptStep == IInv /\ TranscriptInv /\ [Next]_vars => TranscriptInv'
<1> SUFFICES ASSUME IInv, TranscriptInv, [Next]_vars PROVE TranscriptInv'
  OBVIOUS
<1>0. CallsInv
  BY DEF IInv
<1>1. CASE LLMCallsTools
  <2>1. pc = "llm" /\ pc' = "check" /\ turn' = turn
    BY <1>1 DEF LLMCallsTools
  <2>2. PICK n \in 1..MaxCalls : \E asked \in [1..n -> Tools] :
          /\ transcript' = Append(transcript,
               [kind |-> "calls", turn |-> turn, n |-> n, intact |-> TRUE])
          /\ calls' = SubSeq(asked, 1, Limit(n))
    BY <1>1 DEF LLMCallsTools, Limit
  <2>3. PICK asked \in [1..n -> Tools] : calls' = SubSeq(asked, 1, Limit(n))
    BY <2>2
  <2>4. calls' \in Seq(Tools) /\ Len(calls') = Limit(n)
    BY <2>3, FirstCalls DEF Limit
  <2> QED
    BY <2>1, <2>2, <2>4, CallsAppended
<1>2. CASE CheckTool
  <2>1. pc = "check" /\ turn' = turn
    BY <1>2 DEF CheckTool
  <2>2. CASE Reply
    BY <1>0, <2>1, <2>2, ResultAppended
  <2>3. CASE pc' = "run" /\ UNCHANGED <<transcript, calls>>
    BY <2>1, <2>3, TranscriptKept
  <2> QED
    BY <1>2, <2>2, <2>3 DEF CheckTool
<1>3. CASE RunTool \/ ToolRaises
  BY <1>0, <1>3, ResultAppended DEF RunTool, ToolRaises
<1>4. CASE Prune
  BY <1>4, TranscriptPruned
<1>5. CASE LLMLeaks \/ StepLimit
  <2>1. /\ pc \in {"llm", "prune"} /\ pc' \in {"prune", "wrapup"}
        /\ transcript' = Append(transcript, Note) /\ turn' = turn
    BY <1>5 DEF LLMLeaks, StepLimit
  <2>2. turn >= 1
    BY <1>5, LoopAssumption DEF LLMLeaks, StepLimit, TranscriptInv, TurnsGrow
  <2> QED
    BY <2>1, <2>2, NoteAppended
<1>6. CASE RetrieveContext
  <2>1. transcript = <<>> /\ UNCHANGED <<turn, transcript, calls>>
        /\ pc' = "prune"
    BY <1>6 DEF RetrieveContext, TranscriptInv, loopVars
  <2>2. DOMAIN transcript' = {}
    BY <2>1
  <2> QED
    BY <2>1, <2>2 DEF TranscriptInv, TurnsGrow, CallsAnswered, ResultsAsked,
       TurnPending, LatestIntact, LatestResults, JustPruned, Results
<1>7. CASE OpenChat \/ LLMFails \/ LLMAnswers \/ WrapUp \/ LogUsage \/ SaveAnswer
           \/ Disconnect
  BY <1>7, TranscriptKept DEF OpenChat, LLMFails, LLMAnswers, WrapUp, LogUsage,
     SaveAnswer, Disconnect, loopVars
<1>8. CASE DeleteConversation \/ UNCHANGED vars
           \/ \E c \in Capabilities, on \in BOOLEAN : SetPermission(c, on)
  BY <1>8, TranscriptKept DEF DeleteConversation, SetPermission, loopVars, vars
<1> QED
  BY <1>1, <1>2, <1>3, <1>4, <1>5, <1>6, <1>7, <1>8 DEF Next, RequestStep

LEMMA TranscriptInvariance == Spec => []TranscriptInv
  BY TranscriptInit, TranscriptStep, Invariance, PTL DEF Spec

-----------------------------------------------------------------------------
\* Every transcript that is sent keeps the contract of the chat API as long as no
\* turn asked for more than is run, whatever is denied, raises or is pruned
\* (run_agent_loop and tool_result_message).
THEOREM ContractHolds == Spec => []ContractWithinLimit
<1>1. TranscriptInv => ContractWithinLimit
  <2> SUFFICES ASSUME TranscriptInv, pc \in {"llm", "wrapup"},
                      \A i \in DOMAIN transcript :
                        transcript[i].kind = "calls" =>
                          transcript[i].n <= MaxToolsPerTurn
               PROVE  ContractKept
    BY DEF ContractWithinLimit
  <2>1. transcript \in Seq(Message) /\ DOMAIN transcript = 1..Len(transcript)
        /\ Len(transcript) \in Nat
    BY DEF TranscriptInv
  <2>2. ASSUME NEW c \in DOMAIN transcript, transcript[c].kind = "calls"
        PROVE  Limit(transcript[c].n) = transcript[c].n
    <3>1. transcript[c].n <= MaxToolsPerTurn /\ transcript[c].n \in Nat
      BY <2>1, <2>2, LimitNat
    <3> QED
      BY <3>1, LoopAssumption DEF Limit
  <2>3. ASSUME NEW c \in DOMAIN transcript, transcript[c].kind = "calls",
               NEW k \in 1..transcript[c].n
        PROVE  /\ c + k \in Results(transcript)
               /\ transcript[c + k].turn = transcript[c].turn
               /\ transcript[c + k].n = k
    <3>1. k \in 1..Limit(transcript[c].n)
      BY <2>2, <2>3
    <3> QED
      BY <2>3, <3>1 DEF TranscriptInv, CallsAnswered, Results
  <2>4. ASSUME NEW i \in Results(transcript)
        PROVE  \E c \in 1..(i - 1) :
                 /\ transcript[c].kind = "calls"
                 /\ i - c = transcript[i].n
                 /\ transcript[i].n <= transcript[c].n
                 /\ transcript[i].turn = transcript[c].turn
    <3>1. PICK c \in 1..(i - 1) :
            /\ transcript[c].kind = "calls" /\ i - c = transcript[i].n
            /\ transcript[i].n <= Limit(transcript[c].n)
            /\ transcript[i].turn = transcript[c].turn
      BY DEF TranscriptInv, ResultsAsked
    <3>2. c \in DOMAIN transcript
      BY <2>1, <3>1 DEF Results
    <3> QED
      BY <2>2, <3>1, <3>2
  <2> QED
    BY <2>3, <2>4 DEF ContractKept
<1> QED
  BY <1>1, TranscriptInvariance, PTL

\* Of the latest turn that asked for tools the newest result always reaches the
\* model in full, and so does every other one that KeepToolResults - 2 results
\* came before, although the slice of _prune_tool_results may wrap around.
THEOREM LatestTurnSpared == Spec => []LatestTurnUsable
<1>1. TranscriptInv => LatestTurnUsable
  BY DEF TranscriptInv, LatestIntact, LatestTurnUsable, OutOfReach
<1> QED
  BY <1>1, TranscriptInvariance, PTL

\* No more than KeepToolResults full results are ever sent (_prune_tool_results):
\* the first of them has fewer than that many results after it.
THEOREM ContextStaysBounded == Spec => []ContextBounded
<1>1. TranscriptInv => ContextBounded
  <2> DEFINE full == {i \in Results(transcript) : transcript[i].intact}
             after(m) == {j \in Results(transcript) : j > m}
  <2> SUFFICES ASSUME TranscriptInv, pc = "llm"
               PROVE  Cardinality(full) <= KeepToolResults
    BY DEF ContextBounded
  <2>1. transcript \in Seq(Message) /\ KeepToolResults \in Nat
    BY LoopAssumption DEF TranscriptInv
  <2>2. IsFiniteSet(full) /\ Results(transcript) \subseteq Nat
    <3>1. IsFiniteSet(Results(transcript)) /\ full \subseteq Results(transcript)
      BY <2>1, AfterFinite
    <3> QED
      BY <2>1, <3>1, FS_Subset DEF Results
  <2>3. CASE full = {}
    BY <2>1, <2>2, <2>3, FS_EmptySet
  <2>4. CASE full # {}
    <3>1. PICK m \in full : \A i \in full : m <= i
      BY <2>2, <2>4, SmallestExists
    <3>2. full \ {m} \subseteq after(m)
      BY <2>2, <3>1
    <3>3. IsFiniteSet(after(m)) /\ Cardinality(after(m)) \in Nat
      BY <2>1, AfterFinite
    <3>4. Cardinality(after(m)) < KeepToolResults
      BY <3>1 DEF TranscriptInv, JustPruned
    <3>5. Cardinality(full \ {m}) <= Cardinality(after(m))
      BY <3>2, <3>3, FS_Subset
    <3>6. IsFiniteSet(full \ {m}) /\ Cardinality(full \ {m}) = Cardinality(full) - 1
      BY <2>2, <3>1, FS_RemoveElement
    <3>7. Cardinality(full) \in Nat
      BY <2>2, FS_CardinalityType
    <3> QED
      BY <2>1, <3>3, <3>4, <3>5, <3>6, <3>7
  <2> QED
    BY <2>3, <2>4
<1> QED
  BY <1>1, TranscriptInvariance, PTL

-----------------------------------------------------------------------------
\* What TypeOK says beyond the other invariants.
RequestTypes ==
  /\ pc \in {"open", "context", "prune", "llm", "check", "run", "wrapup",
             "log", "save", "closed", "broken", "gone"}
  /\ nudges \in 0..2
  /\ shown \in {"none", "text", "error"}
  /\ toggles \in 0..MaxToggles
  /\ session \in {"ok", "aborted"}
  /\ convo \in {"none", "kept", "deleted"}
  /\ stored \subseteq {"user", "assistant"}

LEMMA RequestTypesStep == IInv /\ RequestTypes /\ [Next]_vars => RequestTypes'
<1> SUFFICES ASSUME IInv, RequestTypes, [Next]_vars PROVE RequestTypes'
  OBVIOUS
<1> USE DEF RequestTypes
<1>1. CASE CheckTool \/ RunTool \/ ToolRaises
  <2>1. pc' \in {"prune", "check", "run"}
    BY <1>1, ReplyCalls DEF CheckTool, RunTool, ToolRaises
  <2>2. UNCHANGED <<nudges, shown, toggles, convo, stored>>
        /\ session' \in {session, "aborted"}
    BY <1>1 DEF CheckTool, RunTool, ToolRaises, envVars
  <2> QED
    BY <2>1, <2>2
<1>2. CASE LLMLeaks
  BY <1>2 DEF LLMLeaks, envVars
<1>3. CASE RetrieveContext \/ Prune \/ LLMFails \/ LLMCallsTools
           \/ LLMAnswers \/ StepLimit \/ WrapUp \/ LogUsage
  BY <1>3 DEF RetrieveContext, Prune, LLMFails, LLMCallsTools,
              LLMAnswers, StepLimit, WrapUp, LogUsage, envVars, loopVars
<1>4. CASE OpenChat \/ SaveAnswer \/ DeleteConversation \/ Disconnect
  BY <1>4 DEF OpenChat, SaveAnswer, DeleteConversation, Disconnect, loopVars, envVars
<1>5. ASSUME NEW c \in Capabilities, NEW on \in BOOLEAN, SetPermission(c, on)
      PROVE  RequestTypes'
  BY <1>5, BoundsAssumption DEF SetPermission, loopVars
<1>6. CASE UNCHANGED vars
  BY <1>6 DEF vars, loopVars, envVars
<1> QED
  BY <1>1, <1>2, <1>3, <1>4, <1>5, <1>6 DEF Next, RequestStep

\* Every variable of a request keeps its type, the transcript that of a chat.
THEOREM TypeCorrect == Spec => []TypeOK
<1>1. Init => RequestTypes
  BY BoundsAssumption DEF Init, RequestTypes
<1>2. IInv /\ TranscriptInv /\ RequestTypes => TypeOK
  BY DEF IInv, CallsInv, LateInv, TranscriptInv, RequestTypes, TypeOK
<1> QED
  BY <1>1, <1>2, Invariance, TranscriptInvariance, RequestTypesStep, PTL DEF Spec
=============================================================================
