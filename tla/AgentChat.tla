----------------------------- MODULE AgentChat -----------------------------
(***************************************************************************)
(* One chat request: POST /agent/chat (api/agent.py), AgentRuntime.chat    *)
(* and execute_tool (services/agent/runtime.py), and the tool-calling loop *)
(* (services/agent/loop.py).                                               *)
(*                                                                         *)
(* Around it an administrator switches capabilities, the owner deletes the *)
(* conversation, the browser goes away, providers fail, and tools raise.   *)
(* One database session serves the whole request: after a statement that   *)
(* failed in it, every later one fails, because nothing rolls it back.     *)
(*                                                                         *)
(* A tool is known by the capability that gates it, a message by its kind. *)
(***************************************************************************)
EXTENDS Naturals, Sequences, FiniteSets

CONSTANTS
  MaxIterations,     \* max_iterations of run_agent_loop
  MaxToolsPerTurn,   \* max_tools_per_turn
  KeepToolResults,   \* keep_tool_results
  Capabilities,      \* the capabilities that gate tools (TOOL_CAPABILITY)
  MaxCalls,          \* bound: tool calls the model asks for in one turn
  MaxToggles         \* bound: switches of a capability during the request

ASSUME LoopAssumption ==
  /\ MaxIterations \in Nat \ {0}
  /\ MaxToolsPerTurn \in Nat \ {0}
  /\ KeepToolResults \in Nat \ {0}
ASSUME BoundsAssumption == MaxCalls \in Nat \ {0} /\ MaxToggles \in Nat
ASSUME CapabilitiesAssumption == "ungated" \notin Capabilities

VARIABLES
  pc,          \* where the request stands
  turn,        \* turns of the loop begun so far
  transcript,  \* messages appended after the prompt
  calls,       \* tool calls of the turn that are still to be run
  nudges,      \* reminders sent to a model that wrote its calls as text
  shown,       \* what the loop gave as its last word: nothing, a text, an error
  enabled,     \* enabled[c]: the row of table permissions
  toggles,     \* switches so far
  session,     \* the request's database session: "ok" or "aborted"
  convo,       \* the conversation: "none", "kept" or "deleted"
  stored,      \* roles of the messages of this request found in the database
  late         \* history: late[c] = tools of c begun since c was switched off

loopVars == <<turn, transcript, calls, nudges>>
envVars  == <<enabled, toggles, convo, stored>>
vars == <<pc, turn, transcript, calls, nudges, shown, enabled, toggles,
          session, convo, stored, late>>

Tools == Capabilities \cup {"ungated"}

\* n is the number of calls of an assistant message, or the call a result answers.
Message == [kind : {"calls", "result", "note"}, turn : 1..MaxIterations,
            n : 0..MaxCalls, intact : BOOLEAN]

TypeOK ==
  /\ pc \in {"open", "context", "prune", "llm", "check", "run", "wrapup",
             "log", "save", "closed", "broken", "gone"}
  /\ turn \in 0..MaxIterations
  /\ transcript \in Seq(Message)
  /\ calls \in Seq(Tools)
  /\ nudges \in 0..2
  /\ shown \in {"none", "text", "error"}
  /\ enabled \in [Capabilities -> BOOLEAN]
  /\ toggles \in 0..MaxToggles
  /\ session \in {"ok", "aborted"}
  /\ convo \in {"none", "kept", "deleted"}
  /\ stored \subseteq {"user", "assistant"}
  /\ late \in [Capabilities -> Nat]

Init ==
  /\ pc = "open"
  /\ turn = 0
  /\ transcript = <<>>
  /\ calls = <<>>
  /\ nudges = 0
  /\ shown = "none"
  /\ enabled \in [Capabilities -> BOOLEAN]
  /\ toggles = 0
  /\ session = "ok"
  /\ convo = "none"
  /\ stored = {}
  /\ late = [c \in Capabilities |-> 0]

-----------------------------------------------------------------------------
(* The handler before the loop.                                             *)

\* chat (api): get_or_create, save_message("user") and the commit.
OpenChat ==
  /\ pc = "open"
  /\ convo' = "kept"
  /\ stored' = {"user"}
  /\ pc' = "context"
  /\ UNCHANGED <<loopVars, shown, enabled, toggles, session, late>>

\* retrieve_context: a query that fails is swallowed, and poisons the session.
RetrieveContext ==
  /\ pc = "context"
  /\ session' \in {"ok", "aborted"}
  /\ pc' = "prune"
  /\ UNCHANGED <<loopVars, shown, envVars, late>>

-----------------------------------------------------------------------------
(* The loop.                                                                *)

Results(tr) == {i \in DOMAIN tr : tr[i].kind = "result"}

ResultsBefore(tr, i) == Cardinality({j \in Results(tr) : j < i})

\* Where the slice tool_idxs[: n - keep_last] of n results ends.  A bound below
\* zero counts from the end of the list, so some of them are taken all the same.
SliceEnd(n) ==
  IF n >= KeepToolResults THEN n - KeepToolResults
  ELSE IF n + n > KeepToolResults THEN n + n - KeepToolResults
  ELSE 0

\* The first results, up to stop, lose their content.
Elided(tr, stop) ==
  [i \in DOMAIN tr |->
     IF i \in Results(tr) /\ ResultsBefore(tr, i) < stop
     THEN [tr[i] EXCEPT !.intact = FALSE] ELSE tr[i]]

\* Mutants: one result too many is elided; nothing is elided.
PrunedTooFar(tr)  == Elided(tr, SliceEnd(Cardinality(Results(tr))) + 1)
PrunedNothing(tr) == tr

\* _prune_tool_results.
Pruned(tr) == Elided(tr, SliceEnd(Cardinality(Results(tr))))

Prune ==
  /\ pc = "prune" /\ turn < MaxIterations
  /\ transcript' = Pruned(transcript)
  /\ turn' = turn + 1
  /\ pc' = "llm"
  /\ UNCHANGED <<calls, nudges, shown, envVars, session, late>>

Note == [kind |-> "note", turn |-> turn, n |-> 0, intact |-> TRUE]

\* The contract of the chat API: the calls of an assistant message are followed
\* by one result each, in order, and there are no other results.
ContractKept ==
  /\ \A i \in DOMAIN transcript : transcript[i].kind = "calls" =>
       \A k \in 1..transcript[i].n :
         /\ i + k \in Results(transcript)
         /\ transcript[i + k].turn = transcript[i].turn
         /\ transcript[i + k].n = k
  /\ \A i \in Results(transcript) :
       \E c \in 1..(i - 1) :
         /\ transcript[c].kind = "calls"
         /\ i - c = transcript[i].n
         /\ transcript[i].n <= transcript[c].n
         /\ transcript[i].turn = transcript[c].turn

\* llm_call: every configured provider failed, as they do on a broken contract.
LLMFails ==
  /\ pc = "llm"
  /\ shown' = "error"
  /\ pc' = "log"
  /\ UNCHANGED <<loopVars, envVars, session, late>>

\* The model asks for tools; only the first MaxToolsPerTurn of them will be run.
LLMCallsTools ==
  /\ pc = "llm" /\ ContractKept
  /\ \E n \in 1..MaxCalls : \E asked \in [1..n -> Tools] :
       /\ transcript' = Append(transcript,
            [kind |-> "calls", turn |-> turn, n |-> n, intact |-> TRUE])
       /\ calls' = SubSeq(asked, 1, IF n < MaxToolsPerTurn
                                    THEN n ELSE MaxToolsPerTurn)
  /\ pc' = "check"
  /\ UNCHANGED <<turn, nudges, shown, envVars, session, late>>

\* Mutant: the model is reminded again and again.
LLMLeaksAlways ==
  /\ pc = "llm" /\ ContractKept
  /\ nudges' = nudges + 1
  /\ transcript' = Append(transcript, Note)
  /\ pc' = "prune"
  /\ UNCHANGED <<turn, calls, shown, envVars, session, late>>

\* The answer was nothing but leaked tool-call markup: remind the model, twice.
LLMLeaks ==
  /\ pc = "llm" /\ ContractKept /\ nudges < 2
  /\ nudges' = nudges + 1
  /\ transcript' = Append(transcript, Note)
  /\ pc' = "prune"
  /\ UNCHANGED <<turn, calls, shown, envVars, session, late>>

\* The model answers; an empty answer is replaced by a sentence of our own.
LLMAnswers ==
  /\ pc = "llm" /\ ContractKept
  /\ shown' = "text"
  /\ pc' = "log"
  /\ UNCHANGED <<loopVars, envVars, session, late>>

\* The step limit: a last call, whose answer or failure both give a text.
StepLimit ==
  /\ pc = "prune" /\ turn = MaxIterations
  /\ transcript' = Append(transcript, Note)
  /\ pc' = "wrapup"
  /\ UNCHANGED <<turn, calls, nudges, shown, envVars, session, late>>

\* Mutant: a wrap-up that fails ends the loop without a word.
WrapUpSilently ==
  /\ pc = "wrapup"
  /\ shown' \in {"none", "text"}
  /\ pc' = "log"
  /\ UNCHANGED <<loopVars, envVars, session, late>>

WrapUp ==
  /\ pc = "wrapup"
  /\ shown' = "text"
  /\ pc' = "log"
  /\ UNCHANGED <<loopVars, envVars, session, late>>

-----------------------------------------------------------------------------
(* execute_tool, for the first of the calls still to be run.                *)

\* tool_result_message, whatever the tool returned or raised.
Reply ==
  LET asked == CHOOSE i \in DOMAIN transcript :
                 /\ transcript[i].kind = "calls"
                 /\ \A j \in DOMAIN transcript :
                      transcript[j].kind = "calls" => j <= i
  IN  /\ transcript' = Append(transcript,
           [kind |-> "result", turn |-> turn,
            n |-> Len(transcript) - asked + 1, intact |-> TRUE])
      /\ calls' = Tail(calls)
      /\ pc' = IF Len(calls) = 1 THEN "prune" ELSE "check"

Gated == Head(calls) \in Capabilities

\* Mutant: the capability is looked up for the first call of a turn only.
CheckToolOnce ==
  /\ pc = "check"
  /\ LET first == transcript[Len(transcript)].kind = "calls"
     IN  IF first /\ Gated /\ (session = "aborted" \/ ~enabled[Head(calls)])
         THEN Reply
         ELSE pc' = "run" /\ UNCHANGED <<transcript, calls>>
  /\ UNCHANGED <<turn, nudges, shown, envVars, session, late>>

\* _capability_denied: the query raises in an aborted session, or finds the row
\* switched off; both come back to the model as an error.
CheckTool ==
  /\ pc = "check"
  /\ IF Gated /\ (session = "aborted" \/ ~enabled[Head(calls)])
     THEN Reply
     ELSE pc' = "run" /\ UNCHANGED <<transcript, calls>>
  /\ UNCHANGED <<turn, nudges, shown, envVars, session, late>>

\* The tool itself starts now, on what the check found before.
Counted ==
  late' = IF Gated /\ ~enabled[Head(calls)]
          THEN [late EXCEPT ![Head(calls)] = @ + 1] ELSE late

RunTool ==
  /\ pc = "run"
  /\ Counted
  /\ Reply
  /\ UNCHANGED <<turn, nudges, shown, envVars, session>>

\* Mutant: a tool that raised is left unanswered.
ToolRaisesUnanswered ==
  /\ pc = "run"
  /\ Counted
  /\ calls' = Tail(calls)
  /\ pc' = IF Len(calls) = 1 THEN "prune" ELSE "check"
  /\ UNCHANGED <<turn, transcript, nudges, shown, envVars, session>>

\* The tool raises; if it was a database statement the session is aborted.
ToolRaises ==
  /\ pc = "run"
  /\ Counted
  /\ Reply
  /\ session' \in {session, "aborted"}
  /\ UNCHANGED <<turn, nudges, shown, envVars>>

-----------------------------------------------------------------------------
(* The handler after the loop.                                              *)

\* Mutant: the stream ends with the first [DONE].
LogUsageAndStop ==
  /\ pc = "log"
  /\ pc' = "closed"
  /\ UNCHANGED <<loopVars, shown, envVars, session, late>>

\* log_cost and log_audit use sessions of their own; then the first [DONE].
LogUsage ==
  /\ pc = "log"
  /\ pc' = "save"
  /\ UNCHANGED <<loopVars, shown, envVars, session, late>>

\* Mutant: a message is inserted whether or not its conversation exists.
SaveAnswerAnyway ==
  /\ pc = "save"
  /\ stored' = IF shown = "text" THEN stored \cup {"assistant"} ELSE stored
  /\ pc' = "closed"
  /\ UNCHANGED <<loopVars, shown, enabled, toggles, session, convo, late>>

\* save_message("assistant") and its commit, only for a text; the INSERT fails in
\* an aborted session, and by its foreign key when the conversation is gone.
SaveAnswer ==
  /\ pc = "save"
  /\ \/ /\ shown = "text" /\ session = "ok" /\ convo = "kept"
        /\ stored' = stored \cup {"assistant"}
        /\ pc' = "closed"
     \/ /\ shown = "text" /\ (session = "aborted" \/ convo = "deleted")
        /\ pc' = "broken"
        /\ UNCHANGED stored
     \/ /\ shown # "text"
        /\ pc' = "closed"
        /\ UNCHANGED stored
  /\ UNCHANGED <<loopVars, shown, enabled, toggles, session, convo, late>>

-----------------------------------------------------------------------------
(* What happens around the request.                                         *)

Streaming == pc \notin {"open", "closed", "broken", "gone"}

\* set_permission.
SetPermission(c, on) ==
  /\ Streaming /\ toggles < MaxToggles
  /\ enabled' = [enabled EXCEPT ![c] = on]
  /\ late' = [late EXCEPT ![c] = 0]
  /\ toggles' = toggles + 1
  /\ UNCHANGED <<pc, loopVars, shown, session, convo, stored>>

\* delete_conversation: the messages go with it.
DeleteConversation ==
  /\ Streaming /\ convo = "kept"
  /\ convo' = "deleted"
  /\ stored' = {}
  /\ UNCHANGED <<pc, loopVars, shown, enabled, toggles, session, late>>

\* The browser goes away or stops the answer; the handler is cancelled.
Disconnect ==
  /\ Streaming
  /\ pc' = "gone"
  /\ UNCHANGED <<loopVars, shown, envVars, session, late>>

RequestStep ==
  \/ RetrieveContext \/ Prune
  \/ LLMFails \/ LLMCallsTools \/ LLMLeaks \/ LLMAnswers
  \/ StepLimit \/ WrapUp
  \/ CheckTool \/ RunTool \/ ToolRaises
  \/ LogUsage \/ SaveAnswer

Next ==
  \/ OpenChat
  \/ RequestStep
  \/ \E c \in Capabilities, on \in BOOLEAN : SetPermission(c, on)
  \/ DeleteConversation
  \/ Disconnect

Spec == Init /\ [][Next]_vars

\* A request in progress goes on: calls of providers and tools time out.
FairSpec == Spec /\ WF_vars(RequestStep)

-----------------------------------------------------------------------------
(* Properties.                                                              *)

\* Every transcript sent to a provider keeps the contract of the chat API, as
\* long as the model never asked for more tools than a turn may run: whatever
\* tools are denied or raise, and however results are pruned.
ContractWithinLimit ==
  /\ pc \in {"llm", "wrapup"}
  /\ \A i \in DOMAIN transcript :
       transcript[i].kind = "calls" => transcript[i].n <= MaxToolsPerTurn
  => ContractKept

\* The results of the latest turn that asked for tools.
LatestResults ==
  {i \in Results(transcript) : \A j \in DOMAIN transcript :
     transcript[j].kind = "calls" => transcript[j].turn <= transcript[i].turn}

\* The model is never sent the latest turn without its newest result, and once
\* KeepToolResults - 2 results came before it, no result of that turn is missing:
\* what the slice takes too much of is at the very start of the request, whatever
\* failed, was denied or was followed by a reminder.
LatestTurnUsable ==
  pc = "llm" /\ MaxToolsPerTurn <= KeepToolResults =>
    \A i \in LatestResults :
      \/ ResultsBefore(transcript, i) + 2 >= KeepToolResults
      \/ \A j \in Results(transcript) : j <= i
      => transcript[i].intact

\* A turn never sends more than KeepToolResults full results.
ContextBounded ==
  pc = "llm" =>
    Cardinality({i \in Results(transcript) : transcript[i].intact})
      <= KeepToolResults

\* When an administrator switches a capability off, at most the one tool whose
\* check was already done still starts, however many the model goes on asking for.
AtMostOneLateRun == \A c \in Capabilities : late[c] <= 1

\* A request that ended in good order has stored what it showed: both messages
\* of the exchange, unless the conversation was deleted meanwhile.
ExchangeStored ==
  pc = "closed" /\ convo = "kept" =>
    stored = {"user"} \cup (IF shown = "text" THEN {"assistant"} ELSE {})

\* No message outlives its conversation, even if the conversation is deleted
\* while its answer is being written.
DeletedConversationEmpty == convo = "deleted" => stored = {}

\* A request always gets its last word, a text or an error, unless the browser
\* goes away: no tool, no provider and no step limit leaves it hanging.
AlwaysAnswered == pc = "context" ~> (shown # "none" \/ pc = "gone")

\* What the documents say and the code does not do.

\* "The most recent keep_last results stay intact" (_prune_tool_results): a result
\* with fewer than KeepToolResults after it reaches the model in full.
RecentResultsIntact ==
  pc = "llm" =>
    \A i \in Results(transcript) :
      Cardinality({j \in Results(transcript) : j > i}) < KeepToolResults
      => transcript[i].intact

\* "Threads are persisted server-side" (README): once the stream is over, an answer
\* that was shown is in its conversation, unless that was deleted.
ShownIsPersisted ==
  pc \in {"closed", "broken"} /\ shown = "text" /\ convo = "kept" =>
    "assistant" \in stored
=============================================================================
