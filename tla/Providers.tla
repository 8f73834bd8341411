------------------------------ MODULE Providers ------------------------------
(***************************************************************************)
(* Calling the language-model providers and keeping the books: the         *)
(* fallback chain (llm/provider.py), the usage of one chat summed over its *)
(* calls and booked when the stream ends (AgentRuntime.chat), the usage of *)
(* every other call booked at once (cost_tracker.record_llm_usage).        *)
(***************************************************************************)
EXTENDS Naturals, FiniteSets, Sequences, SequencesExt, FiniteSetsExt

CONSTANTS
    Order,      \* the providers in the order they are tried; the last is ollama
    EnvKeys,    \* the providers whose key the environment sets
    Callers,
    MaxTokens,  \* bound: tokens billed in all
    NoConfig    \* no llm_config row

VARIABLES
    config,     \* the provider whose key the llm_config row holds, or NoConfig
    call,       \* each caller's conversation with the chain
    billed,     \* history: provider -> tokens it charged
    ledger,     \* provider -> tokens in cost_log
    leaks       \* history: what has kept tokens out of cost_log

providerVars == <<config, call, billed, ledger, leaks>>

ProviderSet == ToSet(Order)
Total(f) == MapThenSumSet(LAMBDA p : f[p], ProviderSet)
Idle == [kind |-> "idle", chain |-> {}, prompt |-> 0, used |-> 0, who |-> Order[1]]
Causes == {"unreported", "no prompt tokens", "abandoned", "insert failed"}

\* _get_db_config: a database that fails counts as no row.
DbConfig == {config, NoConfig}

\* The chain is kept as the positions in Order still to be tried, the foremost first.
\* The row adds its provider's key; with no key at all a local ollama is tried.
AvailableProviders(row) ==
    LET keyed == {i \in DOMAIN Order : Order[i] \in EnvKeys \cup {row}}
    IN IF keyed = {} THEN {Len(Order)} ELSE keyed

Foremost(c) == Order[Min(call[c].chain)]

Init ==
    /\ config = NoConfig
    /\ call = [c \in Callers |-> Idle]
    /\ billed = [p \in ProviderSet |-> 0]
    /\ ledger = [p \in ProviderSet |-> 0]
    /\ leaks = {}

SaveConfig ==
    /\ config' \in ProviderSet \cup {NoConfig}
    /\ UNCHANGED <<call, billed, ledger, leaks>>

\* The chain is read when a call begins; a key saved later is not seen by it.
Begin(c) ==
    /\ call[c] = Idle
    /\ \E kind \in {"single", "chat"}, row \in DbConfig :
          call' = [call EXCEPT ![c].kind = kind, ![c].chain = AvailableProviders(row)]
    /\ UNCHANGED <<config, billed, ledger, leaks>>

(***************************************************************************)
(* What an answer costs: the tokens of the prompt and of the completion,   *)
(* and how many of either it reports (an answer may come without usage, or *)
(* with one of the two counts missing).                                    *)
(***************************************************************************)
Answers ==
    {a \in [prompt : 0 .. 1, completion : 0 .. 1, seenPrompt : 0 .. 1, seenCompletion : 0 .. 1] :
        a.seenPrompt <= a.prompt /\ a.seenCompletion <= a.completion}

Cost(a) == a.prompt + a.completion
Seen(a) == a.seenPrompt + a.seenCompletion

Unreported(a) == IF Seen(a) < Cost(a) THEN {"unreported"} ELSE {}

Bill(p, a) ==
    /\ Total(billed) + Cost(a) <= MaxTokens
    /\ billed' = [billed EXCEPT ![p] = @ + Cost(a)]

\* log_cost swallows whatever goes wrong.
Book(p, tokens, missed) ==
    \/ ledger' = [ledger EXCEPT ![p] = @ + tokens] /\ leaks' = leaks \cup missed
    \/ tokens > 0 /\ ledger' = ledger /\ leaks' = leaks \cup missed \cup {"insert failed"}

\* record_llm_usage: an answer that reports no tokens at all is not booked.
Record(p, a) ==
    \/ Seen(a) = 0 /\ ledger' = ledger /\ leaks' = leaks \cup Unreported(a)
    \/ Seen(a) > 0 /\ Book(p, Seen(a), Unreported(a))

Ended(c) == call' = [call EXCEPT ![c] = Idle]

(***************************************************************************)
(* A provider that failed is followed by the next.  After the last, a      *)
(* single call raises; a chat gets no response, and its stream ends with   *)
(* what it used before.                                                    *)
(***************************************************************************)
FallBack(c) ==
    LET rest == call[c].chain \ {Min(call[c].chain)} IN
    IF rest = {} /\ call[c].kind = "single" THEN Ended(c)
    ELSE call' = [call EXCEPT ![c].chain = rest, ![c].kind = IF rest = {} THEN "ending" ELSE @]

Fail(c) ==
    /\ call[c].chain # {}
    /\ FallBack(c)
    /\ UNCHANGED <<config, billed, ledger, leaks>>

\* An answer without choices has been booked when reading it fails.
AnswerSingle(c) ==
    /\ call[c].kind = "single" /\ call[c].chain # {}
    /\ \E a \in Answers : Bill(Foremost(c), a) /\ Record(Foremost(c), a)
    /\ Ended(c) \/ FallBack(c)
    /\ UNCHANGED config

AnswerChatForgetting(c) ==
    /\ call[c].kind = "chat" /\ call[c].chain # {}
    /\ \E a \in Answers :
          /\ Bill(Foremost(c), a)
          /\ call' = [call EXCEPT ![c].prompt = a.seenPrompt, ![c].used = Seen(a),
                                  ![c].who = Foremost(c), ![c].chain = {}]
          /\ leaks' = leaks \cup Unreported(a)
    /\ UNCHANGED <<config, ledger>>

\* The chat's usage grows; the provider of its latest answer stands for all of it.
AnswerChat(c) ==
    /\ call[c].kind = "chat" /\ call[c].chain # {}
    /\ \E a \in Answers :
          /\ Bill(Foremost(c), a)
          /\ call' = [call EXCEPT ![c].prompt = @ + a.seenPrompt, ![c].used = @ + Seen(a),
                                  ![c].who = Foremost(c), ![c].chain = {}]
          /\ leaks' = leaks \cup Unreported(a)
    /\ UNCHANGED <<config, ledger>>

\* The answer asked for tools, or it ends the loop.
NextRound(c) ==
    /\ call[c].kind = "chat" /\ call[c].chain = {}
    /\ \/ \E row \in DbConfig : call' = [call EXCEPT ![c].chain = AvailableProviders(row)]
       \/ call' = [call EXCEPT ![c].kind = "ending"]
    /\ UNCHANGED <<config, billed, ledger, leaks>>

\* A chat without prompt tokens is not booked, whatever its completions cost.
EndChat(c) ==
    /\ call[c].kind = "ending"
    /\ \/ call[c].prompt > 0 /\ Book(call[c].who, call[c].used, {})
       \/ /\ call[c].prompt = 0 /\ ledger' = ledger
          /\ leaks' = leaks \cup (IF call[c].used > 0 THEN {"no prompt tokens"} ELSE {})
    /\ Ended(c)
    /\ UNCHANGED <<config, billed>>

\* The browser leaves, or the process dies: the generator never reaches the booking.
Abandon(c) ==
    /\ call[c].kind \in {"chat", "ending"}
    /\ leaks' = leaks \cup (IF call[c].used > 0 THEN {"abandoned"} ELSE {})
    /\ Ended(c)
    /\ UNCHANGED <<config, billed, ledger>>

Next ==
    \/ SaveConfig
    \/ \E c \in Callers :
          \/ Begin(c) \/ Fail(c) \/ AnswerSingle(c)
          \/ AnswerChat(c) \/ NextRound(c) \/ EndChat(c) \/ Abandon(c)

Spec == Init /\ [][Next]_providerVars

TypeOK ==
    /\ config \in ProviderSet \cup {NoConfig}
    /\ billed \in [ProviderSet -> Nat] /\ ledger \in [ProviderSet -> Nat] /\ leaks \subseteq Causes
    /\ \A c \in Callers :
          /\ call[c].kind \in {"idle", "single", "chat", "ending"}
          /\ call[c].chain \subseteq DOMAIN Order /\ call[c].who \in ProviderSet

(***************************************************************************)
(* However calls fall back, fail and overlap, no token is booked twice, or *)
(* booked without being charged; and unless one of the four known leaks    *)
(* was met, an answer that did not report what it cost, a chat that ended  *)
(* with no prompt tokens counted, an abandoned chat and a failed INSERT,   *)
(* each token charged is booked or still to be booked by a running chat.   *)
(* Of the totals only: one provider may have more in the books than it     *)
(* charged, when it gave the last answer of a chat that fell back          *)
(* (LLMProvider.chat, llm_call, record_llm_usage, log_cost).               *)
(***************************************************************************)
Pending == MapThenSumSet(LAMBDA c : call[c].used, Callers)

BooksBalance ==
    /\ Total(ledger) + Pending <= Total(billed)
    /\ leaks = {} => Total(ledger) + Pending = Total(billed)
=============================================================================
