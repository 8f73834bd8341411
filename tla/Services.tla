------------------------------- MODULE Services -------------------------------
(***************************************************************************)
(* The services around the chat and the pipeline, side by side.  They      *)
(* share a process and a database but none of the state modelled here, so  *)
(* their interleavings with each other add nothing: a behaviour exercises  *)
(* one of them, its focus, and leaves the others where they start.         *)
(***************************************************************************)
EXTENDS Naturals, Sequences, FiniteSets

CONSTANTS
    Requests, MaxRestarts, KeyInsecure, Nothing,
    Emails, Admin, Sources, MaxPerEmail, MaxPerSource, Window, Horizon,
    Files, Owners,
    Tabs, MaxEdits, MaxLoadFaults,
    Hosts, Operations, EntryIds,
    Manifests,
    MaxItems, MaxWorking, MaxEpisodic, MaxSaved, MaxLearned, Lessons,
    Order, EnvKeys, Callers, MaxTokens,
    Integrations, Credentials, Incomplete, Completed, Unusable, MaxClients,
    Threads, Branches, MaxSwitches, MaxOrphans,
    Workers, Repos, People, MaxCommits,
    Names, Limit, MaxVersions,
    Urls, NameOf, Malformed, Ids, MaxList,
    Runs, Cards

\* The checks of the login limiter count whole failures within whole windows.
ASSUME LimiterAssumption == MaxPerEmail \in Nat \ {0} /\ MaxPerSource \in Nat \ {0} /\ Window \in Nat

\* The limiters keep accounts and addresses apart, and one account is the bootstrap's.
ASSUME KeyAssumption == Emails \cap Sources = {} /\ Admin \in Emails

\* AgentMemory gives each of its bounded memories room for one item at least.
ASSUME MemoryAssumption ==
    /\ MaxWorking \in Nat \ {0} /\ MaxEpisodic \in Nat \ {0} /\ MaxLearned \in Nat \ {0}
    /\ MaxSaved \in Nat

\* There is a provider to try.
ASSUME OrderAssumption == Order \in Seq({Order[i] : i \in DOMAIN Order}) /\ Order # <<>>

\* Requests, callers, rows and functions are finitely many.
ASSUME FiniteAssumption ==
    /\ IsFiniteSet(Requests) /\ IsFiniteSet(Callers) /\ IsFiniteSet(EntryIds) /\ IsFiniteSet(Names)

\* Every url has a directory, also one whose name is refused; repositories are finitely many.
ASSUME RegistryAssumption ==
    /\ Malformed \subseteq Urls /\ DOMAIN NameOf = Urls
    /\ Nothing \notin Urls \cup [url : Urls, live : BOOLEAN] /\ IsFiniteSet(Ids)

\* Every bound is a number, and what stands for nothing is none.
ASSUME BoundsAssumption ==
    /\ {MaxRestarts, Horizon, MaxEdits, MaxLoadFaults, MaxItems, MaxClients, MaxSwitches, MaxOrphans, MaxCommits,
        MaxVersions, Limit, MaxTokens, MaxList} \subseteq Nat
    /\ Nothing \notin Nat

\* What stands for no owner is not a user.
ASSUME OwnerAssumption == Nothing \notin Owners

\* Nor is it a client or a row of an integration.
ASSUME ClientAssumption ==
    Nothing \notin [n : Nat, cred : Credentials \cup {Completed}] \cup [cred : Credentials, key : Nat]

VARIABLES
    focus,
    users, failures, clock, signingKey, tokens, loginRequest, credFile,
    disk, rows, uploadCall, named, unwanted,
    stored, tab, save, noteEdits, faults,
    entries, used, egressRequest, vouched,
    onDisk, importable, registry, pluginsOff,
    working, episodic, preferences, conventions, savedMemory, remembered,
    config, llmCall, billed, ledger, leaks,
    row, client, closing, closed, setupRequest, made, key, savedCredentials, untidy,
    capsOff, toolCall, work, head, branches, prs, orphans, fileEdits, switches,
    count, onFile, nodes, owns, constraint, build, trusted, inflated, rewritten, changes,
    code, fns, edges, todo, built, ever, versions,
    repo, repoRequest, started, crawled, pulls, clone, raced, removed,
    live, concepts, run, refused

Acc == INSTANCE Accounts WITH request <- loginRequest
Upl == INSTANCE Uploads WITH call <- uploadCall, NoOwner <- Nothing
Pad == INSTANCE Notepad WITH edits <- noteEdits, NoRow <- Nothing
Egr == INSTANCE Egress WITH request <- egressRequest
Plu == INSTANCE Plugins WITH off <- pluginsOff, NoPlugin <- Nothing
Mem == INSTANCE Memory WITH saved <- savedMemory
Pro == INSTANCE Providers WITH call <- llmCall, NoConfig <- Nothing
Con == INSTANCE Connections WITH request <- setupRequest, saved <- savedCredentials, Providers <- Integrations
Wsp == INSTANCE Workspace WITH off <- capsOff, call <- toolCall, edits <- fileEdits
Own == INSTANCE Ownership WITH Nobody <- Nothing
Cod == INSTANCE CodeGraph WITH NoFile <- Nothing
Reg == INSTANCE Registry WITH request <- repoRequest
Cpt == INSTANCE Concepts WITH Names <- Cards

accountVars == <<users, failures, clock, signingKey, tokens, loginRequest, credFile>>
uploadVars == <<disk, rows, uploadCall, named, unwanted>>
noteVars == <<stored, tab, save, noteEdits, faults>>
egressVars == <<entries, used, egressRequest, vouched>>
pluginVars == <<onDisk, importable, registry, pluginsOff>>
memoryVars == <<working, episodic, preferences, conventions, savedMemory, remembered>>
providerVars == <<config, llmCall, billed, ledger, leaks>>
connectionVars == <<row, client, closing, closed, setupRequest, made, key, savedCredentials, untidy>>
workspaceVars == <<capsOff, toolCall, work, head, branches, prs, orphans, fileEdits, switches>>
ownershipVars == <<count, onFile, nodes, owns, constraint, build, trusted, inflated, rewritten, changes>>
codeVars == <<code, fns, edges, todo, built, ever, versions>>
registryVars == <<repo, repoRequest, started, crawled, pulls, clone, raced, removed>>
conceptVars == <<live, concepts, run, refused>>

Components == {"accounts", "uploads", "notepad", "egress", "plugins", "memory", "providers",
               "connections", "workspace", "ownership", "code", "registry", "concepts"}

\* A component out of focus starts in one of its initial states only.
Init ==
    /\ focus \in Components
    /\ focus # "plugins" => onDisk = {} /\ importable = {}
    /\ focus # "code" => code = [f \in Files |-> Cod!NoSource]
    /\ Acc!Init /\ Upl!Init /\ Pad!Init /\ Egr!Init /\ Plu!Init /\ Mem!Init /\ Pro!Init
    /\ Con!Init /\ Wsp!Init /\ Own!Init /\ Cod!Init /\ Reg!Init /\ Cpt!Init

Held(c) ==
    /\ c # "accounts" => UNCHANGED accountVars
    /\ c # "uploads" => UNCHANGED uploadVars
    /\ c # "notepad" => UNCHANGED noteVars
    /\ c # "egress" => UNCHANGED egressVars
    /\ c # "plugins" => UNCHANGED pluginVars
    /\ c # "memory" => UNCHANGED memoryVars
    /\ c # "providers" => UNCHANGED providerVars
    /\ c # "connections" => UNCHANGED connectionVars
    /\ c # "workspace" => UNCHANGED workspaceVars
    /\ c # "ownership" => UNCHANGED ownershipVars
    /\ c # "code" => UNCHANGED codeVars
    /\ c # "registry" => UNCHANGED registryVars
    /\ c # "concepts" => UNCHANGED conceptVars
    /\ UNCHANGED focus

Next ==
    \/ focus = "accounts" /\ Acc!Next /\ Held("accounts")
    \/ focus = "uploads" /\ Upl!Next /\ Held("uploads")
    \/ focus = "notepad" /\ Pad!Next /\ Held("notepad")
    \/ focus = "egress" /\ Egr!Next /\ Held("egress")
    \/ focus = "plugins" /\ Plu!Next /\ Held("plugins")
    \/ focus = "memory" /\ Mem!Next /\ Held("memory")
    \/ focus = "providers" /\ Pro!Next /\ Held("providers")
    \/ focus = "connections" /\ Con!Next /\ Held("connections")
    \/ focus = "workspace" /\ Wsp!Next /\ Held("workspace")
    \/ focus = "ownership" /\ Own!Next /\ Held("ownership")
    \/ focus = "code" /\ Cod!Next /\ Held("code")
    \/ focus = "registry" /\ Reg!Next /\ Held("registry")
    \/ focus = "concepts" /\ Cpt!Next /\ Held("concepts")

vars == <<focus, accountVars, uploadVars, noteVars, egressVars, pluginVars,
          memoryVars, providerVars, connectionVars, workspaceVars,
          ownershipVars, codeVars, registryVars, conceptVars>>

Spec == Init /\ [][Next]_vars

(***************************************************************************)
(* The component in focus keeps the types of its variables (each module's  *)
(* TypeOK); the others are as in an initial state of their own behaviour.  *)
(***************************************************************************)
TypeOK ==
    /\ focus \in Components
    /\ focus = "accounts" => Acc!TypeOK
    /\ focus = "uploads" => Upl!TypeOK
    /\ focus = "notepad" => Pad!TypeOK
    /\ focus = "egress" => Egr!TypeOK
    /\ focus = "plugins" => Plu!TypeOK
    /\ focus = "memory" => Mem!TypeOK
    /\ focus = "providers" => Pro!TypeOK
    /\ focus = "connections" => Con!TypeOK
    /\ focus = "workspace" => Wsp!TypeOK
    /\ focus = "ownership" => Own!TypeOK
    /\ focus = "code" => Cod!TypeOK
    /\ focus = "registry" => Reg!TypeOK
    /\ focus = "concepts" => Cpt!TypeOK

(***************************************************************************)
(* What each component promises; the modules state it next to the code     *)
(* behaviour it is about.                                                  *)
(***************************************************************************)

\* Overlapping logins never put more failures on a key than its limit and the requests
\* already admitted allow (login).
GuessesBounded == focus = "accounts" => Acc!GuessesBounded

\* The first-run credential file opens the administrator's account (first_run_check).
CredentialOpens == focus = "accounts" => Acc!CredentialOpens

\* A file its owner is shown can be downloaded and attached (upload_file, delete_upload).
ListedIsReadable == focus = "uploads" => Upl!ListedIsReadable

\* The registry's check promises nothing the agent's tool refuses, and only an
\* administrator puts a host within reach (check_url, _registry_allows).
CheckSpeaksForTheAgent == focus = "egress" => Egr!CheckSpeaksForTheAgent

\* A plugin switched off offers no tool until it is loaded again (unload_plugin, get_tools).
OffOffersNothing == focus = "plugins" => Plu!OffOffersNothing

\* Memory only forgets when a memory is full (remember, recall).
ForgetsOnlyWhenFull == Mem!ForgetsOnlyWhenFull

\* No token is booked twice, and without a known leak each is booked or on its way (log_cost).
BooksBalance == focus = "providers" => Pro!BooksBalance

\* The client handed out is open and of saved credentials (configure_integration).
ClientTrustworthy == focus = "connections" => Con!ClientTrustworthy

\* Branches only grow by their own chat's commits, and the clone changes only by granted
\* tools and the poller (execute_tool, _tool_commit_files).
CloneInGoodHands == Wsp!CloneInGoodHands

\* find_owner names the owner the last undisturbed build computed (_build_graph_sync).
OwnerIsCurrent == focus = "ownership" => Own!OwnerIsCurrent

\* Calls the last build merged are found from both ends, up to the limit (find_dependents).
CallsFound == focus = "code" => Cod!CallsFound

\* Pipelines are enqueued for committed rows, and a crawled checkout is its repository's
\* unless its directory is shared or was deleted (add_repos_bulk, clone_or_pull).
RegistrySound == focus = "registry" => Reg!RegistrySound

\* The cards a generate request reports are in the table (extract_for_all).
ReportTrue == focus = "concepts" => Cpt!ReportTrue
=============================================================================
