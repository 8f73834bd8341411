----------------------------- MODULE Connections -----------------------------
(***************************************************************************)
(* The connections to GitHub, Jira and Slack (api/integrations.py): a row  *)
(* with encrypted credentials, and in the process one client for each      *)
(* (IntegrationRegistry), made anew when the row is saved and closed by a  *)
(* task of its own when it is replaced.  Requests that fetched a client    *)
(* keep it across their awaits.                                            *)
(***************************************************************************)
EXTENDS Naturals, FiniteSets

CONSTANTS
    Requests,     \* configurations and uses under way at once
    Providers,
    Credentials,  \* what an administrator may save
    Incomplete,   \* stands for credentials with an empty field, ...
    Completed,    \* ... and with the environment's value in it
    Unusable,     \* credentials no client can be made of: a malformed url, a token not in ASCII
    MaxClients,   \* bound: clients made in all
    MaxRestarts,  \* bound: restarts of the API process
    KeyInsecure,  \* the key that encrypts is replaced at every boot
    Nothing       \* stands for no row, no client

VARIABLES
    row,       \* provider -> [cred, key], or Nothing
    client,    \* provider -> [n, cred], or Nothing
    closing,   \* the clients whose closing task has not run yet
    closed,
    request,
    made, key, \* clients made, and the number of the encryption key
    saved,     \* history: provider -> the credentials ever committed
    untidy     \* history: providers configured twice at once, or removed

connectionVars == <<row, client, closing, closed, request, made, key, saved, untidy>>

Idle == [op |-> "idle"]

Init ==
    /\ row = [p \in Providers |-> Nothing] /\ client = [p \in Providers |-> Nothing]
    /\ closing = {} /\ closed = {} /\ made = 0 /\ key = 0
    /\ request = [r \in Requests |-> Idle]
    /\ saved = [p \in Providers |-> {}] /\ untidy = {}

Configuring(p) == {r \in Requests : request[r].op \in {"look", "commit"} /\ request[r].who = p}

\* An administrator's request: the row is looked up, ...
LookUp(r) ==
    /\ request[r] = Idle
    /\ \E p \in Providers, c \in Credentials :
          /\ request' = [request EXCEPT ![r] =
                [op |-> "look", who |-> p, cred |-> c, insert |-> row[p] = Nothing]]
          /\ untidy' = IF Configuring(p) # {} THEN untidy \cup {p} ELSE untidy
    /\ UNCHANGED <<row, client, closing, closed, made, key, saved>>

\* ... updated or inserted (provider is UNIQUE; an UPDATE of a row that is gone raises), ...
CommitRow(r) ==
    /\ request[r].op = "look"
    /\ LET p == request[r].who IN
       IF request[r].insert = (row[p] = Nothing)
       THEN /\ row' = [row EXCEPT ![p] = [cred |-> request[r].cred, key |-> key]]
            /\ saved' = [saved EXCEPT ![p] = @ \cup {request[r].cred}]
            /\ request' = [request EXCEPT ![r].op = "commit"]
       ELSE /\ request' = [request EXCEPT ![r] = Idle]
            /\ UNCHANGED <<row, saved>>
    /\ UNCHANGED <<client, closing, closed, made, key, untidy>>

\* Each field that was left empty is the environment's instead (token or settings...).
Used(c) == IF c = Incomplete THEN Completed ELSE c

\* ... and the client of the request's own credentials takes the old one's place.
Replace(p, c) ==
    /\ made < MaxClients /\ made' = made + 1
    /\ client' = [client EXCEPT ![p] = [n |-> made', cred |-> Used(c)]]
    /\ closing' = closing \cup ({client[p]} \ {Nothing})

RegisterEarly(r) ==
    /\ request[r].op \in {"look", "commit"} /\ request[r].cred \notin Unusable
    /\ Replace(request[r].who, request[r].cred)
    /\ request' = [request EXCEPT ![r] = Idle]
    /\ UNCHANGED <<row, closed, key, saved, untidy>>

Register(r) ==
    /\ request[r].op = "commit" /\ request[r].cred \notin Unusable
    /\ Replace(request[r].who, request[r].cred)
    /\ request' = [request EXCEPT ![r] = Idle]
    /\ UNCHANGED <<row, closed, key, saved, untidy>>

\* The constructor raises on unusable ones: the row is committed, the old client stays.
RegisterFails(r) ==
    /\ request[r].op = "commit" /\ request[r].cred \in Unusable
    /\ request' = [request EXCEPT ![r] = Idle]
    /\ UNCHANGED <<row, client, closing, closed, made, key, saved, untidy>>

Close ==
    /\ \E c \in closing : closing' = closing \ {c} /\ closed' = closed \cup {c}
    /\ UNCHANGED <<row, client, request, made, key, saved, untidy>>

\* The row goes; the client it configured stays.
Remove ==
    /\ \E p \in Providers :
          /\ row[p] # Nothing
          /\ row' = [row EXCEPT ![p] = Nothing] /\ untidy' = untidy \cup {p}
    /\ UNCHANGED <<client, closing, closed, request, made, key, saved>>

(***************************************************************************)
(* A tool or a page uses the client (400 without one); the repository list *)
(* alone makes a client of its own from the row, when it can decrypt it    *)
(* and there is a token in it.                                             *)
(***************************************************************************)
Decrypts(p) == row[p] # Nothing /\ row[p].key = key

BeginUse(r) ==
    /\ request[r] = Idle
    /\ \E p \in Providers :
          /\ client[p] # Nothing
          /\ request' = [request EXCEPT ![r] = [op |-> "use", who |-> p, client |-> client[p]]]
    /\ UNCHANGED <<row, client, closing, closed, made, key, saved, untidy>>

\* Each HTTP call on a closed client raises; the request ends with an error.
EndUse(r) ==
    /\ request[r].op = "use"
    /\ request' = [request EXCEPT ![r] = Idle]
    /\ UNCHANGED <<row, client, closing, closed, made, key, saved, untidy>>

Answer(r) == IF request[r].client \in closed THEN "error" ELSE "answered"

RepoListSource(p) ==
    IF Decrypts(p) /\ row[p].cred # Incomplete THEN row[p].cred
    ELSE IF client[p] # Nothing THEN client[p].cred ELSE "no token configured"

\* Start-up makes no client from the rows.
RestartApi ==
    /\ key < MaxRestarts
    /\ key' = IF KeyInsecure THEN key + 1 ELSE key
    /\ client' = [p \in Providers |-> Nothing]
    /\ closing' = {} /\ closed' = {} /\ request' = [r \in Requests |-> Idle]
    /\ UNCHANGED <<row, made, saved, untidy>>

Next ==
    \/ \E r \in Requests :
          \/ LookUp(r) \/ CommitRow(r) \/ Register(r) \/ RegisterFails(r)
          \/ BeginUse(r) \/ EndUse(r)
    \/ Close \/ Remove \/ RestartApi

Spec == Init /\ [][Next]_connectionVars

Clients == [n : 1 .. MaxClients, cred : Credentials \cup {Completed}]

TypeOK ==
    /\ row \in [Providers -> [cred : Credentials, key : 0 .. MaxRestarts] \cup {Nothing}]
    /\ client \in [Providers -> Clients \cup {Nothing}]
    /\ closing \subseteq Clients /\ closed \subseteq Clients
    /\ \A r \in Requests : request[r].op \in {"idle", "look", "commit", "use"}
    /\ made \in 0 .. MaxClients /\ key \in 0 .. MaxRestarts
    /\ saved \in [Providers -> SUBSET Credentials] /\ untidy \subseteq Providers

(***************************************************************************)
(* However configurations, their closing tasks, uses and restarts overlap, *)
(* the client handed out is never one that was or will be closed, a use    *)
(* fails only because its client was replaced meanwhile, and the client is *)
(* of credentials saved before, its empty fields filled from the           *)
(* environment; at rest they are those of the row, unless two              *)
(* configurations overlapped, the row was removed, or no client can be     *)
(* made of the row's and an earlier one stayed.  The repository list is of *)
(* saved credentials too, by way of the row or of the client               *)
(* (configure_integration, _initialize_provider, _close_provider,          *)
(* register_scm, list_github_repos).                                       *)
(***************************************************************************)
ClientTrustworthy ==
    /\ \A p \in Providers : client[p] # Nothing =>
          /\ client[p] \notin closing \cup closed
          /\ \E c \in saved[p] \ Unusable : client[p].cred = Used(c)
          /\ p \notin untidy /\ Configuring(p) = {} =>
                client[p].cred = Used(row[p].cred) \/ row[p].cred \in Unusable
    /\ \A p \in Providers :
          RepoListSource(p) \in saved[p] \cup {Used(c) : c \in saved[p]} \cup {"no token configured"}
    /\ \A r \in Requests : request[r].op = "use" /\ Answer(r) = "error" =>
          client[request[r].who] # request[r].client
=============================================================================
