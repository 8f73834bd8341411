------------------------------ MODULE Accounts ------------------------------
(***************************************************************************)
(* Signing in: the first-run administrator, registration, the sliding-     *)
(* window limiter of failed logins and the signed tokens                   *)
(* (api/auth_endpoints.py, utils/auth.py, utils/ratelimit.py,              *)
(* api/deps.py).  A request awaits the database between its checks and its *)
(* effects, so requests overlap; the limiter and the signing key live in   *)
(* the process, accounts and the credential file survive it.  Passwords    *)
(* are the requests that generated them, or Chosen.                        *)
(***************************************************************************)
EXTENDS Naturals, Sequences, FiniteSets

CONSTANTS
    Requests,     \* the requests under way at once
    Emails,       \* the addresses people type; Admin is the bootstrap's
    Admin,
    Sources,      \* source addresses of the browsers
    MaxPerEmail,  \* 5: failed logins an account may have in a window
    MaxPerSource, \* 50: and a source address
    Window,       \* 900 seconds
    Horizon,      \* bound: the clock stops here
    MaxRestarts,  \* bound: restarts of the API process
    KeyInsecure   \* the configured signing key is replaced at every boot

VARIABLES
    users,     \* email -> its row: [password, admin], or NoUser
    failures,  \* limiter key -> the times of its failed logins
    clock, signingKey,
    tokens,    \* signed tokens people hold: [email, key]
    request,   \* the requests past their first await
    credFile   \* the password in the first-run credential file, or None

accountVars == <<users, failures, clock, signingKey, tokens, request, credFile>>

NoUser == [password |-> "none", admin |-> FALSE]
Chosen == "chosen"
None == "none"
Idle == [op |-> "idle"]
User == [password : Requests \cup {Chosen, None}, admin : BOOLEAN]
Token == [email : Emails, key : 0 .. MaxRestarts]

Keys == Emails \cup Sources
MaxEvents(k) == IF k \in Emails THEN MaxPerEmail ELSE MaxPerSource

Init ==
    /\ users = [e \in Emails |-> NoUser]
    /\ failures = [k \in Keys |-> <<>>]
    /\ clock = 0 /\ signingKey = 0 /\ tokens = {}
    /\ request = [r \in Requests |-> Idle]
    /\ credFile = None

\* Failures are forgotten from the oldest, up to the first within the window.
Expired(k) == {i \in 1 .. Len(failures[k]) : \A j \in 1 .. i : failures[k][j] < clock - Window}
Recent(k) == SubSeq(failures[k], Cardinality(Expired(k)) + 1, Len(failures[k]))
Blocked(k) == Len(Recent(k)) >= MaxEvents(k)

(* A token authenticates whoever holds it while it was signed by this      *)
(* process's key; require_admin reads the account's flag afresh.           *)
Decodes(t) == t.key = signingKey
MayAdminister(t) == Decodes(t) /\ users[t.email].admin

(***************************************************************************)
(* Logging in.                                                             *)
(***************************************************************************)
BeginLoginUnlimited(r) ==
    /\ request[r] = Idle
    /\ \E e \in Emails, s \in Sources :
          request' = [request EXCEPT ![r] = [op |-> "login", email |-> e, source |-> s]]
    /\ UNCHANGED <<users, failures, clock, signingKey, tokens, credFile>>

BeginLogin(r) ==
    /\ request[r] = Idle
    /\ \E e \in Emails, s \in Sources :
          /\ failures' = [failures EXCEPT
                ![e] = Recent(e), ![s] = IF Blocked(e) THEN @ ELSE Recent(s)]
          /\ request' = IF Blocked(e) \/ Blocked(s) THEN request
                ELSE [request EXCEPT ![r] = [op |-> "login", email |-> e, source |-> s]]
    /\ UNCHANGED <<users, clock, signingKey, tokens, credFile>>

\* No account, or another password than the account's: both keys are charged.
FailLogin(r) ==
    /\ request[r].op = "login"
    /\ failures' = [failures EXCEPT ![request[r].email] = Append(@, clock),
                                    ![request[r].source] = Append(@, clock)]
    /\ request' = [request EXCEPT ![r] = Idle]
    /\ UNCHANGED <<users, clock, signingKey, tokens, credFile>>

\* Nothing in the code clears is_active, so its check after the password never fires.
PassLogin(r) ==
    /\ request[r].op = "login" /\ users[request[r].email] # NoUser
    /\ failures' = [failures EXCEPT ![request[r].email] = <<>>, ![request[r].source] = <<>>]
    /\ tokens' = tokens \cup {[email |-> request[r].email, key |-> signingKey]}
    /\ request' = [request EXCEPT ![r] = Idle]
    /\ UNCHANGED <<users, clock, signingKey, credFile>>

(***************************************************************************)
(* Creating accounts: a look, then an INSERT that email's UNIQUE decides.  *)
(***************************************************************************)
BeginRegister(r) ==
    /\ request[r] = Idle
    /\ \E t \in tokens, e \in Emails :
          /\ MayAdminister(t) /\ users[e] = NoUser
          /\ request' = [request EXCEPT ![r] = [op |-> "register", email |-> e]]
    /\ UNCHANGED <<users, failures, clock, signingKey, tokens, credFile>>

FinishRegister(r) ==
    /\ request[r].op = "register"
    /\ users' = IF users[request[r].email] # NoUser THEN users
                ELSE [users EXCEPT ![request[r].email] = [password |-> Chosen, admin |-> FALSE]]
    /\ request' = [request EXCEPT ![r] = Idle]
    /\ UNCHANGED <<failures, clock, signingKey, tokens, credFile>>

BeginFirstRun(r) ==
    /\ request[r] = Idle
    /\ \A e \in Emails : users[e] = NoUser
    /\ request' = [request EXCEPT ![r] = [op |-> "first_run"]]
    /\ UNCHANGED <<users, failures, clock, signingKey, tokens, credFile>>

\* The file written before the row is committed.
CommitAdminEarlyFile(r) ==
    /\ request[r].op = "first_run"
    /\ credFile' = r
    /\ users' = IF users[Admin] # NoUser THEN users
                ELSE [users EXCEPT ![Admin] = [password |-> r, admin |-> TRUE]]
    /\ request' = [request EXCEPT ![r] = Idle]
    /\ UNCHANGED <<failures, clock, signingKey, tokens>>

CommitAdmin(r) ==
    /\ request[r].op = "first_run"
    /\ IF users[Admin] # NoUser
       THEN users' = users /\ request' = [request EXCEPT ![r] = Idle]
       ELSE /\ users' = [users EXCEPT ![Admin] = [password |-> r, admin |-> TRUE]]
            /\ request' = [request EXCEPT ![r] = [op |-> "created"]]
    /\ UNCHANGED <<failures, clock, signingKey, tokens, credFile>>

\* An OSError leaves the file as it was; the response carries the password either way.
WriteCredential(r) ==
    /\ request[r].op = "created"
    /\ credFile' \in {r, credFile}
    /\ request' = [request EXCEPT ![r] = Idle]
    /\ UNCHANGED <<users, failures, clock, signingKey, tokens>>

ChangePassword ==
    /\ \E t \in tokens :
          /\ Decodes(t) /\ users[t.email] # NoUser
          /\ users' = [users EXCEPT ![t.email].password = Chosen]
    /\ UNCHANGED <<failures, clock, signingKey, tokens, request, credFile>>

Tick ==
    /\ clock < Horizon /\ clock' = clock + 1
    /\ UNCHANGED <<users, failures, signingKey, tokens, request, credFile>>

RestartApi ==
    /\ signingKey < MaxRestarts
    /\ signingKey' = IF KeyInsecure THEN signingKey + 1 ELSE signingKey
    /\ failures' = [k \in Keys |-> <<>>]
    /\ request' = [r \in Requests |-> Idle]
    /\ UNCHANGED <<users, clock, tokens, credFile>>

Next ==
    \/ \E r \in Requests :
          \/ BeginLogin(r) \/ FailLogin(r) \/ PassLogin(r)
          \/ BeginRegister(r) \/ FinishRegister(r)
          \/ BeginFirstRun(r) \/ CommitAdmin(r) \/ WriteCredential(r)
    \/ ChangePassword \/ Tick \/ RestartApi

Spec == Init /\ [][Next]_accountVars

TypeOK ==
    /\ users \in [Emails -> User]
    /\ failures \in [Keys -> Seq(0 .. Horizon)]
    /\ clock \in 0 .. Horizon /\ signingKey \in 0 .. MaxRestarts
    /\ tokens \subseteq Token
    /\ \A r \in Requests : request[r].op \in {"idle", "login", "register", "first_run", "created"}
    /\ credFile \in Requests \cup {None}

(***************************************************************************)
(* The limiter is asked before the password is checked and told after it,  *)
(* so overlapping logins slip past a full window; but only those already   *)
(* admitted: a key never holds more than its limit, less one, and one      *)
(* failure for every request that can be under way (login,                 *)
(* SlidingWindowLimiter).                                                  *)
(***************************************************************************)
Trying(k) == {r \in Requests : request[r].op = "login" /\ k \in {request[r].email, request[r].source}}

GuessesBounded ==
    \A k \in Keys : Len(failures[k]) + Cardinality(Trying(k)) <= MaxEvents(k) - 1 + Cardinality(Requests)

(***************************************************************************)
(* Two first visits race for the bootstrap: the password in the credential *)
(* file is the one that opens the administrator's account until that       *)
(* password is changed, never the one of the visit whose INSERT lost       *)
(* (first_run_check).                                                      *)
(***************************************************************************)
CredentialOpens ==
    credFile # None => users[Admin].admin /\ users[Admin].password \in {credFile, Chosen}
=============================================================================
