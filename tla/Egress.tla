------------------------------- MODULE Egress -------------------------------
(***************************************************************************)
(* The registry of approved APIs (api/api_registry.py) and the check the   *)
(* agent's http_request tool makes against it (AgentRuntime                *)
(* ._registry_allows).  domain has no UNIQUE constraint: adding and        *)
(* suggesting look the domain up and insert after an await.  A registered  *)
(* domain or the netloc of a URL is a host as it is, or dressed with a     *)
(* port, capitals or a user name; an allowed path is abstracted with the   *)
(* method into one operation.                                              *)
(***************************************************************************)
EXTENDS Naturals, FiniteSets

CONSTANTS
    Hosts,
    Operations,  \* the method and path pairs
    EntryIds,    \* bound: rows in all
    Requests     \* the add and suggest requests under way at once

VARIABLES
    entries,     \* EntryIds -> the row, or Gone
    used,        \* the ids given out
    request,     \* the requests past their lookup
    vouched      \* history: the domains an administrator made active

egressVars == <<entries, used, request, vouched>>

Gone == [status |-> "gone"]
Idle == [op |-> "idle"]
Domains == [host : Hosts, dressed : BOOLEAN]

\* What a row allows, no operation lifting the restriction, and whether it spells its
\* methods in capitals.
Allowances ==
    {a \in [ops : SUBSET Operations, capitals : BOOLEAN] :
        Cardinality(a.ops) <= 1 /\ (a.ops = {} => a.capitals)}

Rows(d) == {i \in EntryIds : entries[i] # Gone /\ entries[i].domain = d}
Active(d) == {i \in Rows(d) : entries[i].status = "active"}
AnyActive == \E i \in EntryIds : entries[i].status = "active"

Init ==
    /\ entries = [i \in EntryIds |-> Gone] /\ used = {}
    /\ request = [r \in Requests |-> Idle] /\ vouched = {}

\* 409 when the domain has a row of whatever status; two rows raise and answer 500.
LookUp(r) ==
    /\ request[r] = Idle
    /\ \E d \in Domains, o \in Allowances, op \in {"add", "suggest"} :
          /\ Rows(d) = {}
          /\ request' = [request EXCEPT ![r] = [op |-> op, domain |-> d, allows |-> o]]
    /\ UNCHANGED <<entries, used, vouched>>

StatusOf(op) == IF op = "add" THEN "active" ELSE "pending"

InsertAs(r, status) ==
    /\ request[r].op \in {"add", "suggest"}
    /\ \E i \in EntryIds \ used :
          /\ used' = used \cup {i}
          /\ entries' = [entries EXCEPT ![i] =
                [status |-> status, domain |-> request[r].domain, allows |-> request[r].allows]]
    /\ vouched' = IF request[r].op = "add" THEN vouched \cup {request[r].domain} ELSE vouched
    /\ request' = [request EXCEPT ![r] = Idle]

\* add is an administrator's and active at once; a suggestion waits for approval.
Insert(r) == InsertAs(r, StatusOf(request[r].op))

\* PATCH takes any status an administrator sends; only "active" means anything.
Update ==
    /\ \E i \in EntryIds, o \in Allowances, status \in {"active", "pending", "disabled"} :
          /\ entries[i] # Gone
          /\ entries' = [entries EXCEPT ![i].status = status, ![i].allows = o]
          /\ vouched' = IF status = "active" THEN vouched \cup {entries[i].domain} ELSE vouched
    /\ UNCHANGED <<used, request>>

Remove ==
    /\ \E i \in EntryIds : entries[i] # Gone /\ entries' = [entries EXCEPT ![i] = Gone]
    /\ UNCHANGED <<used, request, vouched>>

Next == (\E r \in Requests : LookUp(r) \/ Insert(r)) \/ Update \/ Remove

Spec == Init /\ [][Next]_egressVars

(***************************************************************************)
(* The two readers.  POST /check takes the netloc as it stands, compares   *)
(* the method in capitals with the methods as they were entered, and       *)
(* refuses what is not registered.  The agent's check takes the host name, *)
(* puts the methods of both sides in capitals, and allows everything while *)
(* no entry is active or the registry cannot be read.  With several rows   *)
(* of a domain the first fails and the second takes whichever comes first. *)
(***************************************************************************)
CheckPermits(i, o) ==
    \/ entries[i].allows.ops = {}
    \/ entries[i].allows.capitals /\ o \in entries[i].allows.ops

CheckUrl(d, o) ==
    IF Cardinality(Active(d)) > 1 THEN "error"
    ELSE IF \E i \in Active(d) : CheckPermits(i, o) THEN "allowed" ELSE "refused"

Permits(i, o) == entries[i].allows.ops = {} \/ o \in entries[i].allows.ops

\* Mutant: the agent's check also reads rows that nobody approved.
RegistryAllowsPending(d, o, readable) ==
    IF ~ readable \/ ~ AnyActive THEN {TRUE}
    ELSE {Permits(i, o) : i \in Rows([d EXCEPT !.dressed = FALSE])}

\* What the agent's check may answer.
RegistryAllows(d, o, readable) ==
    LET found == Active([d EXCEPT !.dressed = FALSE])
    IN IF ~ readable \/ ~ AnyActive THEN {TRUE}
       ELSE IF found = {} THEN {FALSE} ELSE {Permits(i, o) : i \in found}

TypeOK ==
    /\ \A i \in EntryIds :
          \/ entries[i] = Gone
          \/ /\ i \in used
             /\ entries[i] \in [status : {"active", "pending", "disabled"},
                                domain : Domains, allows : Allowances]
    /\ used \subseteq EntryIds /\ vouched \subseteq Domains
    /\ \A r \in Requests : request[r].op \in {"idle", "add", "suggest"}

(***************************************************************************)
(* What the registry page's check allows, in a URL that names the host as  *)
(* it is, the agent's tool does not refuse.  What the check refuses while  *)
(* the list is in force is fetched only if the registry cannot be read or  *)
(* if some row of the host spells its methods without capitals.  Of the    *)
(* list, nobody but an administrator puts a host within the agent's reach, *)
(* however the URL is dressed (check_url, _registry_allows,                *)
(* suggest_domain).                                                        *)
(***************************************************************************)
CheckSpeaksForTheAgent ==
    \A d \in Domains, o \in Operations :
        LET bare == [d EXCEPT !.dressed = FALSE] IN
        /\ CheckUrl(bare, o) = "allowed" =>
              \A readable \in BOOLEAN : RegistryAllows(bare, o, readable) = {TRUE}
        /\ CheckUrl(bare, o) = "refused" /\ AnyActive =>
              \/ RegistryAllows(bare, o, TRUE) = {FALSE}
              \/ \E i \in Active(bare) : ~ entries[i].allows.capitals
        /\ AnyActive /\ TRUE \in RegistryAllows(d, o, TRUE) => bare \in vouched
=============================================================================
