--------------------------- MODULE ConnectionsProofs ---------------------------
(***************************************************************************)
(* Safety of module Connections for any number of requests, providers,     *)
(* credentials, clients and restarts.                                      *)
(***************************************************************************)
EXTENDS Connections, TLAPS

AllClients == [n : Nat, cred : Credentials \cup {Completed}]
AllRows == [cred : Credentials, key : Nat]

\* What stands for neither a client nor a row is none of them.
NothingIsNone == Nothing \notin AllClients \cup AllRows

RequestTyped(r) ==
    \/ request[r] = Idle
    \/ request[r] \in [op : {"look", "commit"}, who : Providers, cred : Credentials, insert : BOOLEAN]
    \/ request[r] \in [op : {"use"}, who : Providers, client : AllClients]

TypeInv ==
    /\ row \in [Providers -> AllRows \cup {Nothing}]
    /\ client \in [Providers -> AllClients \cup {Nothing}]
    /\ closing \subseteq AllClients /\ closed \subseteq AllClients
    /\ made \in Nat /\ key \in Nat
    /\ request = [r \in Requests |-> request[r]] /\ \A r \in Requests : RequestTyped(r)
    /\ saved \in [Providers -> SUBSET Credentials]

\* Clients are numbered as they are made, so a new one is none of the old ones.
Numbered ==
    /\ \A c \in closing \cup closed : c.n <= made
    /\ \A p \in Providers : client[p] # Nothing => client[p].n <= made

\* The clients in use are apart from each other and from those done with.
Apart ==
    \A p \in Providers : client[p] # Nothing =>
        /\ client[p] \notin closing \cup closed
        /\ \A q \in Providers : q # p => client[q] # client[p]

\* A row's and a client's credentials were saved, and those of the next client are.
FromSaved ==
    /\ \A p \in Providers : row[p] # Nothing => row[p].cred \in saved[p]
    /\ \A p \in Providers : client[p] # Nothing => \E c \in saved[p] \ Unusable : client[p].cred = Used(c)
    /\ \A r \in Requests : request[r].op = "commit" => request[r].cred \in saved[request[r].who]

\* A provider that is configured by one request at a time, and never removed: until that
\* request has committed the client is the row's, or none can be made of the row's and an
\* older one stayed, and from then on the request is the row's.
Tidy ==
    \A p \in Providers \ untidy :
        /\ \A r, s \in Configuring(p) : r = s
        /\ client[p] # Nothing /\ (\A r \in Configuring(p) : request[r].op = "look") =>
              client[p].cred = Used(row[p].cred) \/ row[p].cred \in Unusable
        /\ \A r \in Configuring(p) : request[r].op = "commit" => row[p].cred = request[r].cred

IInv == TypeInv /\ Numbered /\ Apart /\ FromSaved /\ Tidy

-----------------------------------------------------------------------------
LEMMA InitInv == Init => IInv
<1> SUFFICES ASSUME Init PROVE IInv
  OBVIOUS
<1>1. TypeInv
  BY DEF Init, TypeInv, RequestTyped
<1>2. \A r \in Requests : request[r].op = "idle"
  BY DEF Init, Idle
<1> QED
  BY <1>1, <1>2 DEF Init, IInv, Numbered, Apart, FromSaved, Tidy, Configuring

\* A step that leaves clients and their numbers alone disturbs neither.
LEMMA ClientsKept ==
  ASSUME IInv, UNCHANGED <<client, closing, closed, made>>
  PROVE  Numbered' /\ Apart'
  BY DEF IInv, Numbered, Apart

LEMMA LookUpInv == ASSUME IInv, NEW r \in Requests, LookUp(r) PROVE IInv'
<1>1. PICK p \in Providers, c \in Credentials :
        /\ request' = [request EXCEPT ![r] =
              [op |-> "look", who |-> p, cred |-> c, insert |-> row[p] = Nothing]]
        /\ untidy' = IF Configuring(p) # {} THEN untidy \cup {p} ELSE untidy
  BY DEF LookUp
<1>2. UNCHANGED <<row, client, closing, closed, made, key, saved>> /\ request[r] = Idle
  BY DEF LookUp
<1> DEFINE new == [op |-> "look", who |-> p, cred |-> c, insert |-> row[p] = Nothing]
<1>3. new \in [op : {"look", "commit"}, who : Providers, cred : Credentials, insert : BOOLEAN]
      /\ new.op = "look" /\ new.who = p
  OBVIOUS
<1> HIDE DEF new
<1>4. request' = [request EXCEPT ![r] = new]
  BY <1>1 DEF new
<1>5. \A q \in Requests : request'[q] = IF q = r THEN new ELSE request[q]
  BY <1>4 DEF IInv, TypeInv
<1>6. TypeInv'
  BY <1>2, <1>3, <1>4, <1>5 DEF IInv, TypeInv, RequestTyped
<1>7. FromSaved'
  BY <1>2, <1>3, <1>5 DEF IInv, FromSaved
<1>8. Tidy'
  <2> SUFFICES ASSUME NEW q \in Providers, q \notin untidy'
               PROVE  /\ \A s, t \in Configuring(q)' : s = t
                      /\ client'[q] # Nothing /\ (\A s \in Configuring(q)' : request'[s].op = "look") =>
                            client'[q].cred = Used(row'[q].cred) \/ row'[q].cred \in Unusable
                      /\ \A s \in Configuring(q)' : request'[s].op = "commit" => row'[q].cred = request'[s].cred
    BY DEF Tidy
  <2>1. q \notin untidy /\ (q = p => Configuring(p) = {})
    BY <1>1
  <2>2. Configuring(q)' = IF q = p THEN {r} ELSE Configuring(q)
    BY <1>2, <1>3, <1>5, <2>1 DEF Configuring, Idle
  <2>3. \A s \in Configuring(q) : s # r /\ request'[s] = request[s]
    BY <1>2, <1>5 DEF Configuring, Idle
  <2>4. CASE q = p
    BY <1>2, <1>3, <1>5, <2>1, <2>2, <2>4 DEF IInv, Tidy
  <2>5. CASE q # p
    BY <1>2, <2>1, <2>2, <2>3, <2>5 DEF IInv, Tidy
  <2> QED
    BY <2>4, <2>5
<1> QED
  BY <1>2, <1>6, <1>7, <1>8, ClientsKept DEF IInv

\* A step of a request that configures nothing, before or after, leaves each provider's
\* configurations alone.
LEMMA RequestMoved ==
  ASSUME IInv, NEW r \in Requests, NEW new, request' = [request EXCEPT ![r] = new],
         UNCHANGED <<row, client, untidy>>, request[r].op \in {"idle", "use"}, new.op \in {"idle", "use"}
  PROVE  Tidy'
<1>1. \A q \in Requests : request'[q] = IF q = r THEN new ELSE request[q]
  BY DEF IInv, TypeInv
<1>2. \A p : Configuring(p)' = Configuring(p) /\ r \notin Configuring(p)
  BY <1>1 DEF Configuring
<1>3. \A p : \A s \in Configuring(p) : request'[s] = request[s]
  BY <1>1, <1>2 DEF Configuring
<1> QED
  BY <1>2, <1>3 DEF IInv, Tidy

LEMMA CommitRowInv == ASSUME IInv, NothingIsNone, NEW r \in Requests, CommitRow(r) PROVE IInv'
<1> DEFINE p == request[r].who
           c == request[r].cred
<1>1. p \in Providers /\ c \in Credentials /\ request[r].insert \in BOOLEAN /\ request[r].op = "look"
      /\ request[r] \in [op : {"look", "commit"}, who : Providers, cred : Credentials, insert : BOOLEAN]
  BY DEF CommitRow, IInv, TypeInv, RequestTyped, Idle
<1>2. UNCHANGED <<client, closing, closed, made, key, untidy>>
  BY DEF CommitRow
<1>3. CASE request[r].insert = (row[p] = Nothing)
  <2> DEFINE new == [request[r] EXCEPT !.op = "commit"]
  <2>1. request' = [request EXCEPT ![r] = new]
        /\ row' = [row EXCEPT ![p] = [cred |-> c, key |-> key]]
        /\ saved' = [saved EXCEPT ![p] = @ \cup {c}]
    BY <1>3 DEF CommitRow
  <2>2. new \in [op : {"look", "commit"}, who : Providers, cred : Credentials, insert : BOOLEAN]
        /\ new.op = "commit" /\ new.who = p /\ new.cred = c
    BY <1>1
  <2> HIDE DEF new
  <2>3. \A q \in Requests : request'[q] = IF q = r THEN new ELSE request[q]
    BY <2>1 DEF IInv, TypeInv
  <2>4. [cred |-> c, key |-> key] \in AllRows
    BY <1>1 DEF IInv, TypeInv, AllRows
  <2>5. \A q \in Providers : row'[q] = IF q = p THEN [cred |-> c, key |-> key] ELSE row[q]
    BY <2>1, <1>1 DEF IInv, TypeInv
  <2>6. \A q \in Providers : saved'[q] = IF q = p THEN saved[q] \cup {c} ELSE saved[q]
    BY <2>1, <1>1 DEF IInv, TypeInv
  <2>7. TypeInv'
    <3>1. row' \in [Providers -> AllRows \cup {Nothing}]
      BY <2>1, <2>4, <1>1 DEF IInv, TypeInv
    <3>2. request' = [q \in Requests |-> request'[q]]
      BY <2>1 DEF IInv, TypeInv
    <3>3. \A q \in Requests : RequestTyped(q)'
      BY <2>2, <2>3 DEF IInv, TypeInv, RequestTyped
    <3>4. saved' \in [Providers -> SUBSET Credentials]
      BY <2>1, <1>1 DEF IInv, TypeInv
    <3> QED
      BY <3>1, <3>2, <3>3, <3>4, <1>2 DEF IInv, TypeInv
  <2>8. FromSaved'
    <3>1. \A q \in Requests : request[q].op \in {"look", "commit"} => request[q].who \in Providers
      BY DEF IInv, TypeInv, RequestTyped, Idle
    <3>2. (\A q \in Providers : client[q] # Nothing => \E d \in saved[q] \ Unusable : client[q].cred = Used(d))'
      <4> SUFFICES ASSUME NEW q \in Providers, client[q] # Nothing
                   PROVE  \E d \in saved'[q] \ Unusable : client[q].cred = Used(d)
        BY <1>2 DEF Used
      <4> QED
        BY <2>6 DEF IInv, FromSaved
    <3>4. (\A q \in Providers : row[q] # Nothing => row[q].cred \in saved[q])'
      <4> SUFFICES ASSUME NEW q \in Providers, row'[q] # Nothing PROVE row'[q].cred \in saved'[q]
        OBVIOUS
      <4>1. CASE q = p
        <5>1. row'[q].cred = c
          BY <4>1, <2>5
        <5> QED
          BY <5>1, <4>1, <2>6
      <4>2. CASE q # p
        BY <4>2, <2>5, <2>6 DEF IInv, FromSaved
      <4> QED
        BY <4>1, <4>2
    <3>3. (\A q \in Requests : request[q].op = "commit" => request[q].cred \in saved[request[q].who])'
      <4> SUFFICES ASSUME NEW q \in Requests, request'[q].op = "commit"
                   PROVE  request'[q].cred \in saved'[request'[q].who]
        OBVIOUS
      <4>1. CASE q = r
        BY <4>1, <2>2, <2>3, <2>6, <1>1
      <4>2. CASE q # r
        <5>1. request'[q] = request[q] /\ request[q].who \in Providers
          BY <4>2, <3>1, <2>3
        <5>2. request[q].cred \in saved[request[q].who]
          BY <5>1 DEF IInv, FromSaved
        <5> QED
          BY <5>1, <5>2, <2>6
      <4> QED
        BY <4>1, <4>2
    <3> QED
      BY <3>2, <3>3, <3>4 DEF FromSaved
  <2>9. \A q : Configuring(q)' = Configuring(q)
    BY <2>2, <2>3, <1>1 DEF Configuring
  <2>10. r \in Configuring(p)
    BY <1>1 DEF Configuring
  <2>11. Tidy'
    <3> SUFFICES ASSUME NEW q \in Providers, q \notin untidy
                 PROVE  /\ \A s, t \in Configuring(q) : s = t
                        /\ client[q] # Nothing /\ (\A s \in Configuring(q) : request'[s].op = "look") =>
                              client[q].cred = Used(row'[q].cred) \/ row'[q].cred \in Unusable
                        /\ \A s \in Configuring(q) : request'[s].op = "commit" => row'[q].cred = request'[s].cred
      BY <1>2, <2>9 DEF Tidy
    <3>1. \A s, t \in Configuring(q) : s = t
      BY DEF IInv, Tidy
    <3>2. CASE q = p
      <4>1. \A s \in Configuring(q) : s = r
        BY <3>1, <3>2, <2>10
      <4>2. request'[r] = new /\ row'[q].cred = c
        BY <2>3, <2>5, <3>2
      <4> QED
        BY <3>1, <3>2, <4>1, <4>2, <2>2, <2>10
    <3>3. CASE q # p
      <4>1. \A s \in Configuring(q) : s # r /\ request'[s] = request[s]
        BY <3>3, <2>3 DEF Configuring
      <4>2. row'[q] = row[q]
        BY <3>3, <2>5
      <4> QED
        BY <3>1, <4>1, <4>2 DEF IInv, Tidy
    <3> QED
      BY <3>2, <3>3
  <2> QED
    BY <2>7, <2>8, <2>11, <1>2, ClientsKept DEF IInv
<1>4. CASE request[r].insert # (row[p] = Nothing)
  <2>1. request' = [request EXCEPT ![r] = Idle] /\ UNCHANGED <<row, saved>>
    BY <1>1, <1>4 DEF CommitRow
  <2>2. \A q \in Requests : request'[q] = IF q = r THEN Idle ELSE request[q]
    BY <2>1 DEF IInv, TypeInv
  <2>3. TypeInv'
    BY <1>2, <2>1, <2>2 DEF IInv, TypeInv, RequestTyped
  <2>4. FromSaved'
    BY <1>2, <2>1, <2>2 DEF IInv, FromSaved, Idle
  <2>5. \A q : Configuring(q)' = Configuring(q) \ {r}
    BY <2>2 DEF Configuring, Idle
  <2>6. \A q : \A s \in Configuring(q)' : request'[s] = request[s]
    BY <2>2, <2>5 DEF Configuring
  <2>7. Tidy'
    <3> SUFFICES ASSUME NEW q \in Providers, q \notin untidy
                 PROVE  /\ \A s, t \in Configuring(q)' : s = t
                        /\ client[q] # Nothing /\ (\A s \in Configuring(q)' : request[s].op = "look") =>
                              client[q].cred = Used(row[q].cred) \/ row[q].cred \in Unusable
                        /\ \A s \in Configuring(q)' : request[s].op = "commit" => row[q].cred = request[s].cred
      BY <1>2, <2>1, <2>6 DEF Tidy
    <3> QED
      BY <2>5, <1>1 DEF IInv, Tidy
  <2> QED
    BY <2>3, <2>4, <2>7, <1>2, ClientsKept DEF IInv
<1> QED
  BY <1>3, <1>4

\* The new client's number is above every other's.
LEMMA RegisterInv == ASSUME IInv, NothingIsNone, NEW r \in Requests, Register(r) PROVE IInv'
<1> DEFINE p == request[r].who
           c == request[r].cred
           new == [n |-> made + 1, cred |-> Used(c)]
<1>1. p \in Providers /\ c \in Credentials /\ request[r].op = "commit" /\ c \notin Unusable
  BY DEF Register, IInv, TypeInv, RequestTyped, Idle
<1>2. made' = made + 1 /\ client' = [client EXCEPT ![p] = new]
      /\ closing' = closing \cup ({client[p]} \ {Nothing})
      /\ request' = [request EXCEPT ![r] = Idle] /\ UNCHANGED <<row, closed, key, saved, untidy>>
  BY DEF Register, Replace
<1>3. new \in AllClients /\ new # Nothing /\ new.n = made + 1 /\ new.cred = Used(c)
  BY <1>1 DEF IInv, TypeInv, AllClients, NothingIsNone, Used
<1> HIDE DEF new
<1>4. \A q \in Providers : client'[q] = IF q = p THEN new ELSE client[q]
  BY <1>1, <1>2 DEF IInv, TypeInv
<1>5. \A q \in Requests : request'[q] = IF q = r THEN Idle ELSE request[q]
  BY <1>2 DEF IInv, TypeInv
<1>6. client[p] \in AllClients \cup {Nothing}
  BY <1>1 DEF IInv, TypeInv
<1>7. TypeInv'
  <2>1. client' \in [Providers -> AllClients \cup {Nothing}]
    BY <1>2, <1>3 DEF IInv, TypeInv
  <2>2. closing' \subseteq AllClients /\ made' \in Nat
    BY <1>2, <1>6 DEF IInv, TypeInv
  <2>3. request' = [q \in Requests |-> request'[q]]
    BY <1>2 DEF IInv, TypeInv
  <2>4. \A q \in Requests : RequestTyped(q)'
    BY <1>5 DEF IInv, TypeInv, RequestTyped
  <2> QED
    BY <2>1, <2>2, <2>3, <2>4, <1>2 DEF IInv, TypeInv
<1>8. /\ made \in Nat
      /\ \A d \in closing \cup closed : d.n \in Nat
      /\ \A q \in Providers : client[q] # Nothing => client[q].n \in Nat
  BY DEF IInv, TypeInv, AllClients
<1>9. \A d \in closing' \cup closed' : d.n <= made
  BY <1>1, <1>2 DEF IInv, Numbered
<1>10. Numbered'
  <2>1. \A d \in closing' \cup closed' : d \in closing \cup closed \/ (d = client[p] /\ d # Nothing)
    BY <1>2
  <2>2. \A d \in closing' \cup closed' : d.n \in Nat /\ d.n <= made
    <3>1. ASSUME NEW d \in closing' \cup closed' PROVE d.n \in Nat
      <4>1. CASE d \in closing \cup closed
        BY <4>1, <1>8
      <4>2. CASE d = client[p] /\ d # Nothing
        BY <4>2, <1>1, <1>8
      <4> QED
        BY <4>1, <4>2, <2>1
    <3> QED
      BY <3>1, <1>9
  <2>3. \A d \in closing' \cup closed' : d.n <= made'
    BY <2>2, <1>2, <1>8
  <2>4. ASSUME NEW q \in Providers, client'[q] # Nothing PROVE client'[q].n <= made'
    <3>1. CASE q = p
      BY <3>1, <1>2, <1>3, <1>4, <1>8
    <3>2. CASE q # p
      <4>1. client'[q] = client[q]
        BY <3>2, <1>4
      <4>2. client[q].n \in Nat /\ client[q].n <= made
        BY <4>1, <2>4, <1>8 DEF IInv, Numbered
      <4> QED
        BY <4>1, <4>2, <1>2, <1>8
    <3> QED
      BY <3>1, <3>2
  <2> QED
    BY <2>3, <2>4 DEF Numbered
<1>11. Apart'
  <2> SUFFICES ASSUME NEW q \in Providers, client'[q] # Nothing
               PROVE  /\ client'[q] \notin closing' \cup closed'
                      /\ \A s \in Providers : s # q => client'[s] # client'[q]
    BY DEF Apart
  <2>1. CASE q = p
    <3>1. client'[q] = new /\ ~ (new.n <= made)
      BY <2>1, <1>3, <1>4, <1>8
    <3>2. \A s \in Providers : s # q => client'[s] = client[s]
      BY <2>1, <1>4
    <3>3. \A s \in Providers : s # q => client[s] # new
      BY <3>1, <1>3 DEF IInv, Numbered
    <3> QED
      BY <3>1, <3>2, <3>3, <1>9
  <2>2. CASE q # p
    <3>1. client'[q] = client[q] /\ client[q] # Nothing
      BY <2>2, <1>4
    <3>2. client[q] \notin closing \cup closed /\ client[q] # client[p]
      BY <3>1, <2>2, <1>1 DEF IInv, Apart
    <3>3. client[q] # new
      BY <3>1, <1>3, <1>8 DEF IInv, Numbered
    <3>4. \A s \in Providers : s # q => client[s] # client[q]
      BY <3>1 DEF IInv, Apart
    <3> QED
      BY <3>1, <3>2, <3>3, <3>4, <1>2, <1>4
  <2> QED
    BY <2>1, <2>2
<1>12. FromSaved'
  <2>1. c \in saved[p] \ Unusable
    BY <1>1 DEF IInv, FromSaved
  <2>2. ASSUME NEW q \in Providers, client'[q] # Nothing
        PROVE  \E d \in saved[q] \ Unusable : client'[q].cred = Used(d)
    <3>1. CASE q = p
      BY <3>1, <2>1, <1>3, <1>4
    <3>2. CASE q # p
      BY <3>2, <2>2, <1>4 DEF IInv, FromSaved
    <3> QED
      BY <3>1, <3>2
  <2>3. (\A q \in Requests : request[q].op = "commit" => request[q].cred \in saved[request[q].who])'
    BY <1>2, <1>5 DEF IInv, FromSaved, Idle
  <2>4. \A q \in Providers : row[q] # Nothing => row[q].cred \in saved[q]
    BY DEF IInv, FromSaved
  <2> QED
    BY <1>2, <2>2, <2>3, <2>4 DEF FromSaved, Used
<1>13. \A q : Configuring(q)' = Configuring(q) \ {r}
  BY <1>5 DEF Configuring, Idle
<1>14. \A q : \A s \in Configuring(q)' : request'[s] = request[s]
  BY <1>5, <1>13 DEF Configuring
<1>15. Tidy'
  <2> SUFFICES ASSUME NEW q \in Providers, q \notin untidy
               PROVE  /\ \A s, t \in Configuring(q)' : s = t
                      /\ client'[q] # Nothing /\ (\A s \in Configuring(q)' : request[s].op = "look") =>
                            client'[q].cred = Used(row[q].cred) \/ row[q].cred \in Unusable
                      /\ \A s \in Configuring(q)' : request[s].op = "commit" => row[q].cred = request[s].cred
    BY <1>2, <1>14 DEF Tidy
  <2>1. \A s, t \in Configuring(q) : s = t
    BY DEF IInv, Tidy
  <2>2. CASE q = p
    <3>1. r \in Configuring(q)
      BY <1>1, <2>2 DEF Configuring
    <3>2. Configuring(q)' = {}
      BY <2>1, <3>1, <1>13
    <3>3. row[q].cred = c
      BY <3>1, <1>1 DEF IInv, Tidy
    <3> QED
      BY <3>2, <3>3, <2>2, <1>3, <1>4
  <2>3. CASE q # p
    <3>1. r \notin Configuring(q) /\ client'[q] = client[q]
      BY <2>3, <1>4 DEF Configuring
    <3> QED
      BY <3>1, <1>13 DEF IInv, Tidy
  <2> QED
    BY <2>2, <2>3
<1> QED
  BY <1>7, <1>10, <1>11, <1>12, <1>15 DEF IInv

\* The row a failed initialisation leaves is one no client can be made of.
LEMMA RegisterFailsInv == ASSUME IInv, NEW r \in Requests, RegisterFails(r) PROVE IInv'
<1> DEFINE p == request[r].who
<1>1. p \in Providers /\ request[r].op = "commit" /\ request[r].cred \in Unusable
      /\ request' = [request EXCEPT ![r] = Idle]
      /\ UNCHANGED <<row, client, closing, closed, made, key, saved, untidy>>
  BY DEF RegisterFails, IInv, TypeInv, RequestTyped, Idle
<1>2. \A q \in Requests : request'[q] = IF q = r THEN Idle ELSE request[q]
  BY <1>1 DEF IInv, TypeInv
<1>3. TypeInv'
  BY <1>1, <1>2 DEF IInv, TypeInv, RequestTyped
<1>4. FromSaved'
  BY <1>1, <1>2 DEF IInv, FromSaved, Idle
<1>5. \A q : Configuring(q)' = Configuring(q) \ {r}
  BY <1>2 DEF Configuring, Idle
<1>6. \A q : \A s \in Configuring(q)' : request'[s] = request[s]
  BY <1>2, <1>5 DEF Configuring
<1>7. r \in Configuring(p)
  BY <1>1 DEF Configuring
<1>8. Tidy'
  <2> SUFFICES ASSUME NEW q \in Providers, q \notin untidy
               PROVE  /\ \A s, t \in Configuring(q)' : s = t
                      /\ client[q] # Nothing /\ (\A s \in Configuring(q)' : request[s].op = "look") =>
                            client[q].cred = Used(row[q].cred) \/ row[q].cred \in Unusable
                      /\ \A s \in Configuring(q)' : request[s].op = "commit" => row[q].cred = request[s].cred
    BY <1>1, <1>6 DEF Tidy
  <2>1. CASE q = p
    <3>1. row[q].cred \in Unusable /\ Configuring(q)' = {}
      BY <1>1, <1>5, <1>7, <2>1 DEF IInv, Tidy
    <3> QED
      BY <3>1
  <2>2. CASE q # p
    <3>1. Configuring(q)' = Configuring(q)
      BY <1>1, <1>5, <2>2 DEF Configuring
    <3> QED
      BY <3>1 DEF IInv, Tidy
  <2> QED
    BY <2>1, <2>2
<1> QED
  BY <1>1, <1>3, <1>4, <1>8, ClientsKept DEF IInv

LEMMA BeginUseInv == ASSUME IInv, NEW r \in Requests, BeginUse(r) PROVE IInv'
<1>1. PICK p \in Providers :
        client[p] # Nothing /\ request' = [request EXCEPT ![r] = [op |-> "use", who |-> p, client |-> client[p]]]
  BY DEF BeginUse
<1> DEFINE new == [op |-> "use", who |-> p, client |-> client[p]]
<1>2. UNCHANGED <<row, client, closing, closed, made, key, saved, untidy>> /\ request[r] = Idle
  BY DEF BeginUse
<1>3. new \in [op : {"use"}, who : Providers, client : AllClients] /\ new.op = "use"
  BY <1>1 DEF IInv, TypeInv
<1> HIDE DEF new
<1>4. request' = [request EXCEPT ![r] = new]
  BY <1>1 DEF new
<1>5. \A q \in Requests : request'[q] = IF q = r THEN new ELSE request[q]
  BY <1>4 DEF IInv, TypeInv
<1>6. TypeInv'
  BY <1>2, <1>3, <1>4, <1>5 DEF IInv, TypeInv, RequestTyped
<1>7. FromSaved'
  BY <1>2, <1>3, <1>5 DEF IInv, FromSaved
<1>8. Tidy'
  <2>1. request[r].op \in {"idle", "use"} /\ new.op \in {"idle", "use"}
    BY <1>2, <1>3 DEF Idle
  <2>2. UNCHANGED <<row, client, untidy>>
    BY <1>2
  <2> QED
    BY <2>1, <2>2, <1>4, RequestMoved
<1> QED
  BY <1>2, <1>6, <1>7, <1>8, ClientsKept DEF IInv

LEMMA EndUseInv == ASSUME IInv, NEW r \in Requests, EndUse(r) PROVE IInv'
<1>1. request' = [request EXCEPT ![r] = Idle] /\ request[r].op = "use"
      /\ UNCHANGED <<row, client, closing, closed, made, key, saved, untidy>>
  BY DEF EndUse
<1>2. \A q \in Requests : request'[q] = IF q = r THEN Idle ELSE request[q]
  BY <1>1 DEF IInv, TypeInv
<1>3. TypeInv'
  BY <1>1, <1>2 DEF IInv, TypeInv, RequestTyped
<1>4. FromSaved'
  BY <1>1, <1>2 DEF IInv, FromSaved, Idle
<1>5. Idle.op = "idle"
  BY DEF Idle
<1>6. Tidy'
  BY <1>1, <1>5, RequestMoved
<1> QED
  BY <1>1, <1>3, <1>4, <1>6, ClientsKept DEF IInv

\* The closing task takes its client from one set of those done with to the other.
LEMMA CloseInv == ASSUME IInv, Close PROVE IInv'
<1>1. UNCHANGED <<row, client, request, made, key, saved, untidy>>
      /\ closing' \subseteq AllClients /\ closed' \subseteq AllClients
      /\ closing' \cup closed' = closing \cup closed
  BY DEF Close, IInv, TypeInv
<1>2. TypeInv'
  BY <1>1 DEF IInv, TypeInv, RequestTyped
<1>3. Numbered' /\ Apart' /\ FromSaved'
  BY <1>1 DEF IInv, Numbered, Apart, FromSaved
<1>4. Tidy'
  BY <1>1 DEF IInv, Tidy, Configuring
<1> QED
  BY <1>2, <1>3, <1>4 DEF IInv

LEMMA RemoveInv == ASSUME IInv, Remove PROVE IInv'
<1>1. PICK p \in Providers : row' = [row EXCEPT ![p] = Nothing] /\ untidy' = untidy \cup {p}
  BY DEF Remove
<1>2. UNCHANGED <<client, closing, closed, request, made, key, saved>>
  BY DEF Remove
<1>3. TypeInv'
  BY <1>1, <1>2 DEF IInv, TypeInv, RequestTyped
<1>4. FromSaved'
  <2>1. \A q \in Providers : row'[q] # Nothing => row'[q] = row[q]
    BY <1>1 DEF IInv, TypeInv
  <2> QED
    BY <2>1, <1>2 DEF IInv, FromSaved
<1>5. \A q \in Providers \ untidy' : q \notin untidy /\ row'[q] = row[q]
  BY <1>1 DEF IInv, TypeInv
<1>6. Tidy'
  BY <1>2, <1>5 DEF IInv, Tidy, Configuring
<1> QED
  BY <1>2, <1>3, <1>4, <1>6, ClientsKept DEF IInv

LEMMA RestartInv == ASSUME IInv, RestartApi PROVE IInv'
<1>1. client' = [p \in Providers |-> Nothing] /\ closing' = {} /\ closed' = {}
      /\ request' = [r \in Requests |-> Idle] /\ UNCHANGED <<row, made, saved, untidy>>
  BY DEF RestartApi
<1>2. key' \in Nat
  BY DEF RestartApi, IInv, TypeInv
<1>3. TypeInv'
  BY <1>1, <1>2 DEF IInv, TypeInv, RequestTyped
<1>4. Numbered' /\ Apart' /\ FromSaved' /\ Tidy'
  BY <1>1 DEF IInv, Numbered, Apart, FromSaved, Tidy, Configuring, Idle
<1> QED
  BY <1>3, <1>4 DEF IInv

LEMMA Untouched == ASSUME IInv, UNCHANGED connectionVars PROVE IInv'
<1>1. TypeInv'
  BY DEF connectionVars, IInv, TypeInv, RequestTyped
<1>2. Numbered' /\ Apart' /\ FromSaved'
  BY DEF connectionVars, IInv, Numbered, Apart, FromSaved
<1>3. Tidy'
  BY DEF connectionVars, IInv, Tidy, Configuring
<1> QED
  BY <1>1, <1>2, <1>3 DEF IInv

LEMMA NextInv == ASSUME IInv, NothingIsNone, [Next]_connectionVars PROVE IInv'
<1>1. ASSUME NEW r \in Requests, LookUp(r) PROVE IInv'
  BY <1>1, LookUpInv
<1>2. ASSUME NEW r \in Requests, CommitRow(r) PROVE IInv'
  BY <1>2, CommitRowInv
<1>3. ASSUME NEW r \in Requests, Register(r) PROVE IInv'
  BY <1>3, RegisterInv
<1>4. ASSUME NEW r \in Requests, BeginUse(r) PROVE IInv'
  BY <1>4, BeginUseInv
<1>5. ASSUME NEW r \in Requests, EndUse(r) PROVE IInv'
  BY <1>5, EndUseInv
<1>6. ASSUME NEW r \in Requests, RegisterFails(r) PROVE IInv'
  BY <1>6, RegisterFailsInv
<1> QED
  BY <1>1, <1>2, <1>3, <1>4, <1>5, <1>6, CloseInv, RemoveInv, RestartInv, Untouched DEF Next

LEMMA IInvTrustworthy == ASSUME IInv, NothingIsNone PROVE ClientTrustworthy
<1>1. ASSUME NEW p \in Providers, client[p] # Nothing
      PROVE  /\ client[p] \notin closing \cup closed
             /\ \E c \in saved[p] \ Unusable : client[p].cred = Used(c)
             /\ p \notin untidy /\ Configuring(p) = {} =>
                   client[p].cred = Used(row[p].cred) \/ row[p].cred \in Unusable
  BY <1>1 DEF IInv, Apart, FromSaved, Tidy
<1>2. ASSUME NEW r \in Requests, request[r].op = "use", Answer(r) = "error"
      PROVE  client[request[r].who] # request[r].client
  <2>1. request[r].who \in Providers /\ request[r].client \in closed
    BY <1>2 DEF Answer, IInv, TypeInv, RequestTyped, Idle
  <2>2. Nothing \notin closed
    BY DEF IInv, TypeInv, NothingIsNone
  <2> QED
    BY <2>1, <2>2, <1>1
<1>3. ASSUME NEW p \in Providers
      PROVE  RepoListSource(p) \in saved[p] \cup {Used(c) : c \in saved[p]} \cup {"no token configured"}
  BY DEF RepoListSource, Decrypts, IInv, FromSaved
<1> QED
  BY <1>1, <1>2, <1>3 DEF ClientTrustworthy

\* However configurations, closing tasks, uses, removals and restarts overlap, the client
\* handed out is open, is not about to be closed, and is of credentials that were saved, the
\* environment's in the place of empty fields; at rest they are the row's, or no client can
\* be made of those (configure_integration, _initialize_provider, _close_provider).
THEOREM ClientsAreTrustworthy ==
  ASSUME NothingIsNone
  PROVE  Spec => []ClientTrustworthy
<1>1. Init => IInv
  BY InitInv
<1>2. IInv /\ [Next]_connectionVars => IInv'
  BY NextInv
<1>3. IInv => ClientTrustworthy
  BY IInvTrustworthy
<1> QED
  BY <1>1, <1>2, <1>3, PTL DEF Spec

-----------------------------------------------------------------------------
(* Type correctness.                                                         *)
\* The bounds are numbers.
BoundsAreNumbers == MaxClients \in Nat /\ MaxRestarts \in Nat

\* Clients and keys are numbered within the bounds.
WithinBounds ==
    /\ made <= MaxClients /\ key <= MaxRestarts
    /\ \A c \in closing \cup closed : c.n \in 1 .. MaxClients
    /\ \A p \in Providers : client[p] # Nothing => client[p].n \in 1 .. MaxClients
    /\ \A p \in Providers : row[p] # Nothing => row[p].key <= MaxRestarts
    /\ untidy \subseteq Providers

LEMMA BoundedTyped == TypeInv /\ WithinBounds /\ BoundsAreNumbers => TypeOK
<1> SUFFICES ASSUME TypeInv, WithinBounds, BoundsAreNumbers PROVE TypeOK
  OBVIOUS
<1>1. \A c \in AllClients : c.n \in 1 .. MaxClients => c \in Clients
  BY DEF AllClients, Clients
<1>2. client \in [Providers -> Clients \cup {Nothing}]
  BY <1>1 DEF TypeInv, WithinBounds
<1>3. closing \subseteq Clients /\ closed \subseteq Clients
  BY <1>1 DEF TypeInv, WithinBounds
<1>4. \A x \in AllRows : x.key <= MaxRestarts => x \in [cred : Credentials, key : 0 .. MaxRestarts]
  BY DEF AllRows, BoundsAreNumbers
<1>5. row \in [Providers -> [cred : Credentials, key : 0 .. MaxRestarts] \cup {Nothing}]
  BY <1>4 DEF TypeInv, WithinBounds
<1>6. made \in 0 .. MaxClients /\ key \in 0 .. MaxRestarts
  BY DEF TypeInv, WithinBounds, BoundsAreNumbers
<1>7. \A r \in Requests : request[r].op \in {"idle", "look", "commit", "use"}
  BY DEF TypeInv, RequestTyped, Idle
<1> QED
  BY <1>2, <1>3, <1>5, <1>6, <1>7 DEF TypeInv, WithinBounds, TypeOK

LEMMA BoundsInit == Init /\ BoundsAreNumbers => WithinBounds
  BY DEF Init, WithinBounds, BoundsAreNumbers

LEMMA BoundsKept == ASSUME TypeInv, WithinBounds, BoundsAreNumbers, [Next]_connectionVars PROVE WithinBounds'
<1>1. ASSUME NEW r \in Requests, LookUp(r) PROVE WithinBounds'
  <2>1. /\ \E p \in Providers : untidy' \in {untidy, untidy \cup {p}}
        /\ UNCHANGED <<row, client, closing, closed, made, key>>
    BY <1>1 DEF LookUp
  <2> QED
    BY <2>1 DEF WithinBounds
<1>2. ASSUME NEW r \in Requests, CommitRow(r) PROVE WithinBounds'
  <2>1. UNCHANGED <<client, closing, closed, made, key, untidy>>
    BY <1>2 DEF CommitRow
  <2>2. ASSUME NEW p \in Providers, row'[p] # Nothing PROVE row'[p].key <= MaxRestarts
    <3>1. row' = row \/ \E q, c : row' = [row EXCEPT ![q] = [cred |-> c, key |-> key]]
      BY <1>2 DEF CommitRow
    <3>2. CASE row' = row
      BY <2>2, <3>2 DEF WithinBounds
    <3>3. CASE row' # row
      <4>1. PICK q, c : row' = [row EXCEPT ![q] = [cred |-> c, key |-> key]]
        BY <3>1, <3>3
      <4>2. row'[p] = row[p] \/ row'[p] = [cred |-> c, key |-> key]
        BY <4>1 DEF TypeInv
      <4> QED
        BY <2>2, <4>2 DEF WithinBounds
    <3> QED
      BY <3>2, <3>3
  <2> QED
    BY <2>1, <2>2 DEF WithinBounds
<1>3. ASSUME NEW r \in Requests, Register(r) PROVE WithinBounds'
  <2>1. request[r].op = "commit" /\ request[r].who \in Providers
    BY <1>3 DEF Register, TypeInv, RequestTyped, Idle
  <2>2. PICK p \in Providers : \E c : Replace(p, c)
    BY <1>3, <2>1 DEF Register
  <2>3. PICK c : Replace(p, c)
    BY <2>2
  <2>4. UNCHANGED <<row, closed, key, untidy>>
    BY <1>3 DEF Register
  <2>5. PICK n \in 1 .. MaxClients : n = made + 1 /\ made' = n
    BY <2>3 DEF Replace, TypeInv, BoundsAreNumbers
  <2>6. client' = [client EXCEPT ![p] = [n |-> n, cred |-> Used(c)]] /\ closing' = closing \cup ({client[p]} \ {Nothing})
    BY <2>3, <2>5 DEF Replace
  <2>7. ASSUME NEW q \in Providers, client'[q] # Nothing PROVE client'[q].n \in 1 .. MaxClients
    <3>1. client'[q] = client[q] \/ client'[q] = [n |-> n, cred |-> Used(c)]
      BY <2>6 DEF TypeInv
    <3> QED
      BY <2>7, <3>1 DEF WithinBounds
  <2>8. \A d \in closing' \cup closed' : d.n \in 1 .. MaxClients
    BY <2>4, <2>6 DEF WithinBounds
  <2>9. made' <= MaxClients
    BY <2>5
  <2> QED
    BY <2>4, <2>7, <2>8, <2>9 DEF WithinBounds
<1>4. ASSUME NEW r \in Requests, BeginUse(r) \/ EndUse(r) \/ RegisterFails(r) PROVE WithinBounds'
  BY <1>4 DEF BeginUse, EndUse, RegisterFails, WithinBounds
<1>5. CASE Close
  BY <1>5 DEF Close, WithinBounds
<1>6. CASE Remove
  <2>1. PICK p \in Providers : row' = [row EXCEPT ![p] = Nothing] /\ untidy' = untidy \cup {p}
    BY <1>6 DEF Remove
  <2>2. UNCHANGED <<client, closing, closed, made, key>>
    BY <1>6 DEF Remove
  <2>3. \A q \in Providers : row'[q] = Nothing \/ row'[q] = row[q]
    BY <2>1 DEF TypeInv
  <2> QED
    BY <2>1, <2>2, <2>3 DEF WithinBounds
<1>7. CASE RestartApi
  <2>1. key' <= MaxRestarts
    BY <1>7 DEF RestartApi, TypeInv, WithinBounds, BoundsAreNumbers
  <2>2. /\ client' = [p \in Providers |-> Nothing] /\ closing' = {} /\ closed' = {}
        /\ UNCHANGED <<row, made, untidy>>
    BY <1>7 DEF RestartApi
  <2> QED
    BY <2>1, <2>2 DEF WithinBounds
<1>8. CASE UNCHANGED connectionVars
  BY <1>8 DEF connectionVars, WithinBounds
<1> QED
  BY <1>1, <1>2, <1>3, <1>4, <1>5, <1>6, <1>7, <1>8 DEF Next

\* Type correctness: clients and keys stay numbered within the bounds
\* (configure_integration, close_integration_client).
THEOREM TypeCorrect == ASSUME NothingIsNone, BoundsAreNumbers PROVE Spec => []TypeOK
<1>1. Init => IInv /\ WithinBounds
  BY InitInv, BoundsInit
<1>2. IInv /\ WithinBounds /\ [Next]_connectionVars => (IInv /\ WithinBounds)'
  BY NextInv, BoundsKept DEF IInv
<1>3. IInv /\ WithinBounds => TypeOK
  BY BoundedTyped DEF IInv
<1> QED
  BY <1>1, <1>2, <1>3, PTL DEF Spec
=============================================================================
