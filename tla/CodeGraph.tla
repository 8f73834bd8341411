------------------------------ MODULE CodeGraph ------------------------------
(***************************************************************************)
(* Functions and calls in the knowledge graph of one repository: the graph *)
(* stage parses file after file and merges what it finds                   *)
(* (pipeline.py, _build_graph_sync), and the agent's tools ask who calls   *)
(* what (knowledge/graph.py).  Nodes of functions that left the code are   *)
(* never removed; a call whose target nobody has merged yet makes a        *)
(* placeholder of that name without a file.  The target is kept as it is   *)
(* written, 'foo' or 'self.foo', while a definition is named 'foo'.        *)
(***************************************************************************)
EXTENDS Naturals, FiniteSets

CONSTANTS
    Files,
    Names,       \* function names; two files may define the same one
    NoFile,      \* the file of a placeholder
    Limit,       \* LIMIT of the queries, 50 in the code
    MaxVersions  \* bound: rewrites of files

VARIABLES
    code,     \* file -> [defs, calls]: its functions, and <<caller, text of the target>> pairs
    fns,      \* Function nodes: [file, name]
    edges,    \* CALLS edges between nodes
    todo,     \* the files the running build has still to merge, in no order we know
    built,    \* history: the source the last complete build merged, of files unchanged since
    ever,     \* history: every call that was ever in the code: [file, caller, target]
    versions

codeVars == <<code, fns, edges, todo, built, ever, versions>>

(***************************************************************************)
(* _extract_call: the target is the text of the called expression, cut at  *)
(* 100 characters.  Not bare is what names the function otherwise than by  *)
(* its name: 'self.foo', 'module.foo', or a text that was cut.  A call     *)
(* outside a function has no caller node and comes to nothing.             *)
(***************************************************************************)
Texts == [of : Names, bare : BOOLEAN]
Bare(n) == [of |-> n, bare |-> TRUE]

Nodes == [file : Files \cup {NoFile}, name : Texts]
FileContents == {s \in [defs : SUBSET Names, calls : SUBSET (Names \X Texts)] :
                \A c \in s.calls : c[1] \in s.defs}
Calls(f, s) == {[file |-> f, caller |-> Bare(c[1]), target |-> c[2]] : c \in s.calls}
Small == {s \in FileContents : Cardinality(s.defs) <= 1 /\ Cardinality(s.calls) <= 1}  \* bound: a function, a call a file
NoSource == [defs |-> {}, calls |-> {}]

Init ==
    /\ code \in [Files -> Small]
    /\ fns = {} /\ edges = {} /\ todo = {} /\ versions = 0
    /\ built = [f \in Files |-> NoSource]
    /\ ever = UNION {Calls(f, code[f]) : f \in Files}

Edit ==
    /\ versions < MaxVersions /\ versions' = versions + 1
    /\ \E f \in Files, s \in Small :
          /\ code' = [code EXCEPT ![f] = s]
          /\ ever' = ever \cup Calls(f, s)
          /\ built' = [built EXCEPT ![f] = NoSource]
    /\ UNCHANGED <<fns, edges, todo>>

Begin ==
    /\ todo = {} /\ todo' = Files
    /\ UNCHANGED <<code, fns, edges, built, ever, versions>>

Node(f, t) == [file |-> f, name |-> t]
Named(t, set) == {x \in set : x.name = t}

\* MATCH in the place of MERGE: a call is only written when its callee is there.
MergeFileMatching(f) ==
    LET defined == fns \cup {Node(f, Bare(n)) : n \in code[f].defs}
    IN /\ f \in todo /\ todo' = todo \ {f}
       /\ fns' = defined
       /\ edges' = edges \cup UNION {{<<Node(f, Bare(c[1])), x>> : x \in Named(c[2], defined)} : c \in code[f].calls}
       /\ built' = [built EXCEPT ![f] = code[f]]
       /\ UNCHANGED <<code, ever, versions>>

(***************************************************************************)
(* The functions of a file are merged before its calls.  MERGE of the      *)
(* callee takes every node of that name, or makes one.                     *)
(***************************************************************************)
MergeFile(f) ==
    LET defined == fns \cup {Node(f, Bare(n)) : n \in code[f].defs}
        missing == {c[2] : c \in {d \in code[f].calls : Named(d[2], defined) = {}}}
    IN /\ f \in todo /\ todo' = todo \ {f}
       /\ fns' = defined \cup {Node(NoFile, t) : t \in missing}
       /\ edges' = edges \cup UNION {{<<Node(f, Bare(c[1])), x>> : x \in Named(c[2], fns')} : c \in code[f].calls}
       /\ built' = [built EXCEPT ![f] = code[f]]
       /\ UNCHANGED <<code, ever, versions>>

\* A batch Neo4j did not take is logged and left out; it may hold a file's calls only.
LoseFile(f) ==
    /\ f \in todo /\ todo' = todo \ {f}
    /\ fns' \in {fns, fns \cup {Node(f, Bare(n)) : n \in code[f].defs}}
    /\ UNCHANGED <<code, edges, built, ever, versions>>

\* delete_repo takes every node of the repository, a build under way or not.
DeleteRepo ==
    /\ fns' = {} /\ edges' = {}
    /\ built' = [f \in Files |-> NoSource]
    /\ UNCHANGED <<code, todo, ever, versions>>

Next ==
    \/ \E f \in Files : MergeFile(f) \/ LoseFile(f)
    \/ Edit \/ Begin \/ DeleteRepo

Spec == Init /\ [][Next]_codeVars

(***************************************************************************)
(* What the tools answer: a row an edge, so a caller has as many as there  *)
(* are nodes of the callee's name; and of more rows than the limit, some,  *)
(* in no order we know.                                                    *)
(***************************************************************************)
Limited(rows) ==
    IF Cardinality(rows) <= Limit THEN {rows} ELSE {s \in SUBSET rows : Cardinality(s) = Limit}
Into(t) == {e \in edges : e[2].name = t}
OutOf(t) == {e \in edges : e[1].name = t}
FindDependents(t) == {{e[1] : e \in rows} : rows \in Limited(Into(t))}
FindDependencies(t) == {{e[2] : e \in rows} : rows \in Limited(OutOf(t))}
FunctionCount(f) == Cardinality({x \in fns : x.file = f})

TypeOK ==
    /\ code \in [Files -> FileContents] /\ built \in [Files -> FileContents]
    /\ fns \subseteq Nodes /\ edges \subseteq fns \X fns
    /\ todo \subseteq Files /\ versions \in 0 .. MaxVersions
    /\ ever \subseteq [file : Files, caller : Texts, target : Texts]

(***************************************************************************)
(* In whatever order a build comes across the files, and although a call   *)
(* may be merged before the function it calls: a call of a file merged and *)
(* not edited since is in every answer to a question for its target, as    *)
(* the target is written, and for its caller, unless more edges than the   *)
(* limit compete for the rows; and however many do, nothing is reported    *)
(* that was never in the code.  Who asks for 'foo' is not told of those    *)
(* that call 'self.foo' (_build_graph_sync, find_dependents,               *)
(* find_dependencies).                                                     *)
(***************************************************************************)
CallsFound ==
    /\ \A f \in Files : \A c \in built[f].calls :
          /\ Cardinality(Into(c[2])) <= Limit =>
                \A answer \in FindDependents(c[2]) : Node(f, Bare(c[1])) \in answer
          /\ Cardinality(OutOf(Bare(c[1]))) <= Limit =>
                \A answer \in FindDependencies(Bare(c[1])) : \E x \in answer : x.name = c[2]
    /\ \A t \in Texts : \A answer \in FindDependents(t) : \A x \in answer :
          [file |-> x.file, caller |-> x.name, target |-> t] \in ever
    /\ \A f \in Files : FunctionCount(f) >= Cardinality(built[f].defs)
=============================================================================
