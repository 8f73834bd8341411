------------------------------ MODULE MCServices ------------------------------
(* Instances of module Services for TLC.                                    *)
EXTENDS Services, TLC

CONSTANTS anthropic, ollama, bad

\* The provider the chain tries first, and the local one it ends with.
MC_Order == <<anthropic, ollama>>

\* Two repositories that share the directory name, and a url whose name is refused.
MC_NameOf == [u \in Urls |-> IF u = bad THEN "bad" ELSE "api"]

\* Two manifests of a name in two directories, a tool named like a plugin, an unsound manifest.
MC_Manifests ==
    {[name |-> "p", dir |-> 1, tools |-> {"t"}, sound |-> TRUE],
     [name |-> "p", dir |-> 2, tools |-> {"p"}, sound |-> TRUE],
     [name |-> "q", dir |-> 1, tools |-> {"p", "t"}, sound |-> TRUE],
     [name |-> "q", dir |-> 2, tools |-> {}, sound |-> FALSE]}

\* The concurrent tasks of the server (requests, chats, calls, runs, workers) are the same
\* two values, and so are the two things they work on: no module chooses among them.
ServicesSymmetry == Permutations(Requests) \cup Permutations(Repos)
=============================================================================
