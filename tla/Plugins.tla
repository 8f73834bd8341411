------------------------------- MODULE Plugins -------------------------------
(***************************************************************************)
(* The plugin registry of one API process (plugins/manager.py), the        *)
(* manifests found on disk (plugins/manifest.py), installation from the    *)
(* marketplace (plugins/marketplace.py) and the administrator's requests   *)
(* (api/plugins.py).  The handlers never await between their steps, so     *)
(* each is one action; nothing is loaded at start-up.                      *)
(***************************************************************************)
EXTENDS Naturals, FiniteSets

CONSTANTS
    Manifests,  \* the manifests that may be on disk: [name, dir, tools, sound]
    NoPlugin    \* stands for a name the registry does not hold

VARIABLES
    onDisk,     \* the manifests present in the plugin directories
    importable, \* the manifests whose dependencies can be imported
    registry,   \* name -> [manifest, status], or NoPlugin
    off         \* history: the plugins switched off and not loaded again

pluginVars == <<onDisk, importable, registry, off>>

PluginNames == {m.name : m \in Manifests}
Status == {"validated", "registered", "active", "error", "disabled"}
Instances(n) == [manifest : {m \in Manifests : m.name = n}, status : Status]

Init ==
    /\ onDisk \in SUBSET Manifests /\ importable \in SUBSET Manifests
    /\ registry = [n \in PluginNames |-> NoPlugin]
    /\ off = {}

\* A manifest without name, version or extension point is passed over with a warning.
Validated(m) == m.sound
Discovered(dirs) == {m \in onDisk : Validated(m) /\ m.dir \in dirs}

(***************************************************************************)
(* load_plugin: registering replaces the instance of that name; a missing  *)
(* dependency leaves it in error.  The initialisation only repeats the     *)
(* tools the manifest names.                                               *)
(***************************************************************************)
Loaded(m) == [manifest |-> m, status |-> IF m \in importable THEN "active" ELSE "error"]

\* Of several manifests of a name, the one in the directory searched last stays.
LoadAll ==
    /\ \E chosen \in SUBSET Discovered({1, 2}) :
          /\ \A m \in Discovered({1, 2}) :
                \E c \in chosen : c.name = m.name /\ c.dir >= m.dir
          /\ \A c, d \in chosen : c.name = d.name => c = d
          /\ registry' = [n \in PluginNames |->
                IF \E c \in chosen : c.name = n
                THEN Loaded(CHOOSE c \in chosen : c.name = n) ELSE registry[n]]
          /\ off' = off \ {c.name : c \in chosen}
    /\ UNCHANGED <<onDisk, importable>>

(***************************************************************************)
(* unload_plugin: shutting down deletes the registry entries that have the *)
(* NAME of one of the plugin's tools, then the instance turns disabled     *)
(* whether or not it is still in the registry.                             *)
(***************************************************************************)
UnloadedNoStatus(n) ==
    [p \in PluginNames |->
        IF p \in registry[n].manifest.tools THEN NoPlugin ELSE registry[p]]

Unloaded(n) ==
    [p \in PluginNames |->
        IF p \in registry[n].manifest.tools THEN NoPlugin
        ELSE IF p = n THEN [registry[p] EXCEPT !.status = "disabled"]
        ELSE registry[p]]

Disable ==
    /\ \E n \in PluginNames :
          /\ registry[n] # NoPlugin
          /\ registry' = Unloaded(n)
          /\ off' = off \cup {n}
    /\ UNCHANGED <<onDisk, importable>>

\* A plugin that removed itself on the way is answered 404 and stays away.
Reload ==
    /\ \E n \in PluginNames :
          /\ registry[n] # NoPlugin
          /\ IF Unloaded(n)[n] = NoPlugin
             THEN registry' = Unloaded(n) /\ off' = off \cup {n}
             ELSE /\ registry' = [Unloaded(n) EXCEPT ![n] = Loaded(registry[n].manifest)]
                  /\ off' = off \ {n}
    /\ UNCHANGED <<onDisk, importable>>

(***************************************************************************)
(* Installing: pip puts a package's manifests and dependencies in place;   *)
(* then the first manifest of the default directory that matches the       *)
(* package is loaded, if one does.                                         *)
(***************************************************************************)
Install ==
    /\ \E m \in Manifests :
          /\ onDisk' = onDisk \cup {m}
          /\ importable' = importable \cup {m}
          /\ IF Validated(m) /\ m.dir = 1
             THEN /\ registry' = [registry EXCEPT ![m.name] = [manifest |-> m, status |-> "active"]]
                  /\ off' = off \ {m.name}
             ELSE UNCHANGED <<registry, off>>

RestartApi ==
    /\ registry' = [n \in PluginNames |-> NoPlugin] /\ off' = {}
    /\ UNCHANGED <<onDisk, importable>>

Next == LoadAll \/ Disable \/ Reload \/ Install \/ RestartApi

Spec == Init /\ [][Next]_pluginVars

(***************************************************************************)
(* get_tools: a tool name is one active plugin's, whichever comes last.    *)
(***************************************************************************)
Offers(n) ==
    IF registry[n] # NoPlugin /\ registry[n].status = "active"
    THEN registry[n].manifest.tools ELSE {}

TypeOK ==
    /\ onDisk \subseteq Manifests /\ importable \subseteq Manifests /\ off \subseteq PluginNames
    /\ \A n \in PluginNames : registry[n] = NoPlugin
          \/ registry[n] \in Instances(n)

(***************************************************************************)
(* A plugin that was switched off offers no tool until somebody loads it   *)
(* again, whatever else is disabled, reloaded or installed meanwhile, and  *)
(* a tool is only offered from a sound manifest whose dependencies could   *)
(* be imported (unload_plugin, get_tools).                                 *)
(***************************************************************************)
OffOffersNothing ==
    /\ \A n \in off : Offers(n) = {}
    /\ \A n \in PluginNames : Offers(n) # {} =>
          registry[n].manifest.sound /\ registry[n].manifest \in importable
=============================================================================
