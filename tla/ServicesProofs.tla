----------------------------- MODULE ServicesProofs -----------------------------
(***************************************************************************)
(* Safety of the services side by side.  A step of the service in focus is *)
(* a step of its module and a stutter of every other, so that what is      *)
(* proved of the connections and of the clone alone holds here too.        *)
(***************************************************************************)
EXTENDS Services, AgentStateProofs, FiniteSetTheorems, TLAPS

ConP == INSTANCE ConnectionsProofs WITH
            request <- setupRequest, saved <- savedCredentials, Providers <- Integrations
WspP == INSTANCE WorkspaceProofs WITH
            off <- capsOff, call <- toolCall, edits <- fileEdits

-----------------------------------------------------------------------------
(* Uploaded files.                                                           *)

LEMMA UploadsStep == [Next]_vars => [Upl!Next]_uploadVars
  BY DEF Next, Held, vars

\* A row names a file that was handed out, and unless its deletion was asked for, one
\* on the disk.
RowsBacked ==
    \A f \in Files : rows[f] # Nothing => f \in named /\ f \in disk \cup unwanted

\* An upload past its write has its file, and only files asked to be deleted are removed.
CallsBacked ==
    \A q \in Requests :
        /\ uploadCall[q].op = "upload" => uploadCall[q].file \in disk \cup unwanted
        /\ uploadCall[q].op \in {"remove", "drop"} => uploadCall[q].file \in unwanted

UploadsInv == Upl!TypeOK /\ RowsBacked /\ CallsBacked

LEMMA UploadsInit == Init => UploadsInv
  BY DEF Init, Upl!Init, UploadsInv, Upl!TypeOK, Upl!UploadRows, RowsBacked, CallsBacked, Upl!Idle

\* What the type says of a request that is not idle.
LEMMA CallTyped ==
  ASSUME UploadsInv, NEW q \in Requests, uploadCall[q].op # "idle"
  PROVE  uploadCall[q] \in [op : {"upload", "remove", "drop"}, file : named, owner : Owners]
  BY DEF UploadsInv, Upl!TypeOK, Upl!UploadRows, Upl!Idle

LEMMA WriteFileKept == ASSUME UploadsInv, NEW q \in Requests, Upl!WriteFile(q) PROVE UploadsInv'
<1>1. PICK f \in Files \ named, o \in Owners :
        /\ named' = named \cup {f}
        /\ disk' = disk \cup {f}
        /\ uploadCall' = [uploadCall EXCEPT ![q] = [op |-> "upload", file |-> f, owner |-> o]]
  BY DEF Upl!WriteFile
<1>2. Upl!TypeOK'
  BY <1>1 DEF UploadsInv, Upl!TypeOK, Upl!UploadRows, Upl!WriteFile, Upl!Idle
<1>3. RowsBacked'
  BY <1>1 DEF UploadsInv, RowsBacked, Upl!WriteFile
<1>4. CallsBacked'
  BY <1>1 DEF UploadsInv, CallsBacked, Upl!TypeOK, Upl!UploadRows, Upl!WriteFile, Upl!Idle
<1> QED
  BY <1>2, <1>3, <1>4 DEF UploadsInv

LEMMA CommitRowKept == ASSUME UploadsInv, NEW q \in Requests, Upl!CommitRow(q) PROVE UploadsInv'
<1>1. uploadCall[q] \in [op : {"upload", "remove", "drop"}, file : named, owner : Owners]
  BY CallTyped DEF Upl!CommitRow
<1>2. /\ rows' = rows \/ rows' = [rows EXCEPT ![uploadCall[q].file] = uploadCall[q].owner]
      /\ uploadCall' = [uploadCall EXCEPT ![q] = Upl!Idle]
      /\ UNCHANGED <<disk, named, unwanted>>
  BY DEF Upl!CommitRow
<1>3. Upl!TypeOK'
  BY <1>1, <1>2 DEF UploadsInv, Upl!TypeOK, Upl!UploadRows, Upl!Idle
<1>4. RowsBacked'
  BY <1>1, <1>2 DEF UploadsInv, RowsBacked, CallsBacked, Upl!TypeOK, Upl!UploadRows
<1>5. CallsBacked'
  BY <1>2 DEF UploadsInv, CallsBacked, Upl!TypeOK, Upl!UploadRows, Upl!Idle
<1> QED
  BY <1>3, <1>4, <1>5 DEF UploadsInv

LEMMA FindOwnedKept ==
  ASSUME UploadsInv, NEW q \in Requests, Upl!FindOwned(q)
  PROVE  UploadsInv'
<1> USE OwnerAssumption
<1>1. PICK f \in Files, o \in Owners :
        /\ rows[f] = o
        /\ uploadCall' = [uploadCall EXCEPT ![q] = [op |-> "remove", file |-> f, owner |-> o]]
        /\ unwanted' = unwanted \cup {f}
        /\ UNCHANGED <<disk, rows, named>>
  BY DEF Upl!FindOwned
<1>2. f \in named
  BY <1>1 DEF UploadsInv, RowsBacked
<1>3. Upl!TypeOK'
  BY <1>1, <1>2 DEF UploadsInv, Upl!TypeOK, Upl!UploadRows, Upl!Idle
<1>4. RowsBacked'
  BY <1>1 DEF UploadsInv, RowsBacked
<1>5. CallsBacked'
  BY <1>1 DEF UploadsInv, CallsBacked, Upl!TypeOK, Upl!UploadRows, Upl!Idle
<1> QED
  BY <1>3, <1>4, <1>5 DEF UploadsInv

LEMMA RemoveFileKept == ASSUME UploadsInv, NEW q \in Requests, Upl!RemoveFile(q) PROVE UploadsInv'
<1>1. uploadCall[q] \in [op : {"upload", "remove", "drop"}, file : named, owner : Owners]
  BY CallTyped DEF Upl!RemoveFile
<1>2. uploadCall[q].file \in unwanted
  BY DEF UploadsInv, CallsBacked, Upl!RemoveFile
<1>3. /\ disk' = disk \/ disk' = disk \ {uploadCall[q].file}
      /\ uploadCall' = [uploadCall EXCEPT ![q].op = "drop"]
      /\ UNCHANGED <<rows, named, unwanted>>
  BY DEF Upl!RemoveFile
<1>4. Upl!TypeOK'
  BY <1>1, <1>3 DEF UploadsInv, Upl!TypeOK, Upl!UploadRows, Upl!Idle
<1>5. RowsBacked'
  BY <1>2, <1>3 DEF UploadsInv, RowsBacked
<1>6. CallsBacked'
  BY <1>1, <1>2, <1>3 DEF UploadsInv, CallsBacked, Upl!TypeOK, Upl!UploadRows, Upl!Idle
<1> QED
  BY <1>4, <1>5, <1>6 DEF UploadsInv

LEMMA DropRowKept == ASSUME UploadsInv, NEW q \in Requests, Upl!DropRow(q) PROVE UploadsInv'
<1>1. uploadCall[q] \in [op : {"upload", "remove", "drop"}, file : named, owner : Owners]
  BY CallTyped DEF Upl!DropRow
<1>2. /\ rows' = rows \/ rows' = [rows EXCEPT ![uploadCall[q].file] = Nothing]
      /\ uploadCall' = [uploadCall EXCEPT ![q] = Upl!Idle]
      /\ UNCHANGED <<disk, named, unwanted>>
  BY DEF Upl!DropRow
<1>3. Upl!TypeOK'
  BY <1>1, <1>2 DEF UploadsInv, Upl!TypeOK, Upl!UploadRows, Upl!Idle
<1>4. RowsBacked'
  BY <1>1, <1>2 DEF UploadsInv, RowsBacked, Upl!TypeOK, Upl!UploadRows
<1>5. CallsBacked'
  BY <1>2 DEF UploadsInv, CallsBacked, Upl!TypeOK, Upl!UploadRows, Upl!Idle
<1> QED
  BY <1>3, <1>4, <1>5 DEF UploadsInv

LEMMA RestartKept == ASSUME UploadsInv, Upl!RestartApi PROVE UploadsInv'
  BY DEF UploadsInv, Upl!TypeOK, Upl!UploadRows, RowsBacked, CallsBacked, Upl!RestartApi, Upl!Idle

LEMMA UploadsKept ==
  ASSUME UploadsInv, [Upl!Next]_uploadVars
  PROVE  UploadsInv'
<1>1. ASSUME NEW q \in Requests, Upl!WriteFile(q) PROVE UploadsInv'
  BY <1>1, WriteFileKept
<1>2. ASSUME NEW q \in Requests, Upl!CommitRow(q) PROVE UploadsInv'
  BY <1>2, CommitRowKept
<1>3. ASSUME NEW q \in Requests, Upl!FindOwned(q) PROVE UploadsInv'
  BY <1>3, FindOwnedKept
<1>4. ASSUME NEW q \in Requests, Upl!RemoveFile(q) PROVE UploadsInv'
  BY <1>4, RemoveFileKept
<1>5. ASSUME NEW q \in Requests, Upl!DropRow(q) PROVE UploadsInv'
  BY <1>5, DropRowKept
<1>6. CASE Upl!RestartApi
  BY <1>6, RestartKept
<1>7. CASE UNCHANGED uploadVars
  BY <1>7 DEF UploadsInv, Upl!TypeOK, Upl!UploadRows, RowsBacked, CallsBacked, uploadVars
<1> QED
  BY <1>1, <1>2, <1>3, <1>4, <1>5, <1>6, <1>7 DEF Upl!Next

LEMMA UploadsReadable == ASSUME UploadsInv PROVE Upl!ListedIsReadable
<1> SUFFICES ASSUME NEW f \in Files, NEW o \in Owners, rows[f] = o, f \notin unwanted
             PROVE  Upl!Download(o, f) = "bytes" /\ "could not be read" \notin Upl!AttachedText(o, f)
  BY DEF Upl!ListedIsReadable
<1>1. f \in disk
  BY OwnerAssumption DEF UploadsInv, RowsBacked
<1> QED
  BY <1>1 DEF Upl!Download, Upl!AttachedText

\* A file its owner is shown stays readable until its deletion is asked for, whatever
\* uploads, deletions, failed commits, failed removals and restarts overlap
\* (upload_file, delete_upload).
THEOREM ServicesListedIsReadable == Spec => []ListedIsReadable
<1>1. UploadsInv => ListedIsReadable
  BY UploadsReadable DEF ListedIsReadable
<1> QED
  BY <1>1, UploadsInit, UploadsStep, UploadsKept, PTL DEF Spec

-----------------------------------------------------------------------------
LEMMA ConnectionsInit == Init => ConP!Init
  BY DEF Init, Con!Init, ConP!Init, Con!Idle, ConP!Idle

LEMMA ConnectionsStep == [Next]_vars => [ConP!Next]_(ConP!connectionVars)
<1>1. CASE focus = "connections" /\ Con!Next
  <2>1. Con!Next <=> ConP!Next
    BY DEF Con!Next, ConP!Next, Con!LookUp, ConP!LookUp, Con!CommitRow, ConP!CommitRow,
           Con!Register, ConP!Register, Con!Replace, ConP!Replace, Con!BeginUse, ConP!BeginUse,
           Con!EndUse, ConP!EndUse, Con!Close, ConP!Close, Con!Remove, ConP!Remove,
           Con!RegisterFails, ConP!RegisterFails, Con!Used, ConP!Used,
           Con!RestartApi, ConP!RestartApi, Con!Idle, ConP!Idle, Con!Configuring, ConP!Configuring
  <2> QED
    BY <1>1, <2>1
<1>2. CASE UNCHANGED connectionVars
  BY <1>2 DEF connectionVars, ConP!connectionVars
<1> QED
  BY <1>1, <1>2 DEF Next, Held, vars

\* The client of an integration that is handed out is open and of saved credentials, filled
\* from the environment, whatever overlaps, fails and restarts (configure_integration): of
\* the services side by side.
THEOREM ServicesClientTrustworthy == Spec => []ClientTrustworthy
<1>1. ConP!ClientTrustworthy => ClientTrustworthy
  BY DEF ClientTrustworthy, Con!ClientTrustworthy, ConP!ClientTrustworthy,
         Con!Configuring, ConP!Configuring, Con!Answer, ConP!Answer,
         Con!RepoListSource, ConP!RepoListSource, Con!Used, ConP!Used, Con!Decrypts, ConP!Decrypts
<1>2. ConP!NothingIsNone
  BY ClientAssumption DEF ConP!NothingIsNone, ConP!AllClients, ConP!AllRows
<1>3. ConP!Spec => []ConP!ClientTrustworthy
  BY <1>2, ConP!ClientsAreTrustworthy
<1> QED
  BY ConnectionsInit, ConnectionsStep, <1>1, <1>3, PTL DEF Spec, ConP!Spec

LEMMA WorkspaceInit == Init => WspP!Init
  BY DEF Init, Wsp!Init, WspP!Init, Wsp!Idle, WspP!Idle

LEMMA WorkspaceStep == [Next]_vars => [WspP!Next]_(WspP!workspaceVars)
<1>1. CASE focus = "workspace" /\ Wsp!Next
  <2>1. ASSUME NEW c \in Threads
        PROVE  /\ Wsp!Check(c) <=> WspP!Check(c)
               /\ Wsp!CheckDirect(c) <=> WspP!CheckDirect(c)
               /\ Wsp!Raise(c) <=> WspP!Raise(c)
               /\ Wsp!EndWithoutBranch(c) <=> WspP!EndWithoutBranch(c)
               /\ Wsp!WriteFile(c) <=> WspP!WriteFile(c)
               /\ Wsp!ReadForEdit(c) <=> WspP!ReadForEdit(c)
               /\ Wsp!WriteEdited(c) <=> WspP!WriteEdited(c)
               /\ Wsp!RunCommand(c) <=> WspP!RunCommand(c)
               /\ Wsp!EndCommand(c) <=> WspP!EndCommand(c)
    <3>1. \A t, u : Wsp!Execute(c, t, u) <=> WspP!Execute(c, t, u)
      BY DEF Wsp!Execute, WspP!Execute, Wsp!Begin, WspP!Begin, Wsp!Gate, WspP!Gate, Wsp!Ungated,
             WspP!Ungated, Wsp!Meant, WspP!Meant, Wsp!clone, WspP!clone
    <3>2. Wsp!Tools = WspP!Tools /\ Wsp!Changing = WspP!Changing
      BY DEF Wsp!Tools, WspP!Tools, Wsp!FileTools, WspP!FileTools, Wsp!GitTools, WspP!GitTools,
             Wsp!KnowledgeTools, WspP!KnowledgeTools, Wsp!AgentTools, WspP!AgentTools,
             Wsp!Changing, WspP!Changing
    <3>3. (Wsp!Check(c) <=> WspP!Check(c)) /\ (Wsp!CheckDirect(c) <=> WspP!CheckDirect(c))
      BY <3>1, <3>2 DEF Wsp!Check, WspP!Check, Wsp!CheckDirect, WspP!CheckDirect, Wsp!Idle, WspP!Idle,
             Wsp!RequiresConfirmation, WspP!RequiresConfirmation
    <3>4. /\ Wsp!Raise(c) <=> WspP!Raise(c)
          /\ Wsp!EndWithoutBranch(c) <=> WspP!EndWithoutBranch(c)
          /\ Wsp!RunCommand(c) <=> WspP!RunCommand(c)
          /\ Wsp!EndCommand(c) <=> WspP!EndCommand(c)
      BY DEF Wsp!Raise, WspP!Raise, Wsp!EndWithoutBranch, WspP!EndWithoutBranch, Wsp!BranchTools,
             WspP!BranchTools, Wsp!RunCommand, WspP!RunCommand, Wsp!EndCommand, WspP!EndCommand,
             Wsp!At, WspP!At, Wsp!Return, WspP!Return, Wsp!Idle, WspP!Idle, Wsp!clone, WspP!clone
    <3>5. /\ Wsp!WriteFile(c) <=> WspP!WriteFile(c)
          /\ Wsp!ReadForEdit(c) <=> WspP!ReadForEdit(c)
          /\ Wsp!WriteEdited(c) <=> WspP!WriteEdited(c)
      BY DEF Wsp!WriteFile, WspP!WriteFile, Wsp!ReadForEdit, WspP!ReadForEdit, Wsp!WriteEdited,
             WspP!WriteEdited, Wsp!NewEdit, WspP!NewEdit, Wsp!At, WspP!At, Wsp!Return, WspP!Return,
             Wsp!Idle, WspP!Idle, Wsp!clone, WspP!clone
    <3> QED
      BY <3>3, <3>4, <3>5
  <2>2. /\ Wsp!Switch <=> WspP!Switch
        /\ Wsp!Pull <=> WspP!Pull
        /\ Wsp!OrphanEnds <=> WspP!OrphanEnds
        /\ Wsp!Command <=> WspP!Command
    BY DEF Wsp!Switch, WspP!Switch, Wsp!Powers, WspP!Powers, Wsp!Pull, WspP!Pull, Wsp!OrphanEnds,
           WspP!OrphanEnds, Wsp!Command, WspP!Command, Wsp!At, WspP!At, Wsp!NewEdit, WspP!NewEdit,
           Wsp!clone, WspP!clone
  <2>3. Wsp!Next <=> WspP!Next
    BY <2>1, <2>2 DEF Wsp!Next, WspP!Next
  <2> QED
    BY <1>1, <2>3
<1>2. CASE UNCHANGED workspaceVars
  BY <1>2 DEF workspaceVars, WspP!workspaceVars
<1> QED
  BY <1>1, <1>2 DEF Next, Held, vars

\* Nothing in the clone changes but by a pull, by the file of a granted call, or while a
\* command runs that was granted execute or was left running by such a one (execute_tool,
\* _dispatch_legacy): of the services side by side.
THEOREM ServicesCloneInGoodHands == Spec => CloneInGoodHands
<1>1. WspP!Spec => WspP!CloneInGoodHands
  BY WspP!CloneStaysInGoodHands
<1>2. [WspP!StepInGoodHands]_(WspP!workspaceVars) => [Wsp!StepInGoodHands]_(Wsp!workspaceVars)
  BY DEF Wsp!StepInGoodHands, WspP!StepInGoodHands, Wsp!clone, WspP!clone, Wsp!ByPoller, WspP!ByPoller,
         Wsp!ByFileTool, WspP!ByFileTool, Wsp!Commanding, WspP!Commanding, Wsp!Granted, WspP!Granted,
         Wsp!At, WspP!At, Wsp!Meant, WspP!Meant, Wsp!Idle, WspP!Idle,
         Wsp!workspaceVars, WspP!workspaceVars
<1> QED
  BY WorkspaceInit, WorkspaceStep, <1>1, <1>2, PTL
  DEF Spec, WspP!Spec, CloneInGoodHands, Wsp!CloneInGoodHands, WspP!CloneInGoodHands

-----------------------------------------------------------------------------
(* Plugins.                                                                  *)

LEMMA PluginsStep == [Next]_vars => [Plu!Next]_pluginVars
  BY DEF Next, Held, vars

\* What the registry holds, it holds of a sound manifest; an active plugin is importable
\* and was not switched off since it was loaded.
Honest(n, p, imported, unloaded) ==
    p # Nothing =>
      /\ p \in [manifest : Manifests, status : Plu!Status]
      /\ p.manifest.sound
      /\ p.status = "active" => p.manifest \in imported /\ n \notin unloaded

RegistryHonest ==
    /\ onDisk \subseteq Manifests
    /\ registry = [n \in Plu!PluginNames |-> registry[n]]
    /\ \A n \in Plu!PluginNames : Honest(n, registry[n], importable, pluginsOff)

LEMMA LoadedHonest ==
    ASSUME NEW m \in Manifests, m.sound, NEW off, m.name \notin off
    PROVE  Honest(m.name, Plu!Loaded(m), importable, off)
    BY DEF Honest, Plu!Loaded, Plu!Status

LEMMA DisabledHonest ==
    ASSUME NEW n, NEW p, NEW i, NEW off, Honest(n, p, i, off), p # Nothing, NEW later
    PROVE  Honest(n, [p EXCEPT !.status = "disabled"], i, later)
    BY DEF Honest, Plu!Status

\* Unloading a plugin disables it, or takes it off the registry with others.
LEMMA UnloadedHonest ==
    ASSUME RegistryHonest, NEW n \in Plu!PluginNames, registry[n] # Nothing
    PROVE  \A p \in Plu!PluginNames :
             Honest(p, Plu!Unloaded(n)[p], importable, pluginsOff \cup {n})
<1> TAKE p \in Plu!PluginNames
<1>1. CASE p \in registry[n].manifest.tools
  <2>1. Plu!Unloaded(n)[p] = Nothing
    BY <1>1 DEF Plu!Unloaded
  <2> QED
    BY <2>1 DEF Honest
<1>2. CASE p \notin registry[n].manifest.tools /\ p = n
  <2>1. Plu!Unloaded(n)[p] = [registry[p] EXCEPT !.status = "disabled"]
    BY <1>2 DEF Plu!Unloaded
  <2> QED
    BY <1>2, <2>1, DisabledHonest DEF RegistryHonest
<1>3. CASE p \notin registry[n].manifest.tools /\ p # n
  <2>1. Plu!Unloaded(n)[p] = registry[p]
    BY <1>3 DEF Plu!Unloaded
  <2> QED
    BY <1>3, <2>1 DEF RegistryHonest, Honest
<1> QED
  BY <1>1, <1>2, <1>3

LEMMA PluginsInit == Init => RegistryHonest
  BY DEF Init, Plu!Init, RegistryHonest, Honest

LEMMA LoadAllHonest == RegistryHonest /\ Plu!LoadAll => RegistryHonest'
<1> SUFFICES ASSUME RegistryHonest, Plu!LoadAll PROVE RegistryHonest'
  OBVIOUS
<1>1. PICK chosen \in SUBSET Plu!Discovered({1, 2}) :
        /\ registry' = [n \in Plu!PluginNames |->
              IF \E c \in chosen : c.name = n
              THEN Plu!Loaded(CHOOSE c \in chosen : c.name = n) ELSE registry[n]]
        /\ pluginsOff' = pluginsOff \ {c.name : c \in chosen}
  BY DEF Plu!LoadAll
<1>2. UNCHANGED <<onDisk, importable>>
  BY DEF Plu!LoadAll
<1>3. \A c \in chosen : c \in Manifests /\ c.sound
  BY DEF Plu!Discovered, Plu!Validated, RegistryHonest
<1>4. ASSUME NEW n \in Plu!PluginNames
      PROVE  Honest(n, registry'[n], importable, pluginsOff')
  <2>1. CASE \E c \in chosen : c.name = n
    <3>1. PICK c \in chosen : c = (CHOOSE d \in chosen : d.name = n) /\ c.name = n
      BY <2>1
    <3>2. registry'[n] = Plu!Loaded(c) /\ n \notin pluginsOff'
      BY <1>1, <2>1, <3>1
    <3> QED
      BY <1>3, <3>1, <3>2, LoadedHonest
  <2>2. CASE ~ \E c \in chosen : c.name = n
    <3>1. registry'[n] = registry[n] /\ Honest(n, registry[n], importable, pluginsOff)
      BY <1>1, <2>2 DEF RegistryHonest
    <3> QED
      BY <1>1, <3>1 DEF Honest
  <2> QED
    BY <2>1, <2>2
<1>5. registry' = [n \in Plu!PluginNames |-> registry'[n]]
  BY <1>1
<1> QED
  BY <1>2, <1>4, <1>5 DEF RegistryHonest

LEMMA PluginsHonest == RegistryHonest /\ [Plu!Next]_pluginVars => RegistryHonest'
<1> SUFFICES ASSUME RegistryHonest, [Plu!Next]_pluginVars PROVE RegistryHonest'
  OBVIOUS
<1>1. CASE Plu!LoadAll
  BY <1>1, LoadAllHonest
<1>2. CASE Plu!Disable
  <2>1. PICK n \in Plu!PluginNames :
          /\ registry[n] # Nothing /\ registry' = Plu!Unloaded(n)
          /\ pluginsOff' = pluginsOff \cup {n}
    BY <1>2 DEF Plu!Disable
  <2>2. registry' = [p \in Plu!PluginNames |-> registry'[p]]
    BY <2>1 DEF Plu!Unloaded
  <2> QED
    BY <1>2, <2>1, <2>2, UnloadedHonest DEF Plu!Disable, RegistryHonest
<1>3. CASE Plu!Reload
  <2>1. PICK n \in Plu!PluginNames :
          /\ registry[n] # Nothing
          /\ IF Plu!Unloaded(n)[n] = Nothing
             THEN registry' = Plu!Unloaded(n) /\ pluginsOff' = pluginsOff \cup {n}
             ELSE /\ registry' = [Plu!Unloaded(n) EXCEPT ![n] = Plu!Loaded(registry[n].manifest)]
                  /\ pluginsOff' = pluginsOff \ {n}
    BY <1>3 DEF Plu!Reload
  <2>2. UNCHANGED <<onDisk, importable>>
    BY <1>3 DEF Plu!Reload
  <2>3. registry' = [p \in Plu!PluginNames |-> registry'[p]]
    BY <2>1 DEF Plu!Unloaded
  <2>4. CASE Plu!Unloaded(n)[n] = Nothing
    BY <2>1, <2>2, <2>3, <2>4, UnloadedHonest DEF RegistryHonest
  <2>5. CASE Plu!Unloaded(n)[n] # Nothing
    <3> DEFINE m == registry[n].manifest
    <3>1. m \in Manifests /\ m.sound
      BY <2>1 DEF RegistryHonest, Honest
    <3>2. ASSUME NEW p \in Plu!PluginNames, p # n
          PROVE  Honest(p, registry'[p], importable, pluginsOff')
      <4>1. registry'[p] = Plu!Unloaded(n)[p]
        BY <2>1, <2>5, <3>2 DEF Plu!Unloaded
      <4>2. Honest(p, Plu!Unloaded(n)[p], importable, pluginsOff \cup {n})
        BY <2>1, UnloadedHonest
      <4> QED
        BY <2>1, <2>5, <4>1, <4>2 DEF Honest
    <3>3. Honest(n, registry'[n], importable, pluginsOff')
      <4>1. registry'[n] = Plu!Loaded(m) /\ n \notin pluginsOff'
        BY <2>1, <2>5 DEF Plu!Unloaded
      <4> QED
        BY <3>1, <4>1 DEF Honest, Plu!Loaded, Plu!Status
    <3> QED
      BY <2>2, <2>3, <3>2, <3>3 DEF RegistryHonest
  <2> QED
    BY <2>4, <2>5
<1>4. CASE Plu!Install
  <2>1. PICK m \in Manifests :
          /\ onDisk' = onDisk \cup {m} /\ importable' = importable \cup {m}
          /\ \/ /\ Plu!Validated(m)
                /\ registry' = [registry EXCEPT ![m.name] = [manifest |-> m, status |-> "active"]]
                /\ pluginsOff' = pluginsOff \ {m.name}
             \/ UNCHANGED <<registry, pluginsOff>>
    BY <1>4 DEF Plu!Install
  <2>2. registry' = [p \in Plu!PluginNames |-> registry'[p]]
    BY <2>1 DEF RegistryHonest
  <2>3. ASSUME NEW p \in Plu!PluginNames
        PROVE  Honest(p, registry'[p], importable', pluginsOff')
    <3>1. Honest(p, registry[p], importable, pluginsOff)
      BY DEF RegistryHonest
    <3>2. CASE registry'[p] = registry[p] /\ (p \in pluginsOff' => p \in pluginsOff)
      BY <2>1, <3>1, <3>2 DEF Honest
    <3>3. CASE /\ registry'[p] = [manifest |-> m, status |-> "active"]
               /\ m.sound /\ p \notin pluginsOff'
      BY <2>1, <3>3 DEF Honest, Plu!Status
    <3>4. CASE UNCHANGED <<registry, pluginsOff>>
      BY <3>2, <3>4
    <3>5. CASE /\ Plu!Validated(m)
               /\ registry' = [registry EXCEPT ![m.name] = [manifest |-> m, status |-> "active"]]
               /\ pluginsOff' = pluginsOff \ {m.name}
      BY <3>2, <3>3, <3>5 DEF RegistryHonest, Plu!Validated
    <3> QED
      BY <2>1, <3>4, <3>5
  <2> QED
    BY <2>1, <2>2, <2>3 DEF RegistryHonest
<1>5. CASE Plu!RestartApi
  BY <1>5 DEF Plu!RestartApi, RegistryHonest, Honest
<1>6. CASE UNCHANGED pluginVars
  BY <1>6 DEF pluginVars, RegistryHonest
<1> QED
  BY <1>1, <1>2, <1>3, <1>4, <1>5, <1>6 DEF Plu!Next

\* A plugin switched off offers no tool until it is loaded again, and tools come from
\* sound, importable manifests only (unload_plugin, get_tools), whatever the manifests.
THEOREM ServicesOffOffersNothing == Spec => []OffOffersNothing
<1>1. RegistryHonest /\ pluginsOff \subseteq Plu!PluginNames => OffOffersNothing
  BY DEF RegistryHonest, Honest, OffOffersNothing, Plu!OffOffersNothing, Plu!Offers
<1>2. Init => pluginsOff \subseteq Plu!PluginNames
  BY DEF Init, Plu!Init
<1>3. pluginsOff \subseteq Plu!PluginNames /\ [Plu!Next]_pluginVars
      => (pluginsOff \subseteq Plu!PluginNames)'
  BY DEF pluginVars, Plu!Next, Plu!LoadAll, Plu!Disable, Plu!Reload, Plu!Install, Plu!RestartApi
<1> QED
  BY <1>1, <1>2, <1>3, PluginsInit, PluginsStep, PluginsHonest, PTL DEF Spec

-----------------------------------------------------------------------------
(* The approved APIs.                                                        *)

LEMMA EgressStep == [Next]_vars => [Egr!Next]_egressVars
  BY DEF Next, Held, vars

EgressRow == [status : {"active", "pending", "disabled"},
              domain : Egr!Domains, allows : Egr!Allowances]
EgressCall == [op : {"add", "suggest"}, domain : Egr!Domains, allows : Egr!Allowances]

\* An administrator made a host active before a row of it is.
HostsVouched ==
    /\ entries \in [EntryIds -> EgressRow \cup {Egr!Gone}]
    /\ egressRequest \in [Requests -> EgressCall \cup {Egr!Idle}]
    /\ \A i \in EntryIds : entries[i].status = "active" => entries[i].domain \in vouched

LEMMA EgressInit == Init => HostsVouched
  BY DEF Init, Egr!Init, HostsVouched, Egr!Gone

LEMMA EgressVouched == HostsVouched /\ [Egr!Next]_egressVars => HostsVouched'
<1> SUFFICES ASSUME HostsVouched, [Egr!Next]_egressVars PROVE HostsVouched'
  OBVIOUS
<1>g. Egr!Gone \notin EgressRow /\ Egr!Idle \notin EgressCall /\ Egr!Gone.status = "gone"
  BY DEF Egr!Gone, Egr!Idle, EgressRow, EgressCall
<1>1. ASSUME NEW r \in Requests, Egr!LookUp(r) PROVE HostsVouched'
  <2>1. PICK d \in Egr!Domains : \E o \in Egr!Allowances : \E op \in {"add", "suggest"} :
          egressRequest' = [egressRequest EXCEPT ![r] = [op |-> op, domain |-> d, allows |-> o]]
    BY <1>1 DEF Egr!LookUp
  <2>2. egressRequest' \in [Requests -> EgressCall \cup {Egr!Idle}]
    BY <2>1 DEF HostsVouched, EgressCall
  <2> QED
    BY <1>1, <2>2 DEF Egr!LookUp, HostsVouched
<1>2. ASSUME NEW r \in Requests, Egr!Insert(r) PROVE HostsVouched'
  <2> DEFINE q == egressRequest[r]
             new == [status |-> Egr!StatusOf(q.op), domain |-> q.domain, allows |-> q.allows]
  <2>1. q \in EgressCall
    BY <1>2 DEF Egr!Insert, Egr!InsertAs, HostsVouched, Egr!Idle
  <2>2. PICK i \in EntryIds : entries' = [entries EXCEPT ![i] = new]
    BY <1>2 DEF Egr!Insert, Egr!InsertAs
  <2>3. /\ vouched' = IF q.op = "add" THEN vouched \cup {q.domain} ELSE vouched
        /\ egressRequest' = [egressRequest EXCEPT ![r] = Egr!Idle]
    BY <1>2 DEF Egr!Insert, Egr!InsertAs
  <2>4. new \in EgressRow /\ new.domain = q.domain
        /\ (new.status = "active" => q.op = "add")
    BY <2>1 DEF EgressRow, EgressCall, Egr!StatusOf
  <2> HIDE DEF new, q
  <2>5. /\ entries' \in [EntryIds -> EgressRow \cup {Egr!Gone}]
        /\ egressRequest' \in [Requests -> EgressCall \cup {Egr!Idle}]
    BY <2>2, <2>3, <2>4 DEF HostsVouched
  <2>6. ASSUME NEW j \in EntryIds, entries'[j].status = "active"
        PROVE  entries'[j].domain \in vouched'
    BY <2>2, <2>3, <2>4, <2>6 DEF HostsVouched
  <2> QED
    BY <2>5, <2>6 DEF HostsVouched
<1>3. CASE Egr!Update
  <2>1. PICK i \in EntryIds : \E o \in Egr!Allowances, status \in {"active", "pending", "disabled"} :
          /\ entries[i] # Egr!Gone
          /\ entries' = [entries EXCEPT ![i].status = status, ![i].allows = o]
          /\ vouched' = IF status = "active" THEN vouched \cup {entries[i].domain} ELSE vouched
    BY <1>3 DEF Egr!Update
  <2>2. PICK o \in Egr!Allowances : \E status \in {"active", "pending", "disabled"} :
          /\ entries[i] # Egr!Gone
          /\ entries' = [entries EXCEPT ![i].status = status, ![i].allows = o]
          /\ vouched' = IF status = "active" THEN vouched \cup {entries[i].domain} ELSE vouched
    BY <2>1
  <2>3. PICK status \in {"active", "pending", "disabled"} :
          /\ entries[i] # Egr!Gone
          /\ entries' = [entries EXCEPT ![i].status = status, ![i].allows = o]
          /\ vouched' = IF status = "active" THEN vouched \cup {entries[i].domain} ELSE vouched
    BY <2>2
  <2>4. entries[i] \in EgressRow
    BY <2>3 DEF HostsVouched
  <2>5. /\ entries'[i] \in EgressRow
        /\ entries'[i].status = status /\ entries'[i].domain = entries[i].domain
        /\ \A j \in EntryIds \ {i} : entries'[j] = entries[j]
    BY <2>3, <2>4 DEF HostsVouched, EgressRow
  <2>6. entries' \in [EntryIds -> EgressRow \cup {Egr!Gone}]
    BY <2>3, <2>5 DEF HostsVouched
  <2>7. ASSUME NEW j \in EntryIds, entries'[j].status = "active"
        PROVE  entries'[j].domain \in vouched'
    BY <2>3, <2>5, <2>7 DEF HostsVouched
  <2>8. egressRequest' = egressRequest
    BY <1>3 DEF Egr!Update
  <2> QED
    BY <2>6, <2>7, <2>8 DEF HostsVouched
<1>4. CASE Egr!Remove
  <2>1. PICK i \in EntryIds : entries' = [entries EXCEPT ![i] = Egr!Gone]
    BY <1>4 DEF Egr!Remove
  <2> QED
    BY <1>4, <1>g, <2>1 DEF Egr!Remove, HostsVouched
<1>5. CASE UNCHANGED egressVars
  BY <1>5 DEF egressVars, HostsVouched
<1> QED
  BY <1>1, <1>2, <1>3, <1>4, <1>5 DEF Egr!Next

LEMMA PairHasTwo ==
    ASSUME NEW x, NEW y, x # y
    PROVE  IsFiniteSet({x} \cup {y}) /\ Cardinality({x} \cup {y}) = 2
<1>1. IsFiniteSet({x}) /\ Cardinality({x}) = 1
  BY FS_Singleton
<1>2. y \notin {x}
  OBVIOUS
<1> QED
  BY <1>1, <1>2, FS_AddElement

LEMMA AtMostOne ==
    ASSUME NEW S, IsFiniteSet(S), ~(Cardinality(S) > 1), NEW x \in S, NEW y \in S
    PROVE  x = y
<1> SUFFICES ASSUME x # y PROVE FALSE
  OBVIOUS
<1>2. {x} \cup {y} \subseteq S
  OBVIOUS
<1>3. Cardinality({x} \cup {y}) = 2
  BY PairHasTwo
<1>4. Cardinality({x} \cup {y}) <= Cardinality(S) /\ Cardinality(S) \in Nat
  BY <1>2, FS_Subset, FS_CardinalityType
<1> QED
  BY <1>3, <1>4

LEMMA EgressCardinality == \A S : Egr!Cardinality(S) = Cardinality(S)
  BY DEF Egr!Cardinality, Cardinality

\* The registry's check does not promise what the agent's tool refuses, what it refuses is
\* fetched for a spelling only while the registry can be read, and only an administrator
\* puts a host within reach (check_url, _registry_allows), whatever requests overlap.
THEOREM ServicesCheckSpeaksForTheAgent == Spec => []CheckSpeaksForTheAgent
<1>1. ASSUME HostsVouched, NEW e \in Egr!Domains, NEW o \in Operations,
             NEW d, d = [e EXCEPT !.dressed = FALSE]
      PROVE  /\ Egr!CheckUrl(d, o) = "allowed" =>
                  \A readable \in BOOLEAN : Egr!RegistryAllows(d, o, readable) = {TRUE}
             /\ Egr!CheckUrl(d, o) = "refused" /\ Egr!AnyActive =>
                  \/ Egr!RegistryAllows(d, o, TRUE) = {FALSE}
                  \/ \E i \in Egr!Active(d) : ~ entries[i].allows.capitals
             /\ Egr!AnyActive /\ TRUE \in Egr!RegistryAllows(e, o, TRUE) => d \in vouched
  <2> DEFINE found == Egr!Active(d)
  <2>1. [d EXCEPT !.dressed = FALSE] = d
    <3>1. d \in [host : Hosts, dressed : BOOLEAN] /\ d.dressed = FALSE
      BY <1>1 DEF Egr!Domains
    <3> QED
      BY <3>1
  <2>2. found \subseteq EntryIds /\ IsFiniteSet(found) /\ Cardinality(found) \in Nat
    <3>1. found \subseteq EntryIds
      BY DEF Egr!Active, Egr!Rows
    <3> QED
      BY <3>1, FiniteAssumption, FS_Subset, FS_CardinalityType
  <2>3. ASSUME ~(Cardinality(found) > 1), NEW i \in found, NEW j \in found
        PROVE  i = j
    BY <2>2, <2>3, AtMostOne
  <2>4. \A readable \in BOOLEAN :
          /\ Egr!RegistryAllows(d, o, readable) = Egr!RegistryAllows(e, o, readable)
          /\ Egr!RegistryAllows(d, o, readable) =
               IF ~ readable \/ ~ Egr!AnyActive THEN {TRUE}
               ELSE IF found = {} THEN {FALSE} ELSE {Egr!Permits(i, o) : i \in found}
    BY <1>1, <2>1 DEF Egr!RegistryAllows
  <2>5. \A i \in found : entries[i].status = "active" /\ entries[i].domain = d /\ Egr!AnyActive
    BY <2>2 DEF Egr!Active, Egr!Rows, Egr!AnyActive
  <2>6. \A i : /\ Egr!Permits(i, o) \in BOOLEAN
               /\ Egr!CheckPermits(i, o) => Egr!Permits(i, o)
               /\ entries[i].allows.capitals /\ Egr!Permits(i, o) => Egr!CheckPermits(i, o)
    BY DEF Egr!Permits, Egr!CheckPermits
  <2>7. Egr!CheckUrl(d, o) =
          IF Cardinality(found) > 1 THEN "error"
          ELSE IF \E i \in found : Egr!CheckPermits(i, o) THEN "allowed" ELSE "refused"
    BY EgressCardinality DEF Egr!CheckUrl
  <2> HIDE DEF found
  <2>8. ASSUME Egr!CheckUrl(d, o) = "allowed", NEW readable \in BOOLEAN
        PROVE  Egr!RegistryAllows(d, o, readable) = {TRUE}
    <3>1. PICK i \in found : Egr!CheckPermits(i, o)
      BY <2>7, <2>8
    <3>2. found = {i}
      BY <2>3, <2>7, <2>8, <3>1
    <3> QED
      BY <2>4, <2>6, <3>1, <3>2
  <2>9. ASSUME Egr!CheckUrl(d, o) = "refused", Egr!AnyActive,
               \A i \in found : entries[i].allows.capitals
        PROVE  Egr!RegistryAllows(d, o, TRUE) = {FALSE}
    <3>1. \A i \in found : Egr!Permits(i, o) = FALSE
      BY <2>6, <2>7, <2>9
    <3> QED
      BY <2>4, <2>9, <3>1
  <2>10. ASSUME Egr!AnyActive, TRUE \in Egr!RegistryAllows(e, o, TRUE) PROVE d \in vouched
    <3>1. PICK i : i \in found
      BY <2>4, <2>10
    <3> QED
      BY <1>1, <2>2, <2>5, <3>1 DEF HostsVouched
  <2> QED
    BY <2>8, <2>9, <2>10 DEF found
<1>2. HostsVouched => CheckSpeaksForTheAgent
  BY <1>1 DEF CheckSpeaksForTheAgent, Egr!CheckSpeaksForTheAgent
<1> QED
  BY <1>2, EgressInit, EgressStep, EgressVouched, PTL DEF Spec

-----------------------------------------------------------------------------
(* Signing in.                                                               *)

LEMMA AccountsStep == [Next]_vars => [Acc!Next]_accountVars
  BY DEF Next, Held, vars

\* The password in the credential file, and the one a first visit has still to write there,
\* were the administrator's when they were committed.
FileOpens ==
    /\ users \in [Emails -> Acc!User] /\ DOMAIN loginRequest = Requests
    /\ \A r \in Requests : loginRequest[r].op = "created" =>
          users[Admin].admin /\ users[Admin].password \in {r, Acc!Chosen}
    /\ credFile # Acc!None => users[Admin].admin /\ users[Admin].password \in {credFile, Acc!Chosen}

LEMMA FileInit == Init => FileOpens
  BY DEF Init, Acc!Init, FileOpens, Acc!User, Acc!NoUser, Acc!Idle, Acc!None

\* An account is inserted where there was none, so nothing had been promised of it.
LEMMA InsertOpens ==
    ASSUME FileOpens, users[Admin] = Acc!NoUser
    PROVE  credFile = Acc!None /\ \A r \in Requests : loginRequest[r].op # "created"
  BY DEF FileOpens, Acc!NoUser

LEMMA FileStays ==
    ASSUME FileOpens, NEW r \in Requests, UNCHANGED <<users, credFile>>,
           loginRequest' = loginRequest \/
              \E v : v.op # "created" /\ loginRequest' = [loginRequest EXCEPT ![r] = v]
    PROVE  FileOpens'
  BY DEF FileOpens

LEMMA AccountsOpen == FileOpens /\ [Acc!Next]_accountVars => FileOpens'
<1> SUFFICES ASSUME FileOpens, [Acc!Next]_accountVars PROVE FileOpens'
  OBVIOUS
<1> USE KeyAssumption
<1>1. ASSUME NEW r \in Requests, Acc!BeginLogin(r) PROVE FileOpens'
  <2>1. PICK e \in Emails : \E s \in Sources :
          loginRequest' = IF Acc!Blocked(e) \/ Acc!Blocked(s) THEN loginRequest
                ELSE [loginRequest EXCEPT ![r] = [op |-> "login", email |-> e, source |-> s]]
    BY <1>1 DEF Acc!BeginLogin
  <2>2. PICK s \in Sources :
          loginRequest' = IF Acc!Blocked(e) \/ Acc!Blocked(s) THEN loginRequest
                ELSE [loginRequest EXCEPT ![r] = [op |-> "login", email |-> e, source |-> s]]
    BY <2>1
  <2>3. [op |-> "login", email |-> e, source |-> s].op # "created"
    OBVIOUS
  <2>4. UNCHANGED <<users, credFile>>
    BY <1>1 DEF Acc!BeginLogin
  <2> QED
    BY <2>2, <2>3, <2>4, FileStays
<1>2. ASSUME NEW r \in Requests, Acc!FailLogin(r) \/ Acc!PassLogin(r) PROVE FileOpens'
  <2>1. UNCHANGED <<users, credFile>> /\ loginRequest' = [loginRequest EXCEPT ![r] = Acc!Idle]
    BY <1>2 DEF Acc!FailLogin, Acc!PassLogin
  <2>2. Acc!Idle.op # "created"
    BY DEF Acc!Idle
  <2> QED
    BY <2>1, <2>2, FileStays
<1>3. ASSUME NEW r \in Requests, Acc!BeginRegister(r) PROVE FileOpens'
  <2>1. PICK e \in Emails : loginRequest' = [loginRequest EXCEPT ![r] = [op |-> "register", email |-> e]]
    BY <1>3 DEF Acc!BeginRegister
  <2>2. UNCHANGED <<users, credFile>> /\ [op |-> "register", email |-> e].op # "created"
    BY <1>3 DEF Acc!BeginRegister
  <2> QED
    BY <2>1, <2>2, FileStays
<1>4. ASSUME NEW r \in Requests, Acc!FinishRegister(r) PROVE FileOpens'
  <2> DEFINE e == loginRequest[r].email
  <2>1. /\ credFile' = credFile /\ loginRequest' = [loginRequest EXCEPT ![r] = Acc!Idle]
        /\ \/ users' = users
           \/ /\ users[e] = Acc!NoUser
              /\ users' = [users EXCEPT ![e] = [password |-> Acc!Chosen, admin |-> FALSE]]
    BY <1>4 DEF Acc!FinishRegister
  <2>2. Acc!Idle.op # "created"
    BY DEF Acc!Idle
  <2>3. CASE users' = users
    BY <2>1, <2>2, <2>3, FileStays
  <2>4. CASE e # Admin /\ users' = [users EXCEPT ![e] = [password |-> Acc!Chosen, admin |-> FALSE]]
    <3>1. users'[Admin] = users[Admin] /\ users' \in [Emails -> Acc!User]
      BY <2>4 DEF FileOpens, Acc!User
    <3> QED
      BY <2>1, <2>2, <3>1 DEF FileOpens
  <2>5. CASE e = Admin /\ users[e] = Acc!NoUser
              /\ users' = [users EXCEPT ![e] = [password |-> Acc!Chosen, admin |-> FALSE]]
    <3>1. users' \in [Emails -> Acc!User]
      BY <2>5 DEF FileOpens, Acc!User
    <3>2. credFile = Acc!None /\ \A q \in Requests : loginRequest[q].op # "created"
      BY <2>5, InsertOpens
    <3> QED
      BY <2>1, <2>2, <3>1, <3>2 DEF FileOpens
  <2> QED
    BY <2>1, <2>3, <2>4, <2>5
<1>5. ASSUME NEW r \in Requests, Acc!BeginFirstRun(r) PROVE FileOpens'
  <2>1. /\ loginRequest' = [loginRequest EXCEPT ![r] = [op |-> "first_run"]]
        /\ UNCHANGED <<users, credFile>> /\ [op |-> "first_run"].op # "created"
    BY <1>5 DEF Acc!BeginFirstRun
  <2> QED
    BY <2>1, FileStays
<1>6. ASSUME NEW r \in Requests, Acc!CommitAdmin(r) PROVE FileOpens'
  <2>1. CASE users[Admin] # Acc!NoUser
    <3>1. UNCHANGED <<users, credFile>> /\ loginRequest' = [loginRequest EXCEPT ![r] = Acc!Idle]
      BY <1>6, <2>1 DEF Acc!CommitAdmin
    <3>2. Acc!Idle.op # "created"
      BY DEF Acc!Idle
    <3> QED
      BY <3>1, <3>2, FileStays
  <2>2. CASE users[Admin] = Acc!NoUser
    <3>1. /\ users' = [users EXCEPT ![Admin] = [password |-> r, admin |-> TRUE]]
          /\ loginRequest' = [loginRequest EXCEPT ![r] = [op |-> "created"]]
          /\ credFile' = credFile
      BY <1>6, <2>2 DEF Acc!CommitAdmin
    <3>2. credFile = Acc!None /\ \A q \in Requests : loginRequest[q].op # "created"
      BY <2>2, InsertOpens
    <3>3. users' \in [Emails -> Acc!User] /\ users'[Admin].admin /\ users'[Admin].password = r
      BY <3>1 DEF FileOpens, Acc!User
    <3>4. \A q \in Requests : loginRequest'[q].op = "created" => q = r
      BY <3>1, <3>2 DEF FileOpens
    <3> QED
      BY <3>1, <3>2, <3>3, <3>4 DEF FileOpens
  <2> QED
    BY <2>1, <2>2
<1>7. ASSUME NEW r \in Requests, Acc!WriteCredential(r) PROVE FileOpens'
  <2>1. /\ loginRequest[r].op = "created" /\ users' = users /\ credFile' \in {r, credFile}
        /\ loginRequest' = [loginRequest EXCEPT ![r] = Acc!Idle] /\ Acc!Idle.op # "created"
    BY <1>7 DEF Acc!WriteCredential, Acc!Idle
  <2> QED
    BY <2>1 DEF FileOpens
<1>8. CASE Acc!ChangePassword
  <2>1. PICK t \in tokens : users' = [users EXCEPT ![t.email].password = Acc!Chosen]
    BY <1>8 DEF Acc!ChangePassword
  <2>2. \A e \in Emails : users'[e] = users[e] \/ users'[e] = [users[e] EXCEPT !.password = Acc!Chosen]
    BY <2>1 DEF FileOpens
  <2>3. users' \in [Emails -> Acc!User]
    BY <2>1 DEF FileOpens, Acc!User
  <2>4. /\ users'[Admin].admin = users[Admin].admin
        /\ users'[Admin].password \in {users[Admin].password, Acc!Chosen}
    BY <2>2 DEF FileOpens, Acc!User
  <2>5. UNCHANGED <<loginRequest, credFile>>
    BY <1>8 DEF Acc!ChangePassword
  <2> QED
    BY <2>3, <2>4, <2>5 DEF FileOpens
<1>9. CASE Acc!Tick
  BY <1>9 DEF Acc!Tick, FileOpens
<1>10. CASE Acc!RestartApi
  BY <1>10 DEF Acc!RestartApi, FileOpens, Acc!Idle
<1>11. CASE UNCHANGED accountVars
  BY <1>11 DEF accountVars, FileOpens
<1> QED
  BY <1>1, <1>2, <1>3, <1>4, <1>5, <1>6, <1>7, <1>8, <1>9, <1>10, <1>11 DEF Acc!Next

\* The first-run credential file opens the administrator's account until its password is
\* changed, whatever visits, logins, failed writes and restarts overlap (first_run_check).
THEOREM ServicesCredentialOpens == Spec => []CredentialOpens
<1>1. FileOpens => CredentialOpens
  BY DEF FileOpens, CredentialOpens, Acc!CredentialOpens
<1> QED
  BY <1>1, FileInit, AccountsStep, AccountsOpen, PTL DEF Spec

-----------------------------------------------------------------------------
(* The limiters of failed logins.                                            *)

LEMMA AccountsCardinality == \A S : Acc!Cardinality(S) = Cardinality(S)
  BY DEF Acc!Cardinality, Cardinality

LimitOf(k) == Acc!MaxEvents(k) - 1 + Cardinality(Requests)

\* Every key's failures and the logins admitted for it stay within the limit.
GuessesKept ==
    /\ failures \in [Acc!Keys -> Seq(Int)] /\ clock \in Nat
    /\ DOMAIN loginRequest = Requests
    /\ \A r \in Requests : loginRequest[r].op = "login" =>
          loginRequest[r].email \in Emails /\ loginRequest[r].source \in Sources
    /\ \A k \in Acc!Keys : Len(failures[k]) + Cardinality(Acc!Trying(k)) <= LimitOf(k)

LEMMA LimitsCount ==
    /\ Cardinality(Requests) \in Nat
    /\ \A k : Acc!MaxEvents(k) \in Nat \ {0} /\ LimitOf(k) \in Nat
<1>1. Cardinality(Requests) \in Nat
  BY FiniteAssumption, FS_CardinalityType
<1>2. \A k : Acc!MaxEvents(k) \in Nat \ {0}
  BY LimiterAssumption DEF Acc!MaxEvents
<1> QED
  BY <1>1, <1>2 DEF LimitOf

LEMMA TryingCounts ==
    /\ \A k : /\ IsFiniteSet(Acc!Trying(k)) /\ Cardinality(Acc!Trying(k)) \in Nat
              /\ Cardinality(Acc!Trying(k)) <= Cardinality(Requests)
<1> SUFFICES ASSUME NEW k
             PROVE  /\ IsFiniteSet(Acc!Trying(k)) /\ Cardinality(Acc!Trying(k)) \in Nat
                    /\ Cardinality(Acc!Trying(k)) <= Cardinality(Requests)
  OBVIOUS
<1>1. Acc!Trying(k) \subseteq Requests
  BY DEF Acc!Trying
<1> QED
  BY <1>1, FiniteAssumption, FS_Subset, FS_CardinalityType

LEMMA TryingCountsNext ==
    \A k : /\ IsFiniteSet(Acc!Trying(k)') /\ Cardinality(Acc!Trying(k)') \in Nat
           /\ Cardinality(Acc!Trying(k)') <= Cardinality(Requests)
<1> SUFFICES ASSUME NEW k
             PROVE  /\ IsFiniteSet(Acc!Trying(k)') /\ Cardinality(Acc!Trying(k)') \in Nat
                    /\ Cardinality(Acc!Trying(k)') <= Cardinality(Requests)
  OBVIOUS
<1>1. Acc!Trying(k)' \subseteq Requests
  BY DEF Acc!Trying
<1> QED
  BY <1>1, FiniteAssumption, FS_Subset, FS_CardinalityType

\* Forgetting leaves some of the failures, and no more than there were.
LEMMA RecentShorter ==
    ASSUME GuessesKept, NEW k \in Acc!Keys
    PROVE  /\ Acc!Recent(k) \in Seq(Int)
           /\ Len(Acc!Recent(k)) \in Nat /\ Len(Acc!Recent(k)) <= Len(failures[k])
<1>1. failures[k] \in Seq(Int) /\ Len(failures[k]) \in Nat
  BY DEF GuessesKept
<1>2. Acc!Expired(k) \subseteq 1 .. Len(failures[k])
  BY DEF Acc!Expired
<1>3. IsFiniteSet(1 .. Len(failures[k])) /\ Cardinality(1 .. Len(failures[k])) = Len(failures[k])
  BY <1>1, FS_Interval
<1> DEFINE n == Cardinality(Acc!Expired(k))
<1>4. n \in Nat /\ n <= Len(failures[k])
  BY <1>2, <1>3, FS_Subset, FS_CardinalityType
<1>5. Acc!Recent(k) = SubSeq(failures[k], n + 1, Len(failures[k]))
  BY AccountsCardinality DEF Acc!Recent
<1> HIDE DEF n
<1>6. SubSeq(failures[k], n + 1, Len(failures[k])) \in Seq(Int)
  BY <1>1, <1>4
<1>7. Len(SubSeq(failures[k], n + 1, Len(failures[k]))) = Len(failures[k]) - n
  BY <1>1, <1>4
<1> QED
  BY <1>1, <1>4, <1>5, <1>6, <1>7

LEMMA GuessInit == Init => GuessesKept
<1> SUFFICES ASSUME Init PROVE GuessesKept
  OBVIOUS
<1>1. /\ failures = [k \in Acc!Keys |-> <<>>] /\ clock = 0
      /\ loginRequest = [r \in Requests |-> Acc!Idle]
  BY DEF Init, Acc!Init
<1>2. Acc!Idle.op = "idle"
  BY DEF Acc!Idle
<1>3. ASSUME NEW k \in Acc!Keys
      PROVE  Len(failures[k]) + Cardinality(Acc!Trying(k)) <= LimitOf(k)
  <2>1. Acc!Trying(k) = {}
    BY <1>1, <1>2 DEF Acc!Trying
  <2>2. Cardinality(Acc!Trying(k)) = 0
    BY <2>1, FS_EmptySet
  <2>3. Len(failures[k]) = 0
    BY <1>1
  <2> QED
    BY <2>2, <2>3, LimitsCount
<1> QED
  BY <1>1, <1>2, <1>3 DEF GuessesKept

\* A login that ends leaves a place, and one failure takes it.
LEMMA OneLess ==
    ASSUME NEW r \in Requests, NEW k, r \in Acc!Trying(k), Acc!Trying(k)' = Acc!Trying(k) \ {r}
    PROVE  Cardinality(Acc!Trying(k)') = Cardinality(Acc!Trying(k)) - 1
  BY TryingCounts, FS_RemoveElement

LEMMA EndingStays ==
    ASSUME GuessesKept, NEW r \in Requests, NEW v, v.op # "login",
           loginRequest' = [loginRequest EXCEPT ![r] = v]
    PROVE  /\ DOMAIN loginRequest' = Requests
           /\ \A q \in Requests : loginRequest'[q].op = "login" =>
                 loginRequest'[q].email \in Emails /\ loginRequest'[q].source \in Sources
           /\ \A k : Acc!Trying(k)' = Acc!Trying(k) \ {r}
           /\ \A k : Cardinality(Acc!Trying(k)') <= Cardinality(Acc!Trying(k))
<1>1. \A q \in Requests : loginRequest'[q] = IF q = r THEN v ELSE loginRequest[q]
  BY DEF GuessesKept
<1>2. \A k : Acc!Trying(k)' = Acc!Trying(k) \ {r}
  BY <1>1 DEF Acc!Trying
<1>3. ASSUME NEW k PROVE Cardinality(Acc!Trying(k)') <= Cardinality(Acc!Trying(k))
  <2>1. Acc!Trying(k)' \subseteq Acc!Trying(k)
    BY <1>2
  <2> QED
    BY <2>1, TryingCounts, FS_Subset
<1>4. /\ DOMAIN loginRequest' = Requests
      /\ \A q \in Requests : loginRequest'[q].op = "login" =>
            loginRequest'[q].email \in Emails /\ loginRequest'[q].source \in Sources
  BY <1>1 DEF GuessesKept
<1> QED
  BY <1>2, <1>3, <1>4

LEMMA OthersKept ==
    ASSUME GuessesKept, NEW r \in Requests, UNCHANGED <<failures, clock>>,
           loginRequest' = loginRequest \/
              \E v : v.op # "login" /\ loginRequest' = [loginRequest EXCEPT ![r] = v]
    PROVE  GuessesKept'
<1>1. CASE loginRequest' = loginRequest
  BY <1>1 DEF GuessesKept, Acc!Trying
<1>2. CASE loginRequest' # loginRequest
  <2>1. PICK v : v.op # "login" /\ loginRequest' = [loginRequest EXCEPT ![r] = v]
    BY <1>2
  <2>2. /\ DOMAIN loginRequest' = Requests
        /\ \A q \in Requests : loginRequest'[q].op = "login" =>
              loginRequest'[q].email \in Emails /\ loginRequest'[q].source \in Sources
        /\ \A k : Cardinality(Acc!Trying(k)') <= Cardinality(Acc!Trying(k))
    BY <2>1, EndingStays
  <2>3. ASSUME NEW k \in Acc!Keys
        PROVE  Len(failures'[k]) + Cardinality(Acc!Trying(k)') <= LimitOf(k)
    <3>1. Len(failures[k]) + Cardinality(Acc!Trying(k)) <= LimitOf(k) /\ Len(failures[k]) \in Nat
      BY DEF GuessesKept
    <3>2. Cardinality(Acc!Trying(k)') \in Nat /\ Cardinality(Acc!Trying(k)) \in Nat
      BY TryingCounts, TryingCountsNext
    <3> QED
      BY <2>2, <3>1, <3>2, LimitsCount
  <2> QED
    BY <2>2, <2>3 DEF GuessesKept
<1> QED
  BY <1>1, <1>2

\* Whoever is admitted found room for a failure of its own under both keys.
LEMMA AdmittedKept == ASSUME GuessesKept, NEW r \in Requests, Acc!BeginLogin(r) PROVE GuessesKept'
<1>1. PICK e \in Emails : \E s \in Sources :
        /\ failures' = [failures EXCEPT
              ![e] = Acc!Recent(e), ![s] = IF Acc!Blocked(e) THEN @ ELSE Acc!Recent(s)]
        /\ loginRequest' = IF Acc!Blocked(e) \/ Acc!Blocked(s) THEN loginRequest
              ELSE [loginRequest EXCEPT ![r] = [op |-> "login", email |-> e, source |-> s]]
  BY DEF Acc!BeginLogin
<1>2. PICK s \in Sources :
        /\ failures' = [failures EXCEPT
              ![e] = Acc!Recent(e), ![s] = IF Acc!Blocked(e) THEN @ ELSE Acc!Recent(s)]
        /\ loginRequest' = IF Acc!Blocked(e) \/ Acc!Blocked(s) THEN loginRequest
              ELSE [loginRequest EXCEPT ![r] = [op |-> "login", email |-> e, source |-> s]]
  BY <1>1
<1> DEFINE v == [op |-> "login", email |-> e, source |-> s]
<1>3. e \in Acc!Keys /\ s \in Acc!Keys /\ e # s
  BY KeyAssumption DEF Acc!Keys
<1>4. /\ failures' \in [Acc!Keys -> Seq(Int)] /\ failures'[e] = Acc!Recent(e)
      /\ failures'[s] = failures[s] \/ failures'[s] = Acc!Recent(s)
      /\ ~ Acc!Blocked(e) => failures'[s] = Acc!Recent(s)
      /\ \A k \in Acc!Keys : k # e /\ k # s => failures'[k] = failures[k]
  BY <1>2, <1>3, RecentShorter DEF GuessesKept
<1>5. ASSUME NEW k \in Acc!Keys
      PROVE  /\ Len(failures'[k]) \in Nat /\ Len(failures[k]) \in Nat
             /\ Len(failures'[k]) <= Len(failures[k])
  <2>1. failures[k] \in Seq(Int) /\ failures'[k] \in Seq(Int)
    BY <1>4 DEF GuessesKept
  <2>2. Len(failures'[k]) \in Nat /\ Len(failures[k]) \in Nat
    BY <2>1
  <2>3. failures'[k] = failures[k] \/ failures'[k] = Acc!Recent(k)
    BY <1>4
  <2>4. Len(Acc!Recent(k)) <= Len(failures[k])
    BY RecentShorter
  <2> QED
    BY <2>2, <2>3, <2>4
<1>6. clock' = clock
  BY DEF Acc!BeginLogin
<1>7. CASE Acc!Blocked(e) \/ Acc!Blocked(s)
  <2>1. loginRequest' = loginRequest
    BY <1>2, <1>7
  <2>2. \A k : Acc!Trying(k)' = Acc!Trying(k)
    BY <2>1 DEF Acc!Trying
  <2>3. ASSUME NEW k \in Acc!Keys
        PROVE  Len(failures'[k]) + Cardinality(Acc!Trying(k)') <= LimitOf(k)
    <3>1. Len(failures[k]) + Cardinality(Acc!Trying(k)) <= LimitOf(k)
      BY DEF GuessesKept
    <3> QED
      BY <1>5, <2>2, <3>1, LimitsCount, TryingCounts
  <2> QED
    BY <1>4, <1>6, <2>1, <2>3 DEF GuessesKept
<1>8. CASE ~ (Acc!Blocked(e) \/ Acc!Blocked(s))
  <2>1. loginRequest' = [loginRequest EXCEPT ![r] = v]
    BY <1>2, <1>8
  <2>2. \A q \in Requests : loginRequest'[q] = IF q = r THEN v ELSE loginRequest[q]
    BY <2>1 DEF GuessesKept
  <2>3. /\ DOMAIN loginRequest' = Requests
        /\ \A q \in Requests : loginRequest'[q].op = "login" =>
              loginRequest'[q].email \in Emails /\ loginRequest'[q].source \in Sources
    BY <2>1, <2>2 DEF GuessesKept
  <2>4. ASSUME NEW k \in {e, s}
        PROVE  Len(failures'[k]) + Cardinality(Acc!Trying(k)') <= LimitOf(k)
    <3>1. Len(Acc!Recent(k)) < Acc!MaxEvents(k)
      <4>1. ~ (Len(Acc!Recent(k)) >= Acc!MaxEvents(k))
        BY <1>8 DEF Acc!Blocked
      <4> QED
        BY <4>1, <1>3, RecentShorter, LimitsCount
    <3>2. failures'[k] = Acc!Recent(k)
      BY <1>4, <1>8
    <3>3. Len(Acc!Recent(k)) \in Nat
      BY <1>3, RecentShorter
    <3> QED
      BY <3>1, <3>2, <3>3, LimitsCount, TryingCountsNext DEF LimitOf
  <2>5. ASSUME NEW k \in Acc!Keys, k # e, k # s
        PROVE  Len(failures'[k]) + Cardinality(Acc!Trying(k)') <= LimitOf(k)
    <3>1. v.op = "login" /\ v.email = e /\ v.source = s
      OBVIOUS
    <3>2. Acc!Trying(k)' \subseteq Acc!Trying(k)
      BY <2>2, <2>5, <3>1 DEF Acc!Trying
    <3>3. Cardinality(Acc!Trying(k)') <= Cardinality(Acc!Trying(k))
      BY <3>2, TryingCounts, FS_Subset
    <3>4. Len(failures[k]) + Cardinality(Acc!Trying(k)) <= LimitOf(k)
      BY DEF GuessesKept
    <3> QED
      BY <1>5, <3>3, <3>4, LimitsCount, TryingCounts, TryingCountsNext
  <2> QED
    BY <1>4, <1>6, <2>3, <2>4, <2>5 DEF GuessesKept
<1> QED
  BY <1>7, <1>8

LEMMA FailedKept == ASSUME GuessesKept, NEW r \in Requests, Acc!FailLogin(r) PROVE GuessesKept'
<1> DEFINE e == loginRequest[r].email  s == loginRequest[r].source
<1>1. /\ loginRequest[r].op = "login" /\ clock' = clock
      /\ failures' = [failures EXCEPT ![e] = Append(@, clock), ![s] = Append(@, clock)]
      /\ loginRequest' = [loginRequest EXCEPT ![r] = Acc!Idle] /\ Acc!Idle.op # "login"
  BY DEF Acc!FailLogin, Acc!Idle
<1>2. e \in Acc!Keys /\ s \in Acc!Keys /\ e # s
  BY <1>1, KeyAssumption DEF GuessesKept, Acc!Keys
<1>3. /\ DOMAIN loginRequest' = Requests
      /\ \A q \in Requests : loginRequest'[q].op = "login" =>
            loginRequest'[q].email \in Emails /\ loginRequest'[q].source \in Sources
      /\ \A k : Acc!Trying(k)' = Acc!Trying(k) \ {r}
      /\ \A k : Cardinality(Acc!Trying(k)') <= Cardinality(Acc!Trying(k))
  BY <1>1, EndingStays
<1>4. ASSUME NEW k \in Acc!Keys PROVE failures[k] \in Seq(Int) /\ Append(failures[k], clock) \in Seq(Int)
                                      /\ Len(failures[k]) \in Nat /\ Len(Append(failures[k], clock)) = Len(failures[k]) + 1
  BY DEF GuessesKept
<1> HIDE DEF e, s
<1>5. \A k \in Acc!Keys : failures'[k] = IF k \in {e, s} THEN Append(failures[k], clock) ELSE failures[k]
  BY <1>1, <1>2 DEF GuessesKept
<1>6. failures' \in [Acc!Keys -> Seq(Int)]
  BY <1>1, <1>2, <1>4 DEF GuessesKept
<1>7. ASSUME NEW k \in Acc!Keys
      PROVE  Len(failures'[k]) + Cardinality(Acc!Trying(k)') <= LimitOf(k)
  <2>1. Len(failures[k]) + Cardinality(Acc!Trying(k)) <= LimitOf(k)
    BY DEF GuessesKept
  <2>2. CASE k \in {e, s}
    <3>1. r \in Acc!Trying(k)
      BY <1>1, <2>2 DEF Acc!Trying, e, s
    <3>2. Cardinality(Acc!Trying(k)') = Cardinality(Acc!Trying(k)) - 1
      BY <1>3, <3>1, OneLess
    <3>3. Len(failures'[k]) = Len(failures[k]) + 1
      BY <1>4, <1>5, <2>2
    <3> QED
      BY <1>4, <2>1, <3>2, <3>3, LimitsCount, TryingCounts
  <2>3. CASE k \notin {e, s}
    <3>1. failures'[k] = failures[k]
      BY <1>5, <2>3
    <3> QED
      BY <1>3, <1>4, <2>1, <3>1, LimitsCount, TryingCounts, TryingCountsNext
  <2> QED
    BY <2>2, <2>3
<1> QED
  BY <1>1, <1>3, <1>6, <1>7 DEF GuessesKept

LEMMA PassedKept == ASSUME GuessesKept, NEW r \in Requests, Acc!PassLogin(r) PROVE GuessesKept'
<1> DEFINE e == loginRequest[r].email  s == loginRequest[r].source
<1>1. /\ clock' = clock /\ failures' = [failures EXCEPT ![e] = <<>>, ![s] = <<>>]
      /\ loginRequest' = [loginRequest EXCEPT ![r] = Acc!Idle] /\ Acc!Idle.op # "login"
  BY DEF Acc!PassLogin, Acc!Idle
<1>2. /\ DOMAIN loginRequest' = Requests
      /\ \A q \in Requests : loginRequest'[q].op = "login" =>
            loginRequest'[q].email \in Emails /\ loginRequest'[q].source \in Sources
      /\ \A k : Cardinality(Acc!Trying(k)') <= Cardinality(Acc!Trying(k))
  BY <1>1, EndingStays
<1> HIDE DEF e, s
<1>3. \A k \in Acc!Keys : failures'[k] = <<>> \/ failures'[k] = failures[k]
  BY <1>1 DEF GuessesKept
<1>4. failures' \in [Acc!Keys -> Seq(Int)]
  <2>1. <<>> \in Seq(Int) /\ DOMAIN failures' = Acc!Keys
    BY <1>1 DEF GuessesKept
  <2>2. failures' = [k \in DOMAIN failures' |-> failures'[k]]
    BY <1>1 DEF GuessesKept
  <2>3. ASSUME NEW k \in Acc!Keys PROVE failures'[k] \in Seq(Int)
    BY <1>3, <2>1 DEF GuessesKept
  <2> QED
    BY <2>1, <2>2, <2>3
<1>5. ASSUME NEW k \in Acc!Keys
      PROVE  Len(failures'[k]) + Cardinality(Acc!Trying(k)') <= LimitOf(k)
  <2>1. /\ Len(failures[k]) + Cardinality(Acc!Trying(k)) <= LimitOf(k)
        /\ Len(failures[k]) \in Nat
    BY DEF GuessesKept
  <2>2. Len(failures'[k]) \in Nat /\ Len(failures'[k]) <= Len(failures[k])
    <3>1. Len(<<>>) = 0
      OBVIOUS
    <3> QED
      BY <1>3, <2>1, <3>1
  <2> QED
    BY <1>2, <2>1, <2>2, LimitsCount, TryingCounts, TryingCountsNext
<1> QED
  BY <1>1, <1>2, <1>4, <1>5 DEF GuessesKept

LEMMA GuessesStay == GuessesKept /\ [Acc!Next]_accountVars => GuessesKept'
<1> SUFFICES ASSUME GuessesKept, [Acc!Next]_accountVars PROVE GuessesKept'
  OBVIOUS
<1>1. ASSUME NEW r \in Requests, Acc!BeginLogin(r) PROVE GuessesKept'
  BY <1>1, AdmittedKept
<1>2. ASSUME NEW r \in Requests, Acc!FailLogin(r) PROVE GuessesKept'
  BY <1>2, FailedKept
<1>3. ASSUME NEW r \in Requests, Acc!PassLogin(r) PROVE GuessesKept'
  BY <1>3, PassedKept
<1>4. ASSUME NEW r \in Requests, Acc!BeginRegister(r) PROVE GuessesKept'
  <2>1. PICK e \in Emails : loginRequest' = [loginRequest EXCEPT ![r] = [op |-> "register", email |-> e]]
    BY <1>4 DEF Acc!BeginRegister
  <2>2. UNCHANGED <<failures, clock>> /\ [op |-> "register", email |-> e].op # "login"
    BY <1>4 DEF Acc!BeginRegister
  <2> QED
    BY <2>1, <2>2, OthersKept
<1>5. ASSUME NEW r \in Requests, Acc!FinishRegister(r) \/ Acc!WriteCredential(r) PROVE GuessesKept'
  <2>1. /\ UNCHANGED <<failures, clock>> /\ loginRequest' = [loginRequest EXCEPT ![r] = Acc!Idle]
        /\ Acc!Idle.op # "login"
    BY <1>5 DEF Acc!FinishRegister, Acc!WriteCredential, Acc!Idle
  <2> QED
    BY <2>1, OthersKept
<1>6. ASSUME NEW r \in Requests, Acc!BeginFirstRun(r) PROVE GuessesKept'
  <2>1. /\ UNCHANGED <<failures, clock>> /\ [op |-> "first_run"].op # "login"
        /\ loginRequest' = [loginRequest EXCEPT ![r] = [op |-> "first_run"]]
    BY <1>6 DEF Acc!BeginFirstRun
  <2> QED
    BY <2>1, OthersKept
<1>7. ASSUME NEW r \in Requests, Acc!CommitAdmin(r) PROVE GuessesKept'
  <2>1. /\ UNCHANGED <<failures, clock>> /\ [op |-> "created"].op # "login" /\ Acc!Idle.op # "login"
        /\ \/ loginRequest' = [loginRequest EXCEPT ![r] = Acc!Idle]
           \/ loginRequest' = [loginRequest EXCEPT ![r] = [op |-> "created"]]
    BY <1>7 DEF Acc!CommitAdmin, Acc!Idle
  <2> QED
    BY <2>1, OthersKept
<1>8. CASE Acc!ChangePassword
  BY <1>8 DEF Acc!ChangePassword, GuessesKept, Acc!Trying
<1>9. CASE Acc!Tick
  BY <1>9 DEF Acc!Tick, GuessesKept, Acc!Trying
<1>10. CASE Acc!RestartApi
  <2>1. /\ failures' = [k \in Acc!Keys |-> <<>>] /\ clock' = clock
        /\ loginRequest' = [r \in Requests |-> Acc!Idle] /\ Acc!Idle.op = "idle"
    BY <1>10 DEF Acc!RestartApi, Acc!Idle
  <2>2. ASSUME NEW k \in Acc!Keys
        PROVE  Len(failures'[k]) + Cardinality(Acc!Trying(k)') <= LimitOf(k)
    <3>1. Acc!Trying(k)' = {}
      BY <2>1 DEF Acc!Trying
    <3>2. Cardinality(Acc!Trying(k)') = 0
      BY <3>1, FS_EmptySet
    <3>3. Len(failures'[k]) = 0
      BY <2>1
    <3> QED
      BY <3>2, <3>3, LimitsCount
  <2> QED
    BY <2>1, <2>2 DEF GuessesKept
<1>11. CASE UNCHANGED accountVars
  BY <1>11 DEF accountVars, GuessesKept, Acc!Trying
<1> QED
  BY <1>1, <1>2, <1>3, <1>4, <1>5, <1>6, <1>7, <1>8, <1>9, <1>10, <1>11 DEF Acc!Next

\* Overlapping logins never put more failures on an account or an address than its limit
\* and the requests already admitted allow (login, SlidingWindowLimiter).
THEOREM ServicesGuessesBounded == Spec => []GuessesBounded
<1>1. GuessesKept => GuessesBounded
  BY AccountsCardinality DEF GuessesKept, GuessesBounded, Acc!GuessesBounded, LimitOf
<1> QED
  BY <1>1, GuessInit, AccountsStep, GuessesStay, PTL DEF Spec

-----------------------------------------------------------------------------
(* Repositories and their checkouts.                                         *)

LEMMA RegistryStep == [Next]_vars => [Reg!Next]_registryVars
  BY DEF Next, Held, vars

LEMMA RegistryCardinality == \A S : Reg!Cardinality(S) = Cardinality(S)
  BY DEF Reg!Cardinality, Cardinality

NewRows == UNION {[S -> Urls] : S \in SUBSET Ids}
ImportRequest == [op : {"import"}, todo : Seq(Urls), fresh : NewRows]

\* The rows request r has flushed and not committed.
FreshIds(r) == IF repoRequest[r].op = "import" THEN DOMAIN repoRequest[r].fresh ELSE {}
FreshUrl(r, i) == repoRequest[r].fresh[i]

RegistryTyped ==
    /\ repo \in [Ids -> [url : Urls, live : BOOLEAN] \cup {Nothing}]
    /\ DOMAIN repoRequest = Requests
    /\ \A r \in Requests :
          /\ repoRequest[r].op = "import" => repoRequest[r] \in ImportRequest
          /\ repoRequest[r].op = "enqueue" =>
                repoRequest[r] \in [op : {"enqueue"}, ids : SUBSET Reg!Committed]
    /\ clone \in [Reg!CloneNames -> Urls \cup {Nothing}]
    /\ crawled \subseteq started /\ started \subseteq Reg!Committed /\ pulls \subseteq Reg!Committed

\* Rows about to be committed are new, and of two rows of a url, both committed and live, both
\* about to be or one of each, the second was flushed while the first was not committed.
RowsApart ==
    /\ \A r \in Requests : FreshIds(r) \cap Reg!Committed = {}
    /\ \A r, q \in Requests : r # q => FreshIds(r) \cap FreshIds(q) = {}
    /\ \A r, q \in Requests : \A i \in FreshIds(r), j \in FreshIds(q) :
          i # j /\ FreshUrl(r, i) = FreshUrl(q, j) => FreshUrl(r, i) \in raced
    /\ \A r \in Requests : \A i \in FreshIds(r), j \in Reg!Live :
          repo[j].url = FreshUrl(r, i) => repo[j].url \in raced
    /\ \A i, j \in Reg!Live : i # j /\ repo[i].url = repo[j].url => repo[i].url \in raced

\* A checkout is of a row of its name, and a crawled one is there until it is removed.
ClonesKept ==
    /\ \A n \in Reg!CloneNames : clone[n] # Nothing =>
          \E j \in Reg!Committed : repo[j].url = clone[n] /\ NameOf[repo[j].url] = n
    /\ \A i \in crawled : NameOf[repo[i].url] \notin removed => clone[NameOf[repo[i].url]] # Nothing

RegistryInv == RegistryTyped /\ RowsApart /\ ClonesKept

LEMMA RegistryInit == Init => RegistryInv
<1> SUFFICES ASSUME Init PROVE RegistryInv
  OBVIOUS
<1>1. /\ repo = [i \in Ids |-> Nothing] /\ repoRequest = [r \in Requests |-> Reg!Idle]
      /\ started = {} /\ crawled = {} /\ pulls = {}
      /\ clone = [n \in Reg!CloneNames |-> Nothing]
  BY DEF Init, Reg!Init
<1>2. Reg!Idle.op = "idle"
  BY DEF Reg!Idle
<1>3. RegistryTyped
  BY <1>1, <1>2 DEF RegistryTyped
<1>4. Reg!Committed = {} /\ Reg!Live = {} /\ \A r \in Requests : FreshIds(r) = {}
  BY <1>1, <1>2 DEF Reg!Committed, Reg!Live, FreshIds
<1>5. RowsApart
  BY <1>4 DEF RowsApart
<1>6. ClonesKept
  BY <1>1 DEF ClonesKept
<1> QED
  BY <1>3, <1>5, <1>6 DEF RegistryInv

\* What a committed row is.
LEMMA CommittedRow ==
    ASSUME RegistryTyped, NEW i \in Reg!Committed
    PROVE  /\ i \in Ids /\ repo[i] \in [url : Urls, live : BOOLEAN]
           /\ repo[i].url \in Urls /\ NameOf[repo[i].url] \in Reg!CloneNames
<1>1. i \in Ids /\ repo[i] \in [url : Urls, live : BOOLEAN]
  BY DEF RegistryTyped, Reg!Committed
<1> QED
  BY <1>1, RegistryAssumption DEF Reg!CloneNames

LEMMA FreshRow ==
    ASSUME RegistryTyped, NEW r \in Requests, NEW i \in FreshIds(r)
    PROVE  i \in Ids /\ FreshUrl(r, i) \in Urls
<1>1. repoRequest[r] \in ImportRequest /\ i \in DOMAIN repoRequest[r].fresh
  BY DEF RegistryTyped, FreshIds
<1>2. repoRequest[r].fresh \in NewRows
  BY <1>1 DEF ImportRequest
<1>3. PICK S \in SUBSET Ids : repoRequest[r].fresh \in [S -> Urls]
  BY <1>2 DEF NewRows
<1> QED
  BY <1>1, <1>3 DEF FreshUrl

\* Steps that leave the rows where they are, or only hide some, keep them apart.
LEMMA RowsStay ==
    ASSUME RowsApart, Reg!Committed' = Reg!Committed, Reg!Live' \subseteq Reg!Live,
           \A i \in Reg!Live' : repo'[i].url = repo[i].url,
           raced' = raced,
           \A r \in Requests : FreshIds(r)' \subseteq FreshIds(r),
           \A r \in Requests : \A i \in FreshIds(r)' : FreshUrl(r, i)' = FreshUrl(r, i)
    PROVE  RowsApart'
<1>1. /\ \A r \in Requests : FreshIds(r)' \cap Reg!Committed' = {}
      /\ \A r, q \in Requests : r # q => FreshIds(r)' \cap FreshIds(q)' = {}
  BY DEF RowsApart
<1>2. ASSUME NEW r \in Requests, NEW q \in Requests, NEW i \in FreshIds(r)', NEW j \in FreshIds(q)',
             i # j, FreshUrl(r, i)' = FreshUrl(q, j)'
      PROVE  FreshUrl(r, i)' \in raced'
  <2>1. i \in FreshIds(r) /\ j \in FreshIds(q)
    OBVIOUS
  <2>2. FreshUrl(r, i)' = FreshUrl(r, i) /\ FreshUrl(q, j)' = FreshUrl(q, j)
    OBVIOUS
  <2>3. FreshUrl(r, i) = FreshUrl(q, j)
    BY <1>2, <2>2
  <2>4. FreshUrl(r, i) \in raced
    BY <1>2, <2>1, <2>3 DEF RowsApart
  <2> QED
    BY <2>2, <2>4
<1>3. ASSUME NEW r \in Requests, NEW i \in FreshIds(r)', NEW j \in Reg!Live',
             repo'[j].url = FreshUrl(r, i)'
      PROVE  repo'[j].url \in raced'
  <2>1. i \in FreshIds(r) /\ j \in Reg!Live /\ FreshUrl(r, i)' = FreshUrl(r, i)
    OBVIOUS
  <2> QED
    BY <1>3, <2>1 DEF RowsApart
<1>4. ASSUME NEW i \in Reg!Live', NEW j \in Reg!Live', i # j, repo'[i].url = repo'[j].url
      PROVE  repo'[i].url \in raced'
  BY <1>4 DEF RowsApart
<1> QED
  BY <1>1, <1>2, <1>3, <1>4 DEF RowsApart

\* Of the other requests nothing changes.
LEMMA OthersFresh ==
    ASSUME RegistryTyped, NEW r \in Requests, NEW v, repoRequest' = [repoRequest EXCEPT ![r] = v]
    PROVE  /\ DOMAIN repoRequest' = Requests /\ repoRequest'[r] = v
           /\ \A q \in Requests \ {r} : repoRequest'[q] = repoRequest[q]
           /\ \A q \in Requests \ {r} : FreshIds(q)' = FreshIds(q)
           /\ \A q \in Requests \ {r} : \A i : FreshUrl(q, i)' = FreshUrl(q, i)
           /\ v.op # "import" => FreshIds(r)' = {}
<1>1. /\ DOMAIN repoRequest' = Requests /\ repoRequest'[r] = v
      /\ \A q \in Requests \ {r} : repoRequest'[q] = repoRequest[q]
  BY DEF RegistryTyped
<1> QED
  BY <1>1 DEF FreshIds, FreshUrl

\* What was committed stays so, of the same url.
LEMMA ClonesFollow ==
    ASSUME RegistryTyped, ClonesKept,
           \A i \in Reg!Committed : i \in Reg!Committed' /\ repo'[i].url = repo[i].url,
           clone' = clone, crawled' \subseteq crawled, removed' = removed
    PROVE  ClonesKept'
<1>1. Reg!CloneNames' = Reg!CloneNames
  BY DEF Reg!CloneNames
<1>2. ASSUME NEW n \in Reg!CloneNames, clone[n] # Nothing
      PROVE  \E j \in Reg!Committed' : repo'[j].url = clone[n] /\ NameOf[repo'[j].url] = n
  <2>1. PICK j \in Reg!Committed : repo[j].url = clone[n] /\ NameOf[repo[j].url] = n
    BY <1>2 DEF ClonesKept
  <2> QED
    BY <2>1
<1>3. ASSUME NEW i \in crawled' PROVE repo'[i].url = repo[i].url
  BY DEF RegistryTyped
<1> QED
  BY <1>1, <1>2, <1>3 DEF ClonesKept

LEMMA PullKeeps ==
    ASSUME RegistryTyped, ClonesKept, NEW i \in Reg!Committed, Reg!CloneOrPull(repo[i].url),
           repo' = repo, removed' = removed, crawled' \subseteq crawled \cup {i}
    PROVE  ClonesKept' /\ clone' \in [Reg!CloneNames -> Urls \cup {Nothing}]
<1> DEFINE u == repo[i].url  n == NameOf[u]
<1>1. u \in Urls /\ n \in Reg!CloneNames /\ u # Nothing
  BY CommittedRow, RegistryAssumption
<1>2. clone' = [clone EXCEPT ![n] = IF clone[n] = Nothing THEN u ELSE clone[n]]
  BY DEF Reg!CloneOrPull
<1> HIDE DEF u, n
<1>3. clone' \in [Reg!CloneNames -> Urls \cup {Nothing}]
  BY <1>1, <1>2 DEF RegistryTyped
<1>4. /\ clone'[n] = IF clone[n] = Nothing THEN u ELSE clone[n]
      /\ \A m \in Reg!CloneNames \ {n} : clone'[m] = clone[m]
  BY <1>1, <1>2 DEF RegistryTyped
<1>5. Reg!CloneNames' = Reg!CloneNames /\ Reg!Committed' = Reg!Committed
  BY DEF Reg!CloneNames, Reg!Committed
<1>6. ASSUME NEW m \in Reg!CloneNames, clone'[m] # Nothing
      PROVE  \E j \in Reg!Committed : repo[j].url = clone'[m] /\ NameOf[repo[j].url] = m
  <2>1. CASE clone'[m] = clone[m]
    BY <1>6, <2>1 DEF ClonesKept
  <2>2. CASE clone'[m] # clone[m]
    <3>1. m = n /\ clone'[m] = u
      BY <1>4, <2>2
    <3> QED
      BY <3>1 DEF u, n
  <2> QED
    BY <2>1, <2>2
<1>7. ASSUME NEW j \in crawled', NameOf[repo[j].url] \notin removed
      PROVE  clone'[NameOf[repo[j].url]] # Nothing
  <2>1. CASE NameOf[repo[j].url] = n
    BY <1>1, <1>4, <2>1
  <2>2. CASE NameOf[repo[j].url] # n
    <3>1. j \in crawled /\ j \in Reg!Committed
      BY <2>2 DEF n, u, RegistryTyped
    <3>2. clone[NameOf[repo[j].url]] # Nothing /\ NameOf[repo[j].url] \in Reg!CloneNames
      BY <1>7, <3>1, CommittedRow DEF ClonesKept
    <3> QED
      BY <1>4, <2>2, <3>2
  <2> QED
    BY <2>1, <2>2
<1> QED
  BY <1>3, <1>5, <1>6, <1>7 DEF ClonesKept

LEMMA ImportKept == ASSUME RegistryInv, NEW r \in Requests, Reg!Import(r) PROVE RegistryInv'
<1>1. PICK urls \in Reg!BoundedSeq(Urls, MaxList) :
        repoRequest' = [repoRequest EXCEPT ![r] = [op |-> "import", todo |-> urls, fresh |-> <<>>]]
  BY DEF Reg!Import
<1> DEFINE v == [op |-> "import", todo |-> urls, fresh |-> <<>>]
<1>2. urls \in Seq(Urls)
  <2>1. PICK m \in 0 .. MaxList : urls \in [1 .. m -> Urls]
    BY <1>1 DEF Reg!BoundedSeq, Reg!SeqOf
  <2> QED
    BY <2>1
<1>3. DOMAIN <<>> = {} /\ <<>> \in NewRows
  <2>1. DOMAIN <<>> = {} /\ <<>> \in [{} -> Urls]
    OBVIOUS
  <2> QED
    BY <2>1 DEF NewRows
<1>4. v \in ImportRequest
  BY <1>2, <1>3 DEF ImportRequest
<1>5. UNCHANGED <<repo, started, crawled, pulls, clone, raced, removed>>
  BY DEF Reg!Import
<1>6. Reg!Committed' = Reg!Committed /\ Reg!Live' = Reg!Live /\ Reg!CloneNames' = Reg!CloneNames
  BY <1>5 DEF Reg!Committed, Reg!Live, Reg!CloneNames
<1>7. repoRequest' = [repoRequest EXCEPT ![r] = v]
  BY <1>1
<1>8. v.op = "import" /\ v.fresh = <<>>
  OBVIOUS
<1> HIDE DEF v
<1>9. /\ DOMAIN repoRequest' = Requests /\ repoRequest'[r] = v
      /\ \A q \in Requests \ {r} : repoRequest'[q] = repoRequest[q]
      /\ \A q \in Requests \ {r} : FreshIds(q)' = FreshIds(q)
      /\ \A q \in Requests \ {r} : \A i : FreshUrl(q, i)' = FreshUrl(q, i)
  BY <1>7, OthersFresh DEF RegistryInv
<1>10. FreshIds(r)' = {}
  BY <1>3, <1>8, <1>9 DEF FreshIds
<1>11. RegistryTyped'
  BY <1>4, <1>5, <1>6, <1>8, <1>9 DEF RegistryInv, RegistryTyped
<1>12. RowsApart'
  BY <1>5, <1>6, <1>9, <1>10, RowsStay DEF RegistryInv
<1>13. ClonesKept'
  BY <1>5, <1>6, ClonesFollow DEF RegistryInv
<1> QED
  BY <1>11, <1>12, <1>13 DEF RegistryInv

\* A request that ends, or goes on with something else than rows, leaves the rest.
LEMMA MoveOnKept ==
    ASSUME RegistryInv, NEW r \in Requests, NEW v, v.op # "import",
           v.op = "enqueue" => v \in [op : {"enqueue"}, ids : SUBSET Reg!Committed],
           repoRequest' = [repoRequest EXCEPT ![r] = v],
           UNCHANGED <<repo, started, crawled, pulls, clone, raced, removed>>
    PROVE  RegistryInv'
<1>1. Reg!Committed' = Reg!Committed /\ Reg!Live' = Reg!Live /\ Reg!CloneNames' = Reg!CloneNames
  BY DEF Reg!Committed, Reg!Live, Reg!CloneNames
<1>2. /\ DOMAIN repoRequest' = Requests /\ repoRequest'[r] = v
      /\ \A q \in Requests \ {r} : repoRequest'[q] = repoRequest[q]
      /\ \A q \in Requests \ {r} : FreshIds(q)' = FreshIds(q)
      /\ \A q \in Requests \ {r} : \A i : FreshUrl(q, i)' = FreshUrl(q, i)
      /\ FreshIds(r)' = {}
  BY OthersFresh DEF RegistryInv
<1>3. RegistryTyped'
  BY <1>1, <1>2 DEF RegistryInv, RegistryTyped
<1>4. RowsApart'
  BY <1>1, <1>2, RowsStay DEF RegistryInv
<1>5. ClonesKept'
  BY <1>1, ClonesFollow DEF RegistryInv
<1> QED
  BY <1>3, <1>4, <1>5 DEF RegistryInv

LEMMA ImportUpdated ==
    ASSUME NEW q \in ImportRequest, NEW t, NEW f
    PROVE  [q EXCEPT !.todo = t, !.fresh = f] = [op |-> "import", todo |-> t, fresh |-> f]
<1>1. q = [op |-> "import", todo |-> q.todo, fresh |-> q.fresh]
  BY DEF ImportRequest
<1>2. [q EXCEPT !.todo = t] = [op |-> "import", todo |-> t, fresh |-> q.fresh]
  BY <1>1
<1>3. [[q EXCEPT !.todo = t] EXCEPT !.fresh = f] = [op |-> "import", todo |-> t, fresh |-> f]
  <2>1. ASSUME NEW x, x = [op |-> "import", todo |-> t, fresh |-> q.fresh]
        PROVE  [x EXCEPT !.fresh = f] = [op |-> "import", todo |-> t, fresh |-> f]
    BY <2>1
  <2> QED
    BY <1>2, <2>1, Zenon
<1>4. [q EXCEPT !.todo = t, !.fresh = f] = [[q EXCEPT !.todo = t] EXCEPT !.fresh = f]
  OBVIOUS
<1> QED
  BY <1>3, <1>4

\* A row is flushed: unlike any live one or one of the same request, and if another request
\* is inserting its url, the url is raced.
LEMMA InsertKept ==
    ASSUME RegistryInv, NEW r \in Requests, NEW u \in Urls, NEW i \in Ids,
           repoRequest[r].op = "import", repoRequest[r].todo # <<>>,
           i \notin Reg!Committed, i \notin Reg!NewIds,
           Reg!Known(r, u) = {},
           repoRequest' = [repoRequest EXCEPT ![r].todo = Tail(@),
              ![r].fresh = [j \in DOMAIN @ \cup {i} |-> IF j = i THEN u ELSE @[j]]],
           raced' = IF Reg!Inserting(u) # {} THEN raced \cup {u} ELSE raced,
           UNCHANGED <<repo, started, crawled, pulls, clone, removed>>
    PROVE  RegistryInv'
<1> DEFINE old == repoRequest[r].fresh
           new == [j \in DOMAIN old \cup {i} |-> IF j = i THEN u ELSE old[j]]
           v == [op |-> "import", todo |-> Tail(repoRequest[r].todo), fresh |-> new]
<1>1. repoRequest[r] \in ImportRequest
  BY DEF RegistryInv, RegistryTyped
<1>2. PICK S \in SUBSET Ids : old \in [S -> Urls]
  BY <1>1 DEF ImportRequest, NewRows
<1>3. new \in [S \cup {i} -> Urls] /\ S \cup {i} \in SUBSET Ids
  BY <1>2
<1>4. new \in NewRows
  BY <1>3 DEF NewRows
<1>5. Tail(repoRequest[r].todo) \in Seq(Urls)
  BY <1>1 DEF ImportRequest
<1>6. v \in ImportRequest /\ v.op = "import" /\ v.fresh = new
  BY <1>4, <1>5 DEF ImportRequest
<1>7. repoRequest' = [repoRequest EXCEPT ![r] = v]
  <2>1. repoRequest' = [repoRequest EXCEPT ![r].todo = Tail(repoRequest[r].todo), ![r].fresh = new]
    OBVIOUS
  <2> HIDE DEF new, old
  <2>2. v = [repoRequest[r] EXCEPT !.todo = Tail(repoRequest[r].todo), !.fresh = new]
    BY <1>1, ImportUpdated
  <2> HIDE DEF v
  <2>3. repoRequest' = [repoRequest EXCEPT ![r] =
                           [repoRequest[r] EXCEPT !.todo = Tail(repoRequest[r].todo), !.fresh = new]]
    BY <2>1
  <2> QED
    BY <2>2, <2>3
<1>8. FreshIds(r) = DOMAIN old /\ \A j : FreshUrl(r, j) = old[j]
  BY DEF FreshIds, FreshUrl
<1>9. /\ DOMAIN new = FreshIds(r) \cup {i} /\ new[i] = u
      /\ \A j \in FreshIds(r) : j # i => new[j] = old[j]
  BY <1>8
<1> HIDE DEF v, new, old
<1>10. /\ DOMAIN repoRequest' = Requests /\ repoRequest'[r] = v
       /\ \A q \in Requests \ {r} : repoRequest'[q] = repoRequest[q]
       /\ \A q \in Requests \ {r} : FreshIds(q)' = FreshIds(q)
       /\ \A q \in Requests \ {r} : \A j : FreshUrl(q, j)' = FreshUrl(q, j)
  BY <1>7, OthersFresh DEF RegistryInv
<1>11. FreshIds(r)' = FreshIds(r) \cup {i} /\ \A j : FreshUrl(r, j)' = new[j]
  BY <1>6, <1>9, <1>10 DEF FreshIds, FreshUrl
<1>12. i \notin UNION {FreshIds(q) : q \in Requests}
  BY DEF FreshIds, Reg!NewIds
<1>13. FreshUrl(r, i)' = u /\ \A j \in FreshIds(r) : FreshUrl(r, j)' = FreshUrl(r, j)
  BY <1>8, <1>9, <1>11, <1>12
<1>14. /\ \A j \in Reg!Live : repo[j].url # u
       /\ \A j \in FreshIds(r) : FreshUrl(r, j) # u
  BY DEF Reg!Known, FreshIds, FreshUrl
<1>15. ASSUME NEW q \in Requests \ {r}, NEW j \in FreshIds(q), FreshUrl(q, j) = u PROVE u \in raced'
  <2>1. q \in Reg!Inserting(u)
    BY <1>15 DEF Reg!Inserting, FreshIds, FreshUrl
  <2> QED
    BY <2>1
<1>16. raced \subseteq raced'
  OBVIOUS
<1>17. Reg!Committed' = Reg!Committed /\ Reg!Live' = Reg!Live /\ Reg!CloneNames' = Reg!CloneNames
  BY DEF Reg!Committed, Reg!Live, Reg!CloneNames
<1>18. RegistryTyped'
  BY <1>6, <1>10, <1>17 DEF RegistryInv, RegistryTyped
<1>19. ASSUME NEW q \in Requests, NEW j \in FreshIds(q)'
       PROVE  \/ q = r /\ j = i /\ FreshUrl(q, j)' = u
              \/ j # i /\ j \in FreshIds(q) /\ FreshUrl(q, j)' = FreshUrl(q, j)
  BY <1>10, <1>11, <1>12, <1>13
<1>20. /\ \A q \in Requests : FreshIds(q)' \cap Reg!Committed' = {}
       /\ \A q, p \in Requests : q # p => FreshIds(q)' \cap FreshIds(p)' = {}
  BY <1>10, <1>11, <1>12, <1>17 DEF RegistryInv, RowsApart
<1>21. ASSUME NEW q \in Requests, NEW p \in Requests, NEW j \in FreshIds(q)', NEW k \in FreshIds(p)',
              j # k, FreshUrl(q, j)' = FreshUrl(p, k)'
       PROVE  FreshUrl(q, j)' \in raced'
  <2>1. CASE j = i \/ k = i
    <3>1. FreshUrl(q, j)' = u /\ FreshUrl(p, k)' = u
      BY <1>19, <1>21, <2>1
    <3>2. PICK s \in Requests : \E l \in FreshIds(s) : FreshUrl(s, l) = u
      BY <1>19, <1>21, <3>1
    <3>3. PICK l \in FreshIds(s) : FreshUrl(s, l) = u
      BY <3>2
    <3>4. s # r
      BY <1>14, <3>3
    <3> QED
      BY <1>15, <3>1, <3>3, <3>4
  <2>2. CASE j # i /\ k # i
    <3>1. /\ j \in FreshIds(q) /\ FreshUrl(q, j)' = FreshUrl(q, j)
          /\ k \in FreshIds(p) /\ FreshUrl(p, k)' = FreshUrl(p, k)
      BY <1>19, <2>2
    <3>2. FreshUrl(q, j) = FreshUrl(p, k)
      BY <1>21, <3>1
    <3>3. FreshUrl(q, j) \in raced
      BY <1>21, <3>1, <3>2 DEF RegistryInv, RowsApart
    <3> QED
      BY <1>16, <3>1, <3>3
  <2> QED
    BY <2>1, <2>2
<1>22. ASSUME NEW q \in Requests, NEW j \in FreshIds(q)', NEW k \in Reg!Live, repo[k].url = FreshUrl(q, j)'
       PROVE  repo[k].url \in raced'
  <2>1. j \in FreshIds(q) /\ repo[k].url = FreshUrl(q, j)
    BY <1>14, <1>19, <1>22
  <2> QED
    BY <1>16, <2>1 DEF RegistryInv, RowsApart
<1>23. RowsApart'
  <2>1. \A j, k \in Reg!Live' : j # k /\ repo'[j].url = repo'[k].url => repo'[j].url \in raced'
    BY <1>16, <1>17 DEF RegistryInv, RowsApart
  <2>2. \A q \in Requests : \A j \in FreshIds(q)', k \in Reg!Live' :
          repo'[k].url = FreshUrl(q, j)' => repo'[k].url \in raced'
    BY <1>17, <1>22
  <2> QED
    BY <1>20, <1>21, <2>1, <2>2 DEF RowsApart
<1>24. ClonesKept'
  BY <1>17, ClonesFollow DEF RegistryInv
<1> QED
  BY <1>18, <1>23, <1>24 DEF RegistryInv

LEMMA FlushKept == ASSUME RegistryInv, NEW r \in Requests, Reg!Flush(r) PROVE RegistryInv'
<1> DEFINE u == Head(repoRequest[r].todo)
<1>1. repoRequest[r] \in ImportRequest /\ repoRequest[r].todo # <<>> /\ repoRequest[r].op = "import"
  BY DEF Reg!Flush, RegistryInv, RegistryTyped
<1>2. repoRequest[r].todo \in Seq(Urls) /\ u \in Urls /\ Tail(repoRequest[r].todo) \in Seq(Urls)
  BY <1>1 DEF ImportRequest
<1>3. UNCHANGED <<repo, started, crawled, pulls, clone, removed>>
  BY DEF Reg!Flush
<1> HIDE DEF u
<1>4. CASE repoRequest' = [repoRequest EXCEPT ![r] = Reg!Idle] /\ raced' = raced
  BY <1>3, <1>4, MoveOnKept DEF Reg!Idle
<1>5. CASE repoRequest' = [repoRequest EXCEPT ![r].todo = Tail(@)] /\ raced' = raced
  <2> DEFINE v == [repoRequest[r] EXCEPT !.todo = Tail(repoRequest[r].todo)]
  <2>1. v \in ImportRequest /\ v.op = "import" /\ v.fresh = repoRequest[r].fresh
    BY <1>1, <1>2 DEF ImportRequest
  <2>2. repoRequest' = [repoRequest EXCEPT ![r] = v]
    BY <1>5
  <2> HIDE DEF v
  <2>3. /\ DOMAIN repoRequest' = Requests /\ repoRequest'[r] = v
        /\ \A q \in Requests \ {r} : repoRequest'[q] = repoRequest[q]
        /\ \A q \in Requests \ {r} : FreshIds(q)' = FreshIds(q)
        /\ \A q \in Requests \ {r} : \A i : FreshUrl(q, i)' = FreshUrl(q, i)
    BY <2>2, OthersFresh DEF RegistryInv
  <2>4. FreshIds(r)' = FreshIds(r) /\ \A i : FreshUrl(r, i)' = FreshUrl(r, i)
    BY <1>1, <2>1, <2>3 DEF FreshIds, FreshUrl
  <2>5. Reg!Committed' = Reg!Committed /\ Reg!Live' = Reg!Live /\ Reg!CloneNames' = Reg!CloneNames
    BY <1>3 DEF Reg!Committed, Reg!Live, Reg!CloneNames
  <2>6. RegistryTyped'
    BY <1>3, <2>1, <2>3, <2>5 DEF RegistryInv, RegistryTyped
  <2>7. RowsApart'
    BY <1>3, <1>5, <2>3, <2>4, <2>5, RowsStay DEF RegistryInv
  <2>8. ClonesKept'
    BY <1>3, <2>5, ClonesFollow DEF RegistryInv
  <2> QED
    BY <2>6, <2>7, <2>8 DEF RegistryInv
<1>6. CASE /\ Reg!Known(r, u) = {}
           /\ \E i \in Ids \ (Reg!Committed \cup Reg!NewIds) :
                 repoRequest' = [repoRequest EXCEPT ![r].todo = Tail(@),
                    ![r].fresh = [j \in DOMAIN @ \cup {i} |-> IF j = i THEN u ELSE @[j]]]
           /\ raced' = IF Reg!Inserting(u) # {} THEN raced \cup {u} ELSE raced
  <2>1. PICK i \in Ids \ (Reg!Committed \cup Reg!NewIds) :
          repoRequest' = [repoRequest EXCEPT ![r].todo = Tail(@),
             ![r].fresh = [j \in DOMAIN @ \cup {i} |-> IF j = i THEN u ELSE @[j]]]
    BY <1>6
  <2> QED
    BY <1>1, <1>2, <1>3, <1>6, <2>1, InsertKept
<1> QED
  BY <1>4, <1>5, <1>6 DEF Reg!Flush, u

LEMMA CommitKept == ASSUME RegistryInv, NEW r \in Requests, Reg!Commit(r) PROVE RegistryInv'
<1>1. repoRequest[r].op = "import" /\ UNCHANGED <<started, crawled, pulls, clone, raced, removed>>
  BY DEF Reg!Commit
<1>2. CASE repoRequest' = [repoRequest EXCEPT ![r] = Reg!Idle] /\ repo' = repo
  BY <1>1, <1>2, MoveOnKept DEF Reg!Idle
<1>3. CASE /\ repo' = [i \in Ids |-> IF i \in DOMAIN repoRequest[r].fresh
                          THEN [url |-> repoRequest[r].fresh[i], live |-> TRUE] ELSE repo[i]]
           /\ repoRequest' = [repoRequest EXCEPT ![r] =
                                 [op |-> "enqueue", ids |-> DOMAIN repoRequest[r].fresh]]
  <2> DEFINE v == [op |-> "enqueue", ids |-> FreshIds(r)]
             N == FreshIds(r)
  <2>1. /\ repoRequest' = [repoRequest EXCEPT ![r] = v] /\ v.op = "enqueue" /\ v.op # "import"
        /\ v \in [op : {"enqueue"}, ids : {N}]
    BY <1>1, <1>3 DEF FreshIds
  <2>2. /\ N \subseteq Ids /\ \A i \in N : FreshUrl(r, i) \in Urls
    BY FreshRow DEF RegistryInv
  <2>3. /\ repo' = [i \in Ids |-> IF i \in N THEN [url |-> FreshUrl(r, i), live |-> TRUE] ELSE repo[i]]
    BY <1>1, <1>3 DEF FreshIds, FreshUrl
  <2> HIDE DEF N, v
  <2>4. /\ repo' \in [Ids -> [url : Urls, live : BOOLEAN] \cup {Nothing}]
        /\ \A i \in N : repo'[i] = [url |-> FreshUrl(r, i), live |-> TRUE]
        /\ \A i \in Ids \ N : repo'[i] = repo[i]
    BY <2>2, <2>3 DEF RegistryInv, RegistryTyped
  <2>5. N \cap Reg!Committed = {}
    BY DEF N, RegistryInv, RowsApart
  <2>6. ASSUME NEW i \in N PROVE repo'[i] # Nothing /\ repo'[i].live /\ repo'[i].url = FreshUrl(r, i)
    <3>1. [url |-> FreshUrl(r, i), live |-> TRUE] \in [url : Urls, live : BOOLEAN]
      BY <2>2
    <3>2. repo'[i] = [url |-> FreshUrl(r, i), live |-> TRUE]
      BY <2>4
    <3>3. repo'[i] # Nothing
      BY <3>1, <3>2, RegistryAssumption
    <3>4. repo'[i].live /\ repo'[i].url = FreshUrl(r, i)
      BY <3>2
    <3> QED
      BY <3>3, <3>4
  <2>7. Reg!Committed' = Reg!Committed \cup N
    BY <2>2, <2>4, <2>6 DEF Reg!Committed
  <2>8. Reg!Live' = Reg!Live \cup N
    <3>1. Reg!Live \subseteq Reg!Committed /\ Reg!Committed \subseteq Ids
      BY DEF Reg!Live, Reg!Committed
    <3>2. ASSUME NEW i \in Reg!Live' PROVE i \in Reg!Live \cup N
      BY <2>2, <2>4, <2>7, <3>1 DEF Reg!Live
    <3>3. ASSUME NEW i \in Reg!Live \cup N PROVE i \in Reg!Live'
      BY <2>2, <2>4, <2>5, <2>6, <2>7, <3>1 DEF Reg!Live
    <3> QED
      BY <3>2, <3>3
  <2>9. \A i \in Reg!Committed : repo'[i] = repo[i]
    BY <2>4, <2>5 DEF Reg!Committed
  <2>10. /\ DOMAIN repoRequest' = Requests /\ repoRequest'[r] = v
         /\ \A q \in Requests \ {r} : repoRequest'[q] = repoRequest[q]
         /\ \A q \in Requests \ {r} : FreshIds(q)' = FreshIds(q)
         /\ \A q \in Requests \ {r} : \A i : FreshUrl(q, i)' = FreshUrl(q, i)
         /\ FreshIds(r)' = {}
    BY <2>1, OthersFresh DEF RegistryInv
  <2>11. RegistryTyped'
    <3>1. Reg!CloneNames' = Reg!CloneNames
      BY DEF Reg!CloneNames
    <3>2. v \in [op : {"enqueue"}, ids : SUBSET Reg!Committed']
      BY <2>1, <2>7
    <3>3. ASSUME NEW q \in Requests \ {r}, repoRequest[q].op = "enqueue"
          PROVE  repoRequest[q] \in [op : {"enqueue"}, ids : SUBSET Reg!Committed']
      BY <2>7, <3>3 DEF RegistryInv, RegistryTyped
    <3> QED
      BY <1>1, <2>1, <2>4, <2>7, <2>10, <3>1, <3>2, <3>3 DEF RegistryInv, RegistryTyped
  <2>12. RowsApart'
    <3>1. \A q \in Requests : FreshIds(q)' \subseteq FreshIds(q)
      BY <2>10
    <3>2. \A q \in Requests : \A i \in FreshIds(q)' : q # r /\ FreshUrl(q, i)' = FreshUrl(q, i)
      BY <2>10
    <3>3. /\ \A q \in Requests : FreshIds(q)' \cap Reg!Committed' = {}
          /\ \A q, p \in Requests : q # p => FreshIds(q)' \cap FreshIds(p)' = {}
      BY <2>7, <3>1, <3>2 DEF N, RegistryInv, RowsApart
    <3>4. ASSUME NEW q \in Requests, NEW p \in Requests, NEW j \in FreshIds(q)', NEW k \in FreshIds(p)',
                 j # k, FreshUrl(q, j)' = FreshUrl(p, k)'
          PROVE  FreshUrl(q, j)' \in raced'
      <4>1. j \in FreshIds(q) /\ k \in FreshIds(p) /\ FreshUrl(q, j) = FreshUrl(p, k)
        BY <3>1, <3>2, <3>4
      <4>2. FreshUrl(q, j) \in raced
        BY <3>4, <4>1 DEF RegistryInv, RowsApart
      <4> QED
        BY <1>1, <3>2, <4>2
    <3>5. ASSUME NEW q \in Requests, NEW j \in FreshIds(q)', NEW k \in Reg!Live',
                 repo'[k].url = FreshUrl(q, j)'
          PROVE  repo'[k].url \in raced'
      <4>1. j \in FreshIds(q) /\ q # r /\ repo'[k].url = FreshUrl(q, j)
        BY <3>1, <3>2, <3>5
      <4>2. CASE k \in N
        <5>1. k # j /\ FreshUrl(r, k) = FreshUrl(q, j) /\ repo'[k].url = FreshUrl(r, k)
          BY <2>6, <4>1, <4>2 DEF N, RegistryInv, RowsApart
        <5>2. FreshUrl(r, k) \in raced
          BY <4>1, <4>2, <5>1 DEF N, RegistryInv, RowsApart
        <5> QED
          BY <1>1, <5>1, <5>2
      <4>3. CASE k \notin N
        <5>1. k \in Reg!Live /\ repo'[k] = repo[k]
          BY <2>8, <2>9, <4>3 DEF Reg!Live
        <5> QED
          BY <1>1, <4>1, <5>1 DEF RegistryInv, RowsApart
      <4> QED
        BY <4>2, <4>3
    <3>6. ASSUME NEW j \in Reg!Live', NEW k \in N, j # k, repo'[j].url = repo'[k].url
          PROVE  repo'[j].url \in raced'
      <4>1. repo'[k].url = FreshUrl(r, k)
        BY <2>6
      <4>2. CASE j \in N
        BY <1>1, <2>6, <3>6, <4>1, <4>2 DEF N, RegistryInv, RowsApart
      <4>3. CASE j \notin N
        <5>1. j \in Reg!Live /\ repo'[j] = repo[j]
          BY <2>8, <2>9, <4>3 DEF Reg!Live
        <5> QED
          BY <1>1, <3>6, <4>1, <5>1 DEF N, RegistryInv, RowsApart
      <4> QED
        BY <4>2, <4>3
    <3>7. ASSUME NEW j \in Reg!Live', NEW k \in Reg!Live', j # k, repo'[j].url = repo'[k].url
          PROVE  repo'[j].url \in raced'
      <4>1. CASE j \in N \/ k \in N
        BY <3>6, <3>7, <4>1
      <4>2. CASE j \notin N /\ k \notin N
        <5>1. j \in Reg!Live /\ repo'[j] = repo[j] /\ k \in Reg!Live /\ repo'[k] = repo[k]
          BY <2>8, <2>9, <4>2 DEF Reg!Live
        <5> QED
          BY <1>1, <3>7, <5>1 DEF RegistryInv, RowsApart
      <4> QED
        BY <4>1, <4>2
    <3> QED
      BY <3>3, <3>4, <3>5, <3>7 DEF RowsApart
  <2>13. ClonesKept'
    BY <1>1, <2>7, <2>9, ClonesFollow DEF RegistryInv
  <2> QED
    BY <2>11, <2>12, <2>13 DEF RegistryInv
<1> QED
  BY <1>2, <1>3 DEF Reg!Commit

LEMMA EnqueueKept ==
    ASSUME RegistryInv, NEW r \in Requests, Reg!Retry(r) \/ Reg!StartOnboarding(r)
    PROVE  RegistryInv'
<1>1. CASE Reg!Retry(r)
  <2>1. PICK i \in Reg!Live : repoRequest' = [repoRequest EXCEPT ![r] = [op |-> "enqueue", ids |-> {i}]]
    BY <1>1 DEF Reg!Retry
  <2>2. /\ [op |-> "enqueue", ids |-> {i}] \in [op : {"enqueue"}, ids : SUBSET Reg!Committed]
        /\ [op |-> "enqueue", ids |-> {i}].op # "import"
    BY DEF Reg!Live
  <2>3. UNCHANGED <<repo, started, crawled, pulls, clone, raced, removed>>
    BY <1>1 DEF Reg!Retry
  <2> QED
    BY <2>1, <2>2, <2>3, MoveOnKept
<1>2. CASE repoRequest' = [repoRequest EXCEPT ![r] = Reg!Idle]
           /\ UNCHANGED <<repo, started, crawled, pulls, clone, raced, removed>>
  BY <1>2, MoveOnKept DEF Reg!Idle
<1>3. CASE repoRequest[r].op = "enqueue" /\ UNCHANGED <<repo, pulls, clone, raced, removed>> /\
           \E i \in repoRequest[r].ids :
              /\ started' = started \cup {i} /\ crawled' = crawled \ {i}
              /\ repoRequest' = [repoRequest EXCEPT ![r].ids = @ \ {i}]
  <2>1. PICK i \in repoRequest[r].ids :
          /\ started' = started \cup {i} /\ crawled' = crawled \ {i}
          /\ repoRequest' = [repoRequest EXCEPT ![r].ids = @ \ {i}]
    BY <1>3
  <2>2. repoRequest[r] \in [op : {"enqueue"}, ids : SUBSET Reg!Committed]
    BY <1>3 DEF RegistryInv, RegistryTyped
  <2> DEFINE v == [repoRequest[r] EXCEPT !.ids = repoRequest[r].ids \ {i}]
  <2>3. /\ v \in [op : {"enqueue"}, ids : SUBSET Reg!Committed] /\ v.op # "import"
        /\ repoRequest' = [repoRequest EXCEPT ![r] = v]
    BY <2>1, <2>2
  <2> HIDE DEF v
  <2>4. Reg!Committed' = Reg!Committed /\ Reg!Live' = Reg!Live /\ Reg!CloneNames' = Reg!CloneNames
    BY <1>3 DEF Reg!Committed, Reg!Live, Reg!CloneNames
  <2>5. /\ DOMAIN repoRequest' = Requests /\ repoRequest'[r] = v
        /\ \A q \in Requests \ {r} : repoRequest'[q] = repoRequest[q]
        /\ \A q \in Requests \ {r} : FreshIds(q)' = FreshIds(q)
        /\ \A q \in Requests \ {r} : \A j : FreshUrl(q, j)' = FreshUrl(q, j)
        /\ FreshIds(r)' = {}
    BY <2>3, OthersFresh DEF RegistryInv
  <2>6. i \in Reg!Committed
    BY <2>2
  <2>7. RegistryTyped'
    BY <1>3, <2>1, <2>3, <2>4, <2>5, <2>6 DEF RegistryInv, RegistryTyped
  <2>8. RowsApart'
    BY <1>3, <2>4, <2>5, RowsStay DEF RegistryInv
  <2>9. ClonesKept'
    BY <1>3, <2>1, <2>4, ClonesFollow DEF RegistryInv
  <2> QED
    BY <2>7, <2>8, <2>9 DEF RegistryInv
<1> QED
  BY <1>1, <1>2, <1>3 DEF Reg!StartOnboarding

LEMMA DeleteRowsKept == ASSUME RegistryInv, NEW r \in Requests, Reg!DeleteRows(r) PROVE RegistryInv'
<1>1. PICK i \in Reg!Live :
        /\ repo' = [repo EXCEPT ![i].live = FALSE]
        /\ repoRequest' = [repoRequest EXCEPT ![r] = [op |-> "remove", name |-> NameOf[repo[i].url]]]
  BY DEF Reg!DeleteRows
<1> DEFINE v == [op |-> "remove", name |-> NameOf[repo[i].url]]
<1>2. repoRequest' = [repoRequest EXCEPT ![r] = v] /\ v.op = "remove" /\ v.op # "import"
  BY <1>1
<1> HIDE DEF v
<1>3. i \in Reg!Committed /\ i \in Ids /\ repo[i] \in [url : Urls, live : BOOLEAN]
  BY CommittedRow DEF Reg!Live, RegistryInv
<1>4. /\ repo' \in [Ids -> [url : Urls, live : BOOLEAN] \cup {Nothing}]
      /\ repo'[i] \in [url : Urls, live : BOOLEAN] /\ repo'[i].url = repo[i].url /\ ~ repo'[i].live
      /\ \A j \in Ids : j # i => repo'[j] = repo[j]
  <2>1. [repo[i] EXCEPT !.live = FALSE] \in [url : Urls, live : BOOLEAN]
    BY <1>3
  <2> QED
    BY <1>1, <1>3, <2>1 DEF RegistryInv, RegistryTyped
<1>5. Reg!Committed' = Reg!Committed
  BY <1>3, <1>4, RegistryAssumption DEF Reg!Committed
<1>6. Reg!Live' \subseteq Reg!Live /\ \A j \in Reg!Committed : repo'[j].url = repo[j].url
  BY <1>4, <1>5 DEF Reg!Live, Reg!Committed
<1>7. UNCHANGED <<started, crawled, pulls, clone, raced, removed>> /\ Reg!CloneNames' = Reg!CloneNames
  BY DEF Reg!DeleteRows, Reg!CloneNames
<1>8. /\ DOMAIN repoRequest' = Requests /\ repoRequest'[r] = v
      /\ \A q \in Requests \ {r} : repoRequest'[q] = repoRequest[q]
      /\ \A q \in Requests \ {r} : FreshIds(q)' = FreshIds(q)
      /\ \A q \in Requests \ {r} : \A j : FreshUrl(q, j)' = FreshUrl(q, j)
      /\ FreshIds(r)' = {}
  BY <1>2, OthersFresh DEF RegistryInv
<1>9. RegistryTyped'
  BY <1>2, <1>4, <1>5, <1>7, <1>8 DEF RegistryInv, RegistryTyped
<1>10. RowsApart'
  <2>1. \A j \in Reg!Live' : repo'[j].url = repo[j].url
    BY <1>5, <1>6 DEF Reg!Live
  <2> QED
    BY <1>5, <1>6, <1>7, <1>8, <2>1, RowsStay DEF RegistryInv
<1>11. ClonesKept'
  BY <1>5, <1>6, <1>7, ClonesFollow DEF RegistryInv
<1> QED
  BY <1>9, <1>10, <1>11 DEF RegistryInv

LEMMA RemoveCheckoutKept ==
    ASSUME RegistryInv, NEW r \in Requests, Reg!RemoveCheckout(r) PROVE RegistryInv'
<1> DEFINE n == repoRequest[r].name
<1>1. /\ clone' \in {clone, [clone EXCEPT ![n] = Nothing]}
      /\ removed' = removed \cup {n}
      /\ repoRequest' = [repoRequest EXCEPT ![r] = Reg!Idle] /\ Reg!Idle.op = "idle"
      /\ UNCHANGED <<repo, started, crawled, pulls, raced>>
  BY DEF Reg!RemoveCheckout, Reg!Idle
<1> HIDE DEF n
<1>2. Reg!Committed' = Reg!Committed /\ Reg!Live' = Reg!Live /\ Reg!CloneNames' = Reg!CloneNames
  BY <1>1 DEF Reg!Committed, Reg!Live, Reg!CloneNames
<1>3. /\ DOMAIN repoRequest' = Requests /\ repoRequest'[r] = Reg!Idle
      /\ \A q \in Requests \ {r} : repoRequest'[q] = repoRequest[q]
      /\ \A q \in Requests \ {r} : FreshIds(q)' = FreshIds(q)
      /\ \A q \in Requests \ {r} : \A j : FreshUrl(q, j)' = FreshUrl(q, j)
      /\ FreshIds(r)' = {}
  BY <1>1, OthersFresh DEF RegistryInv
<1>4. /\ clone' \in [Reg!CloneNames -> Urls \cup {Nothing}]
      /\ \A m \in Reg!CloneNames : clone'[m] # Nothing => clone'[m] = clone[m]
      /\ \A m \in Reg!CloneNames : m # n => clone'[m] = clone[m]
  BY <1>1 DEF RegistryInv, RegistryTyped
<1>5. RegistryTyped'
  BY <1>1, <1>2, <1>3, <1>4 DEF RegistryInv, RegistryTyped
<1>6. RowsApart'
  BY <1>1, <1>2, <1>3, RowsStay DEF RegistryInv
<1>7. ASSUME NEW i \in crawled, NameOf[repo[i].url] \notin removed'
      PROVE  clone'[NameOf[repo[i].url]] # Nothing
  <2>1. NameOf[repo[i].url] \in Reg!CloneNames
    BY CommittedRow DEF RegistryInv, RegistryTyped
  <2>2. clone[NameOf[repo[i].url]] # Nothing
    BY <1>1, <1>7 DEF RegistryInv, ClonesKept
  <2> QED
    BY <1>1, <1>4, <1>7, <2>1, <2>2
<1>8. ClonesKept'
  BY <1>1, <1>2, <1>4, <1>7 DEF RegistryInv, ClonesKept
<1> QED
  BY <1>5, <1>6, <1>8 DEF RegistryInv

\* The steps of the workers leave rows and requests alone.
LEMMA WorkersKept ==
    ASSUME RegistryInv, UNCHANGED <<repo, repoRequest, raced>>,
           clone' \in [Reg!CloneNames -> Urls \cup {Nothing}],
           crawled' \subseteq started', started' = started, pulls' \subseteq Reg!Committed, ClonesKept'
    PROVE  RegistryInv'
<1>1. /\ Reg!Committed' = Reg!Committed /\ Reg!Live' = Reg!Live /\ Reg!CloneNames' = Reg!CloneNames
      /\ \A r : FreshIds(r)' = FreshIds(r) /\ \A i : FreshUrl(r, i)' = FreshUrl(r, i)
  BY DEF Reg!Committed, Reg!Live, Reg!CloneNames, FreshIds, FreshUrl
<1>2. RegistryTyped'
  BY <1>1 DEF RegistryInv, RegistryTyped
<1>3. RowsApart'
  BY <1>1, RowsStay DEF RegistryInv
<1> QED
  BY <1>2, <1>3 DEF RegistryInv

LEMMA RegistryKept == RegistryInv /\ [Reg!Next]_registryVars => RegistryInv'
<1> SUFFICES ASSUME RegistryInv, [Reg!Next]_registryVars PROVE RegistryInv'
  OBVIOUS
<1>1. CASE Reg!Crawl
  <2>1. PICK i \in started \ crawled :
          Reg!CloneOrPull(repo[i].url) /\ crawled' = crawled \cup {i}
    BY <1>1 DEF Reg!Crawl
  <2>2. UNCHANGED <<repo, repoRequest, started, pulls, raced, removed>>
    BY <1>1 DEF Reg!Crawl
  <2>3. i \in Reg!Committed /\ crawled' \subseteq started' /\ pulls' \subseteq Reg!Committed
    BY <2>1, <2>2 DEF RegistryInv, RegistryTyped
  <2>4. ClonesKept' /\ clone' \in [Reg!CloneNames -> Urls \cup {Nothing}]
    BY <2>1, <2>2, <2>3, PullKeeps DEF RegistryInv
  <2> QED
    BY <2>2, <2>3, <2>4, WorkersKept
<1>2. CASE Reg!BeginPull
  <2>1. pulls' = Reg!Live /\ UNCHANGED <<repo, repoRequest, started, crawled, clone, raced, removed>>
    BY <1>2 DEF Reg!BeginPull
  <2>2. Reg!Committed' = Reg!Committed /\ pulls' \subseteq Reg!Committed
    BY <2>1 DEF Reg!Live, Reg!Committed
  <2>3. ClonesKept'
    BY <2>1, <2>2, ClonesFollow DEF RegistryInv
  <2> QED
    BY <2>1, <2>2, <2>3, WorkersKept DEF RegistryInv, RegistryTyped
<1>3. CASE Reg!PullOne
  <2>1. PICK i \in pulls : pulls' = pulls \ {i} /\ (Reg!CloneOrPull(repo[i].url) \/ UNCHANGED clone)
    BY <1>3 DEF Reg!PullOne
  <2>2. UNCHANGED <<repo, repoRequest, started, crawled, raced, removed>>
    BY <1>3 DEF Reg!PullOne
  <2>3. i \in Reg!Committed /\ crawled' \subseteq started' /\ pulls' \subseteq Reg!Committed
    BY <2>1, <2>2 DEF RegistryInv, RegistryTyped
  <2>4. ClonesKept' /\ clone' \in [Reg!CloneNames -> Urls \cup {Nothing}]
    <3>1. CASE Reg!CloneOrPull(repo[i].url)
      BY <2>2, <2>3, <3>1, PullKeeps DEF RegistryInv
    <3>2. CASE UNCHANGED clone
      <4>1. Reg!Committed' = Reg!Committed
        BY <2>2 DEF Reg!Committed
      <4> QED
        BY <2>2, <3>2, <4>1, ClonesFollow DEF RegistryInv, RegistryTyped
    <3> QED
      BY <2>1, <3>1, <3>2
  <2> QED
    BY <2>2, <2>3, <2>4, WorkersKept
<1>4. CASE UNCHANGED registryVars
  <2>1. UNCHANGED <<repo, repoRequest, started, crawled, pulls, clone, raced, removed>>
    BY <1>4 DEF registryVars
  <2>2. Reg!Committed' = Reg!Committed
    BY <2>1 DEF Reg!Committed
  <2>3. ClonesKept'
    BY <2>1, <2>2, ClonesFollow DEF RegistryInv
  <2> QED
    BY <2>1, <2>3, WorkersKept DEF RegistryInv, RegistryTyped
<1> QED
  BY <1>1, <1>2, <1>3, <1>4, ImportKept, FlushKept, CommitKept, EnqueueKept, DeleteRowsKept,
     RemoveCheckoutKept DEF Reg!Next

\* Pipelines are enqueued for committed rows, a url has two rows only after a race, and what
\* was crawled is the repository the agent is told it is, unless its directory is shared or
\* was deleted (add_repos_bulk, delete_repo, clone_or_pull, reconcile_repos).
THEOREM ServicesRegistrySound == Spec => []RegistrySound
<1>1. ASSUME RegistryInv, NEW i \in crawled \cap Reg!Live, ~ Reg!Disputed(NameOf[repo[i].url])
      PROVE  /\ clone[NameOf[repo[i].url]] = repo[i].url
             /\ Reg!ToldRemotes(NameOf[repo[i].url]) = {clone[NameOf[repo[i].url]]}
  <2> DEFINE n == NameOf[repo[i].url]
             same == {j \in Reg!Committed : NameOf[repo[j].url] = n}
             urls == {repo[j].url : j \in same}
  <2>1. i \in Reg!Committed /\ n \in Reg!CloneNames
    BY <1>1, CommittedRow DEF Reg!Live, RegistryInv
  <2>2. IsFiniteSet(urls)
    <3>1. same \subseteq Ids
      BY DEF Reg!Committed
    <3>2. IsFiniteSet(same)
      BY <3>1, RegistryAssumption, FS_Subset
    <3> DEFINE url == [j \in same |-> repo[j].url]
    <3>3. url \in Surjection(same, urls)
      BY DEF Surjection
    <3> HIDE DEF same, urls, url
    <3> QED
      BY <3>2, <3>3, FS_Surjection
  <2>3. n \notin removed /\ ~ (Cardinality(urls) > 1)
    BY <1>1, RegistryCardinality DEF Reg!Disputed
  <2>4. clone[n] # Nothing
    BY <1>1, <2>3 DEF RegistryInv, ClonesKept
  <2>5. PICK j \in Reg!Committed : repo[j].url = clone[n] /\ NameOf[repo[j].url] = n
    BY <1>1, <2>1, <2>4 DEF RegistryInv, ClonesKept
  <2>6. \A k \in same : repo[k].url \in urls
    OBVIOUS
  <2>7. repo[i].url \in urls /\ clone[n] \in urls
    BY <2>1, <2>5, <2>6
  <2> HIDE DEF urls
  <2>8. \A x, y \in urls : x = y
    BY <2>2, <2>3, AtMostOne
  <2>9. clone[n] = repo[i].url
    BY <2>7, <2>8
  <2>10. \A u \in Reg!ToldRemotes(n) : u \in urls
    BY <2>6 DEF Reg!ToldRemotes, Reg!Live
  <2>11. repo[i].url \in Reg!ToldRemotes(n)
    BY DEF Reg!ToldRemotes
  <2> QED
    BY <2>7, <2>8, <2>9, <2>10, <2>11
<1>2. RegistryInv => RegistrySound
  <2> SUFFICES ASSUME RegistryInv PROVE Reg!RegistrySound
    BY DEF RegistrySound
  <2>1. started \subseteq Reg!Committed
    BY DEF RegistryInv, RegistryTyped
  <2>2. \A i, j \in Reg!Live : i # j /\ repo[i].url = repo[j].url => repo[i].url \in raced
    BY DEF RegistryInv, RowsApart
  <2> QED
    BY <1>1, <2>1, <2>2 DEF Reg!RegistrySound
<1> QED
  BY <1>2, RegistryInit, RegistryStep, RegistryKept, PTL DEF Spec

-----------------------------------------------------------------------------
(* Type correctness, component by component.                                 *)

LEMMA PluginsTyped == RegistryHonest /\ Plu!TypeOK /\ [Plu!Next]_pluginVars => Plu!TypeOK'
<1> SUFFICES ASSUME RegistryHonest, Plu!TypeOK, [Plu!Next]_pluginVars PROVE Plu!TypeOK'
  OBVIOUS
<1>1. /\ onDisk \subseteq Manifests /\ importable \subseteq Manifests /\ pluginsOff \subseteq Plu!PluginNames
      /\ \A n \in Plu!PluginNames : registry[n] = Nothing \/ registry[n] \in Plu!Instances(n)
  BY DEF Plu!TypeOK
<1>2. ASSUME NEW m \in Manifests
      PROVE  m.name \in Plu!PluginNames /\ Plu!Loaded(m) \in Plu!Instances(m.name)
  BY DEF Plu!Loaded, Plu!Instances, Plu!Status, Plu!PluginNames
<1>3. ASSUME NEW n \in Plu!PluginNames, registry[n] # Nothing, NEW p \in Plu!PluginNames
      PROVE  Plu!Unloaded(n)[p] = Nothing \/ Plu!Unloaded(n)[p] \in Plu!Instances(p)
  <2>1. CASE p \in registry[n].manifest.tools
    BY <2>1 DEF Plu!Unloaded
  <2>2. CASE p \notin registry[n].manifest.tools /\ p # n
    BY <1>1, <2>2 DEF Plu!Unloaded
  <2>3. CASE p \notin registry[n].manifest.tools /\ p = n
    <3>1. Plu!Unloaded(n)[p] = [registry[p] EXCEPT !.status = "disabled"]
      BY <2>3 DEF Plu!Unloaded
    <3> QED
      BY <1>1, <1>3, <2>3, <3>1 DEF Plu!Instances, Plu!Status
  <2> QED
    BY <2>1, <2>2, <2>3
<1>4. CASE Plu!LoadAll
  <2>1. PICK chosen \in SUBSET Plu!Discovered({1, 2}) :
          /\ registry' = [n \in Plu!PluginNames |->
                IF \E c \in chosen : c.name = n
                THEN Plu!Loaded(CHOOSE c \in chosen : c.name = n) ELSE registry[n]]
          /\ pluginsOff' = pluginsOff \ {c.name : c \in chosen}
    BY <1>4 DEF Plu!LoadAll
  <2>2. UNCHANGED <<onDisk, importable>>
    BY <1>4 DEF Plu!LoadAll
  <2>3. ASSUME NEW n \in Plu!PluginNames
        PROVE  registry'[n] = Nothing \/ registry'[n] \in Plu!Instances(n)
    <3>1. CASE \E c \in chosen : c.name = n
      <4>1. PICK c \in chosen : c = (CHOOSE d \in chosen : d.name = n) /\ c.name = n
        BY <3>1
      <4>2. c \in Manifests /\ registry'[n] = Plu!Loaded(c)
        BY <1>1, <2>1, <3>1, <4>1 DEF Plu!Discovered
      <4> QED
        BY <1>2, <4>1, <4>2
    <3>2. CASE ~ \E c \in chosen : c.name = n
      BY <1>1, <2>1, <3>2
    <3> QED
      BY <3>1, <3>2
  <2> QED
    BY <1>1, <2>1, <2>2, <2>3 DEF Plu!TypeOK, Plu!Instances
<1>5. CASE Plu!Disable
  <2>1. PICK n \in Plu!PluginNames :
          registry[n] # Nothing /\ registry' = Plu!Unloaded(n) /\ pluginsOff' = pluginsOff \cup {n}
    BY <1>5 DEF Plu!Disable
  <2>2. UNCHANGED <<onDisk, importable>>
    BY <1>5 DEF Plu!Disable
  <2>3. \A p \in Plu!PluginNames : registry'[p] = Nothing \/ registry'[p] \in Plu!Instances(p)
    BY <1>3, <2>1
  <2> QED
    BY <1>1, <2>1, <2>2, <2>3 DEF Plu!TypeOK, Plu!Instances
<1>6. CASE Plu!Reload
  <2>1. PICK n \in Plu!PluginNames :
          /\ registry[n] # Nothing
          /\ IF Plu!Unloaded(n)[n] = Nothing
             THEN registry' = Plu!Unloaded(n) /\ pluginsOff' = pluginsOff \cup {n}
             ELSE /\ registry' = [Plu!Unloaded(n) EXCEPT ![n] = Plu!Loaded(registry[n].manifest)]
                  /\ pluginsOff' = pluginsOff \ {n}
    BY <1>6 DEF Plu!Reload
  <2>2. UNCHANGED <<onDisk, importable>> /\ pluginsOff' \subseteq Plu!PluginNames
    BY <1>1, <1>6, <2>1 DEF Plu!Reload
  <2>3. registry[n].manifest \in Manifests /\ registry[n].manifest.name = n
    BY <1>1, <2>1 DEF Plu!Instances
  <2>4. Plu!Loaded(registry[n].manifest) \in Plu!Instances(n)
    BY <1>2, <2>3
  <2>5. DOMAIN Plu!Unloaded(n) = Plu!PluginNames
    BY DEF Plu!Unloaded
  <2>6. ASSUME NEW p \in Plu!PluginNames
        PROVE  registry'[p] = Nothing \/ registry'[p] \in Plu!Instances(p)
    <3>1. \/ registry'[p] = Plu!Unloaded(n)[p]
          \/ p = n /\ registry'[p] = Plu!Loaded(registry[n].manifest)
      <4> HIDE DEF Plu!Unloaded, Plu!Loaded
      <4> QED
        BY <2>1, <2>5
    <3> QED
      BY <1>3, <2>1, <2>4, <3>1
  <2> QED
    BY <1>1, <2>2, <2>6 DEF Plu!TypeOK, Plu!Instances
<1>7. CASE Plu!Install
  <2>1. PICK m \in Manifests :
          /\ onDisk' = onDisk \cup {m} /\ importable' = importable \cup {m}
          /\ \/ /\ registry' = [registry EXCEPT ![m.name] = [manifest |-> m, status |-> "active"]]
                /\ pluginsOff' = pluginsOff \ {m.name}
             \/ UNCHANGED <<registry, pluginsOff>>
    BY <1>7 DEF Plu!Install
  <2>2. m.name \in Plu!PluginNames /\ [manifest |-> m, status |-> "active"] \in Plu!Instances(m.name)
    BY DEF Plu!Instances, Plu!Status, Plu!PluginNames
  <2>3. DOMAIN registry = Plu!PluginNames
    BY DEF RegistryHonest
  <2>4. ASSUME NEW p \in Plu!PluginNames
        PROVE  registry'[p] = Nothing \/ registry'[p] \in Plu!Instances(p)
    BY <1>1, <2>1, <2>2, <2>3
  <2> QED
    BY <1>1, <2>1, <2>4 DEF Plu!TypeOK, Plu!Instances
<1>8. CASE Plu!RestartApi
  BY <1>1, <1>8 DEF Plu!TypeOK, Plu!RestartApi
<1>9. CASE UNCHANGED pluginVars
  BY <1>9 DEF Plu!TypeOK, pluginVars, Plu!Instances
<1> QED
  BY <1>4, <1>5, <1>6, <1>7, <1>8, <1>9 DEF Plu!Next

EgressTypes == Egr!TypeOK /\ HostsVouched

LEMMA EgressTyped == EgressTypes /\ [Egr!Next]_egressVars => Egr!TypeOK'
<1> SUFFICES ASSUME EgressTypes, [Egr!Next]_egressVars PROVE Egr!TypeOK'
  OBVIOUS
<1>1. /\ entries \in [EntryIds -> EgressRow \cup {Egr!Gone}] /\ used \subseteq EntryIds
      /\ \A i \in EntryIds : entries[i] # Egr!Gone => i \in used
      /\ egressRequest \in [Requests -> EgressCall \cup {Egr!Idle}] /\ vouched \subseteq Egr!Domains
  BY DEF EgressTypes, Egr!TypeOK, HostsVouched
<1>2. HostsVouched'
  BY EgressVouched DEF EgressTypes
<1>3. /\ entries' \in [EntryIds -> EgressRow \cup {Egr!Gone}]
      /\ egressRequest' \in [Requests -> EgressCall \cup {Egr!Idle}]
  BY <1>2 DEF HostsVouched
<1>4. /\ used' \subseteq EntryIds /\ vouched' \subseteq Egr!Domains
      /\ \A i \in EntryIds : entries'[i] # Egr!Gone => i \in used'
  <2>1. ASSUME NEW r \in Requests, Egr!LookUp(r) PROVE <1>4
    BY <1>1, <2>1 DEF Egr!LookUp
  <2>2. ASSUME NEW r \in Requests, Egr!Insert(r) PROVE <1>4
    <3>1. PICK i \in EntryIds \ used :
            /\ used' = used \cup {i}
            /\ \E e : entries' = [entries EXCEPT ![i] = e]
      BY <2>2 DEF Egr!Insert, Egr!InsertAs
    <3>2. egressRequest[r].op \in {"add", "suggest"}
          /\ vouched' = (IF egressRequest[r].op = "add" THEN vouched \cup {egressRequest[r].domain} ELSE vouched)
      BY <2>2 DEF Egr!Insert, Egr!InsertAs
    <3>3. egressRequest[r].domain \in Egr!Domains
      BY <1>1, <3>2 DEF EgressCall, Egr!Idle
    <3> QED
      BY <1>1, <3>1, <3>2, <3>3
  <2>3. CASE Egr!Update
    <3>1. PICK i \in EntryIds, o \in Egr!Allowances, status \in {"active", "pending", "disabled"} :
          /\ entries[i] # Egr!Gone
          /\ entries' = [entries EXCEPT ![i].status = status, ![i].allows = o]
          /\ vouched' = IF status = "active" THEN vouched \cup {entries[i].domain} ELSE vouched
      BY <2>3 DEF Egr!Update
    <3>2. entries[i].domain \in Egr!Domains /\ used' = used
      BY <1>1, <2>3, <3>1 DEF EgressRow, Egr!Update
    <3>3. \A j \in EntryIds : j # i => entries'[j] = entries[j]
      BY <1>1, <3>1
    <3> QED
      BY <1>1, <3>1, <3>2, <3>3
  <2>4. CASE Egr!Remove
    <3>1. PICK i \in EntryIds : entries' = [entries EXCEPT ![i] = Egr!Gone]
      BY <2>4 DEF Egr!Remove
    <3> QED
      BY <1>1, <2>4, <3>1 DEF Egr!Remove
  <2>5. CASE UNCHANGED egressVars
    BY <1>1, <2>5 DEF egressVars
  <2> QED
    BY <2>1, <2>2, <2>3, <2>4, <2>5 DEF Egr!Next
<1>5. \A r \in Requests : egressRequest'[r].op \in {"idle", "add", "suggest"}
  BY <1>3 DEF EgressCall, Egr!Idle
<1> QED
  BY <1>3, <1>4, <1>5 DEF Egr!TypeOK, EgressRow, Egr!Gone

-----------------------------------------------------------------------------
(* The notepad. *)
LEMMA NotepadStep == [Next]_vars => [Pad!Next]_noteVars
  BY DEF Next, Held, vars

\* A save carries a text, and a page that is ready shows one.
NoteTypes ==
    /\ Pad!TypeOK
    /\ tab = [t \in Tabs |-> tab[t]] /\ save = [t \in Tabs |-> save[t]]
    /\ \A t \in Tabs : save[t].at # "none" => save[t].text \in Pad!Texts

LEMMA NoteTyped == NoteTypes /\ [Pad!Next]_noteVars => NoteTypes'
<1> SUFFICES ASSUME NoteTypes, [Pad!Next]_noteVars PROVE NoteTypes'
  OBVIOUS
<1> USE BoundsAssumption
<1>1. /\ stored \in Pad!Texts \cup {Nothing} /\ noteEdits \in Pad!Texts /\ faults \in 0 .. MaxLoadFaults
      /\ Pad!Empty \in Pad!Texts
      /\ tab = [t \in Tabs |-> tab[t]] /\ save = [t \in Tabs |-> save[t]]
  BY DEF NoteTypes, Pad!TypeOK, Pad!Empty, Pad!Texts
<1> DEFINE Page(x) == /\ x.at \in {"closed", "loading", "ready"}
                      /\ x.at = "ready" => x.text \in Pad!Texts /\ x.due \in BOOLEAN
           Saving(x) == /\ x.at \in {"none", "sent", "insert", "update"}
                        /\ x.at # "none" => x.text \in Pad!Texts
<1>2. \A t \in Tabs : Page(tab[t]) /\ Saving(save[t])
  BY DEF NoteTypes, Pad!TypeOK
<1>3. /\ Page(Pad!Closed) /\ Saving(Pad!NoSave) /\ Page([at |-> "loading"])
      /\ \A x \in Pad!Texts, due \in BOOLEAN : Page(Pad!Ready(x, due))
  BY DEF Pad!Closed, Pad!NoSave, Pad!Ready
<1>4. ASSUME NEW t \in Tabs, NEW page, NEW s, Page(page), Saving(s),
             tab' = [tab EXCEPT ![t] = page], save' = [save EXCEPT ![t] = s],
             stored' \in Pad!Texts \cup {Nothing}, noteEdits' \in Pad!Texts, faults' \in 0 .. MaxLoadFaults
      PROVE  NoteTypes'
  <2> HIDE DEF Page, Saving
  <2>1. \A u \in Tabs : Page(tab'[u]) /\ Saving(save'[u])
    BY <1>1, <1>2, <1>4
  <2>2. tab' = [u \in Tabs |-> tab'[u]] /\ save' = [u \in Tabs |-> save'[u]]
    BY <1>1, <1>4
  <2> QED
    BY <1>4, <2>1, <2>2 DEF NoteTypes, Pad!TypeOK, Page, Saving, Pad!Texts
<1>5. ASSUME NEW t \in Tabs
      PROVE  tab = [tab EXCEPT ![t] = tab[t]] /\ save = [save EXCEPT ![t] = save[t]]
  BY <1>1
<1> HIDE DEF Page, Saving
<1>6. ASSUME NEW t \in Tabs, Pad!Open(t) \/ Pad!Leave(t) PROVE NoteTypes'
  BY <1>1, <1>2, <1>3, <1>4, <1>5, <1>6 DEF Pad!Open, Pad!Leave
<1>7. ASSUME NEW t \in Tabs, Pad!Load(t) PROVE NoteTypes'
  <2>1. PICK x \in Pad!Texts : tab' = [tab EXCEPT ![t] = Pad!Ready(x, TRUE)]
    BY <1>1, <1>7 DEF Pad!Load
  <2> QED
    BY <1>1, <1>2, <1>3, <1>4, <1>5, <1>7, <2>1 DEF Pad!Load
<1>8. ASSUME NEW t \in Tabs, Pad!FailLoad(t) PROVE NoteTypes'
  <2>1. faults' \in 0 .. MaxLoadFaults
    BY <1>1, <1>8 DEF Pad!FailLoad
  <2> QED
    BY <1>1, <1>2, <1>3, <1>4, <1>5, <1>8, <2>1 DEF Pad!FailLoad
<1>9. ASSUME NEW t \in Tabs, Pad!Type(t) PROVE NoteTypes'
  <2>1. noteEdits + 1 \in Pad!Texts
    BY <1>1, <1>9 DEF Pad!Type, Pad!Texts
  <2> QED
    BY <1>1, <1>2, <1>3, <1>4, <1>5, <1>9, <2>1 DEF Pad!Type
<1>10. ASSUME NEW t \in Tabs, Pad!FireTimer(t) PROVE NoteTypes'
  <2>1. Saving([at |-> "sent", text |-> tab[t].text]) /\ Page([tab[t] EXCEPT !.due = FALSE])
    BY <1>2, <1>10 DEF Page, Saving, Pad!FireTimer
  <2>2. tab' = [tab EXCEPT ![t] = [tab[t] EXCEPT !.due = FALSE]]
    BY <1>10 DEF Pad!FireTimer
  <2> QED
    BY <1>1, <1>4, <1>10, <2>1, <2>2 DEF Pad!FireTimer
<1>11. ASSUME NEW t \in Tabs, Pad!LookUpRow(t) PROVE NoteTypes'
  <2>1. PICK at \in {"insert", "update"} : save' = [save EXCEPT ![t] = [at |-> at, text |-> save[t].text]]
    BY <1>11 DEF Pad!LookUpRow
  <2>2. Saving([at |-> at, text |-> save[t].text])
    BY <1>2, <1>11 DEF Saving, Pad!LookUpRow
  <2> QED
    BY <1>1, <1>2, <1>4, <1>5, <1>11, <2>1, <2>2 DEF Pad!LookUpRow
<1>12. ASSUME NEW t \in Tabs, Pad!SaveRow(t) PROVE NoteTypes'
  <2>1. save[t].text \in Pad!Texts
    BY <1>2, <1>12 DEF Saving, Pad!SaveRow
  <2> QED
    BY <1>1, <1>2, <1>3, <1>4, <1>5, <1>12, <2>1 DEF Pad!SaveRow
<1>13. CASE UNCHANGED noteVars
  BY <1>13 DEF NoteTypes, noteVars, Pad!TypeOK, Pad!Texts
<1> QED
  BY <1>6, <1>7, <1>8, <1>9, <1>10, <1>11, <1>12, <1>13 DEF Pad!Next

LEMMA NoteInit == Init => NoteTypes
  BY BoundsAssumption DEF Init, Pad!Init, NoteTypes, Pad!TypeOK, Pad!Texts, Pad!Closed, Pad!NoSave

Times == 0 .. Horizon

\* A request that looks an account up knows of which address.
LoginTyped(x) ==
    /\ x.op \in {"idle", "login", "register", "first_run", "created"}
    /\ x.op \in {"login", "register"} => x.email \in Emails
    /\ x.op = "login" => x.source \in Sources

AccountTypes ==
    /\ users \in [Emails -> Acc!User] /\ failures \in [Acc!Keys -> Seq(Times)]
    /\ clock \in Times /\ signingKey \in 0 .. MaxRestarts /\ tokens \subseteq Acc!Token
    /\ loginRequest = [r \in Requests |-> loginRequest[r]]
    /\ \A r \in Requests : LoginTyped(loginRequest[r])
    /\ credFile \in Requests \cup {Acc!None}

LEMMA AccountInit == Init => AccountTypes
<1> SUFFICES ASSUME Init PROVE AccountTypes
  OBVIOUS
<1> USE BoundsAssumption
<1>1. /\ users = [e \in Emails |-> Acc!NoUser] /\ failures = [k \in Acc!Keys |-> <<>>]
      /\ clock = 0 /\ signingKey = 0 /\ tokens = {}
      /\ loginRequest = [r \in Requests |-> Acc!Idle] /\ credFile = Acc!None
  BY DEF Init, Acc!Init
<1>2. Acc!NoUser \in Acc!User /\ LoginTyped(Acc!Idle) /\ <<>> \in Seq(Times)
  BY DEF Acc!NoUser, Acc!User, Acc!None, Acc!Idle, LoginTyped
<1>3. 0 \in Times /\ 0 \in 0 .. MaxRestarts
  BY DEF Times
<1> QED
  BY <1>1, <1>2, <1>3 DEF AccountTypes

\* What is left after forgetting is again a list of times.
LEMMA RecentTimes == ASSUME AccountTypes, NEW k \in Acc!Keys PROVE Acc!Recent(k) \in Seq(Times)
<1>1. PICK s \in Seq(Times) : s = failures[k]
  BY DEF AccountTypes
<1>2. Acc!Expired(k) \subseteq 1 .. Len(s)
  BY <1>1 DEF Acc!Expired
<1>3. Cardinality(Acc!Expired(k)) \in Nat
  <2>1. IsFiniteSet(1 .. Len(s))
    BY <1>1, FS_Interval
  <2>2. IsFiniteSet(Acc!Expired(k))
    BY <1>2, <2>1, FS_Subset
  <2> QED
    BY <2>2, FS_CardinalityType
<1>4. PICK n \in Nat : n = Cardinality(Acc!Expired(k))
  BY <1>3
<1>5. SubSeq(s, n + 1, Len(s)) \in Seq(Times)
  OBVIOUS
<1> QED
  BY <1>1, <1>4, <1>5, AccountsCardinality DEF Acc!Recent

\* One request changes, and two keys of the limiter at most.
LEMMA AccountMoves ==
  ASSUME AccountTypes, NEW r \in Requests, NEW x, LoginTyped(x),
         loginRequest' = [loginRequest EXCEPT ![r] = x] \/ loginRequest' = loginRequest,
         users' \in [Emails -> Acc!User], failures' \in [Acc!Keys -> Seq(Times)],
         tokens' \subseteq Acc!Token, credFile' \in Requests \cup {Acc!None},
         UNCHANGED <<clock, signingKey>>
  PROVE  AccountTypes'
<1>1. /\ loginRequest' = [q \in Requests |-> loginRequest'[q]]
      /\ \A q \in Requests : loginRequest'[q] = x \/ loginRequest'[q] = loginRequest[q]
  BY DEF AccountTypes
<1> QED
  BY <1>1 DEF AccountTypes

LEMMA IdleLogin == LoginTyped(Acc!Idle)
  BY DEF Acc!Idle, LoginTyped

LEMMA AccountNext == AccountTypes /\ [Acc!Next]_accountVars => AccountTypes'
<1> SUFFICES ASSUME AccountTypes, [Acc!Next]_accountVars PROVE AccountTypes'
  OBVIOUS
<1> USE BoundsAssumption
<1>1. /\ users \in [Emails -> Acc!User] /\ failures \in [Acc!Keys -> Seq(Times)]
      /\ clock \in Times /\ signingKey \in 0 .. MaxRestarts /\ tokens \subseteq Acc!Token
      /\ credFile \in Requests \cup {Acc!None}
      /\ \A r \in Requests : LoginTyped(loginRequest[r])
      /\ loginRequest = [r \in Requests |-> loginRequest[r]]
  BY DEF AccountTypes
<1>2. Emails \subseteq Acc!Keys /\ Sources \subseteq Acc!Keys
  BY DEF Acc!Keys
<1>3. \A r \in Requests : {r, Acc!Chosen} \subseteq Requests \cup {Acc!Chosen, Acc!None}
  OBVIOUS
<1>4. ASSUME NEW r \in Requests, Acc!BeginLogin(r) PROVE AccountTypes'
  <2>1. PICK e \in Emails, s \in Sources :
          /\ failures' = [failures EXCEPT
                ![e] = Acc!Recent(e), ![s] = IF Acc!Blocked(e) THEN @ ELSE Acc!Recent(s)]
          /\ loginRequest' = IF Acc!Blocked(e) \/ Acc!Blocked(s) THEN loginRequest
                ELSE [loginRequest EXCEPT ![r] = [op |-> "login", email |-> e, source |-> s]]
    BY <1>4 DEF Acc!BeginLogin
  <2>2. PICK a \in Seq(Times), b \in Seq(Times) : a = Acc!Recent(e) /\ b = Acc!Recent(s)
    BY <1>2, RecentTimes
  <2>3. failures' \in [Acc!Keys -> Seq(Times)]
    <3>1. PICK mid : mid = [failures EXCEPT ![e] = a]
      OBVIOUS
    <3>2. mid \in [Acc!Keys -> Seq(Times)]
      BY <1>1, <3>1
    <3>3. failures' = mid \/ failures' = [mid EXCEPT ![s] = b]
      <4>1. CASE Acc!Blocked(e)
        <5>1. e # s /\ failures = [k \in Acc!Keys |-> failures[k]] /\ e \in Acc!Keys /\ s \in Acc!Keys
          BY <1>1, <1>2, KeyAssumption
        <5>2. failures' = [k \in Acc!Keys |-> IF k = e THEN a ELSE failures[k]]
          BY <2>1, <2>2, <4>1, <5>1
        <5> QED
          BY <3>1, <5>1, <5>2
      <4>2. CASE ~ Acc!Blocked(e)
        BY <2>1, <2>2, <3>1, <4>2
      <4> QED
        BY <4>1, <4>2
    <3> QED
      BY <3>2, <3>3
  <2>4. LoginTyped([op |-> "login", email |-> e, source |-> s])
    BY DEF LoginTyped
  <2> QED
    BY <1>1, <1>4, <2>1, <2>3, <2>4, AccountMoves DEF Acc!BeginLogin
<1>5. ASSUME NEW r \in Requests, Acc!FailLogin(r) PROVE AccountTypes'
  <2>1. PICK e \in Emails, s \in Sources : e = loginRequest[r].email /\ s = loginRequest[r].source
    BY <1>1, <1>5 DEF Acc!FailLogin, LoginTyped
  <2>2. failures' = [failures EXCEPT ![e] = Append(@, clock), ![s] = Append(@, clock)]
    BY <1>5, <2>1 DEF Acc!FailLogin
  <2>3. \A q \in Seq(Times) : Append(q, clock) \in Seq(Times)
    BY <1>1
  <2>4. failures' \in [Acc!Keys -> Seq(Times)]
    BY <1>1, <2>2, <2>3
  <2> QED
    BY <1>1, <1>5, <2>4, AccountMoves, IdleLogin DEF Acc!FailLogin
<1>6. ASSUME NEW r \in Requests, Acc!PassLogin(r) PROVE AccountTypes'
  <2>1. PICK e \in Emails, s \in Sources : e = loginRequest[r].email /\ s = loginRequest[r].source
    BY <1>1, <1>6 DEF Acc!PassLogin, LoginTyped
  <2>2. failures' = [failures EXCEPT ![e] = <<>>, ![s] = <<>>] /\ <<>> \in Seq(Times)
    BY <1>6, <2>1 DEF Acc!PassLogin
  <2>3. failures' \in [Acc!Keys -> Seq(Times)]
    BY <1>1, <2>2
  <2>4. tokens' \subseteq Acc!Token
    BY <1>1, <1>6, <2>1 DEF Acc!PassLogin, Acc!Token
  <2> QED
    BY <1>1, <1>6, <2>3, <2>4, AccountMoves, IdleLogin DEF Acc!PassLogin
<1>7. ASSUME NEW r \in Requests, Acc!BeginRegister(r) PROVE AccountTypes'
  <2>1. PICK e \in Emails : loginRequest' = [loginRequest EXCEPT ![r] = [op |-> "register", email |-> e]]
    BY <1>7 DEF Acc!BeginRegister
  <2>2. LoginTyped([op |-> "register", email |-> e])
    BY DEF LoginTyped
  <2> QED
    BY <1>1, <1>7, <2>1, <2>2, AccountMoves DEF Acc!BeginRegister
<1>8. ASSUME NEW r \in Requests, Acc!FinishRegister(r) PROVE AccountTypes'
  <2>1. PICK e \in Emails : e = loginRequest[r].email
    BY <1>1, <1>8 DEF Acc!FinishRegister, LoginTyped
  <2>2. [password |-> Acc!Chosen, admin |-> FALSE] \in Acc!User
    BY DEF Acc!User
  <2>3. users' \in [Emails -> Acc!User]
    BY <1>1, <1>8, <2>1, <2>2 DEF Acc!FinishRegister
  <2> QED
    BY <1>1, <1>8, <2>3, AccountMoves, IdleLogin DEF Acc!FinishRegister
<1>9. ASSUME NEW r \in Requests, Acc!BeginFirstRun(r) PROVE AccountTypes'
  <2>1. LoginTyped([op |-> "first_run"])
    BY DEF LoginTyped
  <2> QED
    BY <1>1, <1>9, <2>1, AccountMoves DEF Acc!BeginFirstRun
<1>10. ASSUME NEW r \in Requests, Acc!CommitAdmin(r) PROVE AccountTypes'
  <2>1. LoginTyped([op |-> "created"]) /\ [password |-> r, admin |-> TRUE] \in Acc!User
    BY DEF LoginTyped, Acc!User
  <2>2. users' \in [Emails -> Acc!User]
    BY <1>1, <1>10, <2>1 DEF Acc!CommitAdmin
  <2>3. PICK x : /\ x = Acc!Idle \/ x = [op |-> "created"]
                 /\ loginRequest' = [loginRequest EXCEPT ![r] = x]
    BY <1>10 DEF Acc!CommitAdmin
  <2> QED
    BY <1>1, <1>10, <2>1, <2>2, <2>3, AccountMoves, IdleLogin DEF Acc!CommitAdmin
<1>11. ASSUME NEW r \in Requests, Acc!WriteCredential(r) PROVE AccountTypes'
  BY <1>1, <1>11, AccountMoves, IdleLogin DEF Acc!WriteCredential
<1>12. CASE Acc!ChangePassword
  <2>1. PICK t \in tokens : users' = [users EXCEPT ![t.email].password = Acc!Chosen]
    BY <1>12 DEF Acc!ChangePassword
  <2>2. PICK e \in Emails : e = t.email
    BY <1>1 DEF Acc!Token
  <2>3. [users[e] EXCEPT !.password = Acc!Chosen] \in Acc!User
    BY <1>1 DEF Acc!User
  <2>4. users' \in [Emails -> Acc!User]
    BY <1>1, <2>1, <2>2, <2>3
  <2> QED
    BY <1>12, <2>4 DEF Acc!ChangePassword, AccountTypes
<1>13. CASE Acc!Tick
  <2>1. clock' \in Times
    BY <1>1, <1>13 DEF Acc!Tick, Times
  <2> QED
    BY <1>13, <2>1 DEF Acc!Tick, AccountTypes
<1>14. CASE Acc!RestartApi
  <2>1. signingKey' \in 0 .. MaxRestarts
    BY <1>1, <1>14 DEF Acc!RestartApi
  <2>2. failures' \in [Acc!Keys -> Seq(Times)]
    BY <1>14 DEF Acc!RestartApi
  <2> QED
    BY <1>14, <2>1, <2>2, IdleLogin DEF Acc!RestartApi, AccountTypes
<1>15. CASE UNCHANGED accountVars
  BY <1>15 DEF accountVars, AccountTypes
<1> QED
  BY <1>4, <1>5, <1>6, <1>7, <1>8, <1>9, <1>10, <1>11, <1>12, <1>13, <1>14, <1>15 DEF Acc!Next

LEMMA AccountsTyped == AccountTypes => Acc!TypeOK
  BY DEF AccountTypes, Acc!TypeOK, LoginTyped, Times

\* A request inserts acceptable urls only, and removes checkouts of registered urls.
RegistryTypes ==
    /\ RegistryInv
    /\ \A i \in Ids : repo[i] # Nothing => repo[i].url \notin Malformed
    /\ \A r \in Requests :
          /\ repoRequest[r].op \in {"idle", "import", "enqueue", "remove"}
          /\ repoRequest[r].op = "import" =>
                \A i \in DOMAIN repoRequest[r].fresh : repoRequest[r].fresh[i] \notin Malformed
          /\ repoRequest[r].op = "remove" => repoRequest[r].name \in Reg!CloneNames
    /\ raced \subseteq Urls /\ removed \subseteq Reg!CloneNames

LEMMA RegistryTypesInit == Init => RegistryTypes
<1> SUFFICES ASSUME Init PROVE RegistryTypes
  OBVIOUS
<1>1. /\ repo = [i \in Ids |-> Nothing] /\ repoRequest = [r \in Requests |-> Reg!Idle]
      /\ raced = {} /\ removed = {}
  BY DEF Init, Reg!Init
<1> QED
  BY <1>1, RegistryInit DEF RegistryTypes, Reg!Idle

LEMMA RegistryTypeOK == RegistryTypes => Reg!TypeOK
<1> SUFFICES ASSUME RegistryTypes PROVE Reg!TypeOK
  OBVIOUS
<1>1. repo \in [Ids -> [url : Urls \ Malformed, live : BOOLEAN] \cup {Nothing}]
  <2>1. \A i \in Ids : repo[i] # Nothing => repo[i] \in [url : Urls \ Malformed, live : BOOLEAN]
    BY DEF RegistryTypes, RegistryInv, RegistryTyped
  <2> QED
    BY <2>1 DEF RegistryTypes, RegistryInv, RegistryTyped
<1> QED
  BY <1>1 DEF RegistryTypes, RegistryInv, RegistryTyped, Reg!TypeOK, Reg!Committed

\* What a request turns into keeps the types.
RequestFits(x) ==
    /\ x.op \in {"idle", "import", "enqueue", "remove"}
    /\ x.op = "import" => \A i \in DOMAIN x.fresh : x.fresh[i] \notin Malformed
    /\ x.op = "remove" => x.name \in Reg!CloneNames

LEMMA RequestMoves ==
  ASSUME RegistryTypes, RegistryInv', NEW r \in Requests, NEW x, RequestFits(x),
         repoRequest' = [repoRequest EXCEPT ![r] = x],
         \A i \in Ids : repo'[i] # Nothing => repo'[i].url \notin Malformed,
         raced' \subseteq Urls, removed' \subseteq Reg!CloneNames
  PROVE  RegistryTypes'
<1>1. \A q \in Requests : repoRequest'[q] = IF q = r THEN x ELSE repoRequest[q]
  BY DEF RegistryTypes, RegistryInv, RegistryTyped
<1>2. Reg!CloneNames' = Reg!CloneNames
  BY DEF Reg!CloneNames
<1> QED
  BY <1>1, <1>2 DEF RegistryTypes, RequestFits

LEMMA RegistryTypesNext == RegistryTypes /\ [Reg!Next]_registryVars => RegistryTypes'
<1> SUFFICES ASSUME RegistryTypes, [Reg!Next]_registryVars PROVE RegistryTypes'
  OBVIOUS
<1>1. RegistryInv /\ RegistryInv' /\ RegistryTyped
  BY RegistryKept DEF RegistryTypes, RegistryInv
<1>2. RequestFits(Reg!Idle)
  BY DEF RequestFits, Reg!Idle
<1>3. ASSUME NEW r \in Requests, Reg!Import(r) PROVE RegistryTypes'
  <2>1. PICK urls : repoRequest' = [repoRequest EXCEPT ![r] = [op |-> "import", todo |-> urls, fresh |-> <<>>]]
    BY <1>3 DEF Reg!Import
  <2>2. RequestFits([op |-> "import", todo |-> urls, fresh |-> <<>>])
    BY DEF RequestFits
  <2> QED
    BY <1>1, <1>3, <2>1, <2>2, RequestMoves DEF Reg!Import, RegistryTypes
<1>4. ASSUME NEW r \in Requests, Reg!Flush(r) PROVE RegistryTypes'
  <2> DEFINE u == Head(repoRequest[r].todo)
  <2>1. repoRequest[r] \in ImportRequest /\ repoRequest[r].todo # <<>>
    BY <1>1, <1>4 DEF Reg!Flush, RegistryTyped
  <2>8. repoRequest[r] \in ImportRequest
    BY <2>1
  <2>2. u \in Urls
    BY <2>1 DEF ImportRequest
  <2>3. UNCHANGED <<repo, removed>> /\ raced' \subseteq raced \cup {u}
    BY <1>4 DEF Reg!Flush
  <2>4. /\ \A i \in Ids : repo'[i] # Nothing => repo'[i].url \notin Malformed
        /\ raced' \subseteq Urls /\ removed' \subseteq Reg!CloneNames
    BY <2>2, <2>3 DEF RegistryTypes
  <2> HIDE DEF u
  <2>5. CASE repoRequest' = [repoRequest EXCEPT ![r] = Reg!Idle]
    BY <1>1, <1>2, <2>4, <2>5, RequestMoves
  <2>6. CASE repoRequest' = [repoRequest EXCEPT ![r].todo = Tail(@)]
    <3>1. PICK y : y = [repoRequest[r] EXCEPT !.todo = Tail(@)]
      OBVIOUS
    <3>2. repoRequest' = [repoRequest EXCEPT ![r] = y]
      BY <2>6, <3>1
    <3>3. y.op = "import" /\ y.fresh = repoRequest[r].fresh
      BY <2>1, <3>1 DEF ImportRequest
    <3>4. RequestFits(y)
      BY <2>1, <3>3 DEF RequestFits, ImportRequest, RegistryTypes
    <3> QED
      BY <1>1, <2>4, <3>2, <3>4, RequestMoves
  <2>7. CASE Reg!Acceptable(u) /\ \E i \in Ids :
              repoRequest' = [repoRequest EXCEPT ![r].todo = Tail(@),
                 ![r].fresh = [j \in DOMAIN @ \cup {i} |-> IF j = i THEN u ELSE @[j]]]
    <3>1. PICK i \in Ids :
            repoRequest' = [repoRequest EXCEPT ![r].todo = Tail(@),
               ![r].fresh = [j \in DOMAIN @ \cup {i} |-> IF j = i THEN u ELSE @[j]]]
      BY <2>7
    <3> DEFINE new == [j \in DOMAIN repoRequest[r].fresh \cup {i} |->
                          IF j = i THEN u ELSE repoRequest[r].fresh[j]]
               v == [op |-> "import", todo |-> Tail(repoRequest[r].todo), fresh |-> new]
    <3>2. repoRequest' = [repoRequest EXCEPT ![r].todo = Tail(repoRequest[r].todo), ![r].fresh = new]
      BY <3>1
    <3>3. RequestFits(v)
      BY <2>1, <2>7 DEF RequestFits, RegistryTypes, Reg!Acceptable, ImportRequest
    <3> HIDE DEF new
    <3>4. v = [repoRequest[r] EXCEPT !.todo = Tail(repoRequest[r].todo), !.fresh = new]
      <4>1. PICK q \in ImportRequest : q = repoRequest[r]
        BY <2>8
      <4>2. \A t, f : [q EXCEPT !.todo = t, !.fresh = f] = [op |-> "import", todo |-> t, fresh |-> f]
        BY ImportUpdated
      <4>3. [q EXCEPT !.todo = Tail(repoRequest[r].todo), !.fresh = new] = v
        BY <4>2
      <4> QED
        BY <4>1, <4>3
    <3> HIDE DEF v
    <3>5. repoRequest' = [repoRequest EXCEPT ![r] =
                             [repoRequest[r] EXCEPT !.todo = Tail(repoRequest[r].todo), !.fresh = new]]
      BY <3>2
    <3>6. repoRequest' = [repoRequest EXCEPT ![r] = v]
      BY <3>4, <3>5
    <3> QED
      BY <1>1, <2>4, <3>3, <3>6, RequestMoves
  <2> QED
    BY <1>4, <2>5, <2>6, <2>7 DEF Reg!Flush, u
<1>5. ASSUME NEW r \in Requests, Reg!Commit(r) PROVE RegistryTypes'
  <2>1. UNCHANGED <<started, crawled, pulls, clone, raced, removed>>
    BY <1>5 DEF Reg!Commit
  <2>2. \A i \in Ids : repo'[i] # Nothing => repo'[i].url \notin Malformed
    BY <1>5 DEF Reg!Commit, RegistryTypes
  <2>3. PICK x : RequestFits(x) /\ repoRequest' = [repoRequest EXCEPT ![r] = x]
    BY <1>2, <1>5 DEF Reg!Commit, RequestFits
  <2> QED
    BY <1>1, <2>1, <2>2, <2>3, RequestMoves DEF RegistryTypes
<1>6. ASSUME NEW r \in Requests, Reg!Retry(r) PROVE RegistryTypes'
  <2>1. UNCHANGED <<repo, raced, removed>>
    BY <1>6 DEF Reg!Retry
  <2>2. PICK x : RequestFits(x) /\ repoRequest' = [repoRequest EXCEPT ![r] = x]
    BY <1>6 DEF Reg!Retry, RequestFits
  <2> QED
    BY <1>1, <2>1, <2>2, RequestMoves DEF RegistryTypes
<1>7. ASSUME NEW r \in Requests, Reg!StartOnboarding(r) PROVE RegistryTypes'
  <2>1. UNCHANGED <<repo, raced, removed>>
    BY <1>7 DEF Reg!StartOnboarding
  <2>2. PICK x : RequestFits(x) /\ repoRequest' = [repoRequest EXCEPT ![r] = x]
    <3>1. repoRequest[r].op = "enqueue" /\ repoRequest[r] \in [op : {"enqueue"}, ids : SUBSET Reg!Committed]
      BY <1>1, <1>7 DEF Reg!StartOnboarding, RegistryTyped
    <3>2. ASSUME NEW i, repoRequest' = [repoRequest EXCEPT ![r].ids = @ \ {i}]
          PROVE  \E x : RequestFits(x) /\ repoRequest' = [repoRequest EXCEPT ![r] = x]
      <4>1. PICK x : x = [repoRequest[r] EXCEPT !.ids = @ \ {i}]
        OBVIOUS
      <4>2. x.op = "enqueue"
        BY <3>1, <4>1
      <4> QED
        BY <3>2, <4>1, <4>2 DEF RequestFits
    <3> QED
      BY <1>2, <1>7, <3>2 DEF Reg!StartOnboarding
  <2> QED
    BY <1>1, <2>1, <2>2, RequestMoves DEF RegistryTypes
<1>8. ASSUME NEW r \in Requests, Reg!DeleteRows(r) PROVE RegistryTypes'
  <2>1. PICK i \in Reg!Live :
          /\ repo' = [repo EXCEPT ![i].live = FALSE]
          /\ repoRequest' = [repoRequest EXCEPT ![r] = [op |-> "remove", name |-> NameOf[repo[i].url]]]
    BY <1>8 DEF Reg!DeleteRows
  <2>2. i \in Ids /\ repo[i] \in [url : Urls, live : BOOLEAN]
    BY <1>1, CommittedRow DEF Reg!Live
  <2>3. RequestFits([op |-> "remove", name |-> NameOf[repo[i].url]])
    BY <2>2 DEF RequestFits, Reg!CloneNames
  <2>4. ASSUME NEW j \in Ids, repo'[j] # Nothing PROVE repo'[j].url \notin Malformed
    <3>1. PICK dead : dead = [repo[i] EXCEPT !.live = FALSE]
      OBVIOUS
    <3>2. dead.url = repo[i].url
      BY <2>2, <3>1
    <3>3. repo' = [repo EXCEPT ![i] = dead]
      BY <2>1, <3>1
    <3>4. repo[i].url \notin Malformed
      BY <2>1, <2>2 DEF RegistryTypes, Reg!Live, Reg!Committed
    <3>5. repo'[j] = dead \/ repo'[j] = repo[j]
      BY <1>1, <3>3 DEF RegistryTyped
    <3> QED
      BY <2>4, <3>2, <3>4, <3>5 DEF RegistryTypes
  <2>5. UNCHANGED <<raced, removed>>
    BY <1>8 DEF Reg!DeleteRows
  <2> QED
    BY <1>1, <2>1, <2>3, <2>4, <2>5, RequestMoves DEF RegistryTypes
<1>9. ASSUME NEW r \in Requests, Reg!RemoveCheckout(r) PROVE RegistryTypes'
  <2>1. UNCHANGED <<repo, raced>> /\ removed' = removed \cup {repoRequest[r].name}
    BY <1>9 DEF Reg!RemoveCheckout
  <2>2. removed' \subseteq Reg!CloneNames
    BY <1>9, <2>1 DEF Reg!RemoveCheckout, RegistryTypes
  <2>3. repoRequest' = [repoRequest EXCEPT ![r] = Reg!Idle]
    BY <1>9 DEF Reg!RemoveCheckout
  <2> QED
    BY <1>1, <1>2, <2>1, <2>2, <2>3, RequestMoves DEF RegistryTypes
<1>10. CASE Reg!Crawl \/ Reg!BeginPull \/ Reg!PullOne \/ UNCHANGED registryVars
  <2>1. UNCHANGED <<repo, repoRequest, raced, removed>>
    BY <1>10 DEF Reg!Crawl, Reg!BeginPull, Reg!PullOne, registryVars
  <2>2. Reg!CloneNames' = Reg!CloneNames
    BY DEF Reg!CloneNames
  <2> QED
    BY <1>1, <2>1, <2>2 DEF RegistryTypes
<1> QED
  BY <1>3, <1>4, <1>5, <1>6, <1>7, <1>8, <1>9, <1>10 DEF Reg!Next

-----------------------------------------------------------------------------
(* Type correctness of the services side by side.                            *)

LEMMA ConnectionsTyped == Spec => []Con!TypeOK
<1>1. ConP!NothingIsNone /\ ConP!BoundsAreNumbers
  BY ClientAssumption, BoundsAssumption
  DEF ConP!NothingIsNone, ConP!AllClients, ConP!AllRows, ConP!BoundsAreNumbers
<1>2. ConP!Spec => []ConP!TypeOK
  BY <1>1, ConP!TypeCorrect
<1>3. ConP!TypeOK => Con!TypeOK
  BY DEF ConP!TypeOK, Con!TypeOK, ConP!Clients, Con!Clients
<1> QED
  BY ConnectionsInit, ConnectionsStep, <1>2, <1>3, PTL DEF Spec, ConP!Spec

LEMMA WorkspaceTyped == Spec => []Wsp!TypeOK
<1>1. WspP!BoundsAreNumbers
  BY BoundsAssumption DEF WspP!BoundsAreNumbers
<1>2. WspP!Spec => []WspP!TypeOK
  BY <1>1, WspP!TypeCorrect
<1>3. WspP!TypeOK => Wsp!TypeOK
  BY DEF WspP!TypeOK, Wsp!TypeOK, WspP!Idle, Wsp!Idle, WspP!Changing, Wsp!Changing,
         WspP!Powers, Wsp!Powers
<1> QED
  BY WorkspaceInit, WorkspaceStep, <1>2, <1>3, PTL DEF Spec, WspP!Spec

\* What is kept of the other six components.
ServiceTypes ==
    /\ focus \in Components
    /\ AccountTypes /\ UploadsInv /\ NoteTypes /\ EgressTypes
    /\ RegistryHonest /\ Plu!TypeOK
    /\ RegistryTypes

LEMMA ServiceTypesInit == Init => ServiceTypes
<1> SUFFICES ASSUME Init PROVE ServiceTypes
  OBVIOUS
<1>1. Plu!TypeOK
  BY DEF Init, Plu!Init, Plu!TypeOK
<1>2. EgressTypes
  BY EgressInit DEF Init, Egr!Init, Egr!TypeOK, Egr!Gone, Egr!Idle, EgressTypes
<1>3. focus \in Components
  BY DEF Init
<1> QED
  BY <1>1, <1>2, <1>3, AccountInit, UploadsInit, NoteInit, PluginsInit, RegistryTypesInit DEF ServiceTypes

LEMMA ServiceTypesNext == ServiceTypes /\ [Next]_vars => ServiceTypes'
<1> SUFFICES ASSUME ServiceTypes, [Next]_vars PROVE ServiceTypes'
  OBVIOUS
<1>1. focus' = focus
  BY DEF Next, Held, vars
<1>2. AccountTypes'
  BY AccountsStep, AccountNext DEF ServiceTypes
<1>3. UploadsInv'
  BY UploadsStep, UploadsKept DEF ServiceTypes
<1>4. NoteTypes'
  BY NotepadStep, NoteTyped DEF ServiceTypes
<1>5. EgressTypes'
  BY EgressStep, EgressTyped, EgressVouched DEF ServiceTypes, EgressTypes
<1>6. RegistryHonest' /\ Plu!TypeOK'
  BY PluginsStep, PluginsHonest, PluginsTyped DEF ServiceTypes
<1>7. RegistryTypes'
  BY RegistryStep, RegistryTypesNext DEF ServiceTypes
<1> QED
  BY <1>1, <1>2, <1>3, <1>4, <1>5, <1>6, <1>7 DEF ServiceTypes, Components

\* Type correctness of the services side by side: whatever they are asked in whatever order,
\* each keeps what its code stores in its tables, its files and its process (the modules of
\* api and services they model).
THEOREM ServicesTypeCorrect == Spec => []TypeOK
<1>1. ServiceTypes => /\ focus \in Components /\ Acc!TypeOK /\ Upl!TypeOK /\ Pad!TypeOK
                      /\ Egr!TypeOK /\ Plu!TypeOK /\ Reg!TypeOK
  BY AccountsTyped, RegistryTypeOK DEF ServiceTypes, UploadsInv, NoteTypes, EgressTypes
<1>2. ServiceTypes /\ AgentStateTypes /\ Con!TypeOK /\ Wsp!TypeOK => TypeOK
  BY <1>1, AgentStateTyped DEF TypeOK
<1> QED
  BY ServiceTypesInit, ServiceTypesNext, AgentStateInit, AgentStateNext, ConnectionsTyped,
     WorkspaceTyped, <1>2, PTL DEF Spec
=============================================================================
