------------------------- MODULE ContainerRegistry -------------------------
(***************************************************************************)
(* The registration of containers: `ontobdc storage --create <path>` and   *)
(* `ontobdc storage --delete <id>`, run by CLI processes that share the    *)
(* workspace's storage.ttl (the index) and each container's container.ttl. *)
(*                                                                         *)
(* A create is the StandardStorageContainerCreate statechart, driven by    *)
(* StateWorkerAdapter.work: the initial state is what the evaluator        *)
(* observes on disk, and every transition performs a check/hotfix pair and *)
(* is then validated against a fresh observation.  No file is locked and   *)
(* both .ttl files are rewritten with Path.write_bytes, which truncates    *)
(* the file before it writes: the read, the truncation and the write of a  *)
(* hotfix are three steps, and another process may run between them.       *)
(*                                                                         *)
(* The reads of one check or hotfix are one step.  Files are edited at any *)
(* time; folders are moved, copied and removed by their owner between two  *)
(* commands.                                                               *)
(***************************************************************************)
EXTENDS Naturals, FiniteSets

CONSTANTS
    Paths,          \* folders a command may be given
    Outside,        \* the ones that are not below the workspace root
    Ids,            \* the uuid4 identifiers that generate_container_id draws from
    NoId,           \* no identifier
    NoGraph,        \* container.ttl is missing, truncated or has no single container
    Unreadable,     \* storage.ttl does not parse
    Procs,          \* CLI processes
    MaxCommands,    \* bound: commands started
    MaxCrashes,     \* bound: processes killed
    MaxFolderOps    \* bound: folder operations of the owner

\* The identifier that v0.16 and before derived from a container's path.
LegacyId(c) == <<"local", c>>

LegacyIds == {LegacyId(c) : c \in Paths}

Entry == [id : Ids \cup LegacyIds, loc : Paths]

ASSUME RegistryAssumption ==
    /\ Outside \subseteq Paths
    /\ Paths # {}
    /\ Ids \cap LegacyIds = {}
    /\ NoId \notin Ids \cup LegacyIds
    /\ NoGraph \notin Entry
    /\ \A entries \in SUBSET Entry : entries # Unreadable
    /\ MaxCommands \in Nat /\ MaxCrashes \in Nat /\ MaxFolderOps \in Nat

VARIABLES
    kind,       \* what stands at each path: nothing, a file or a directory
    meta,       \* the container of each path's container.ttl, or NoGraph
    index,      \* the containers of storage.ttl, or Unreadable
    manifest,   \* whether ro-crate-metadata.json lists the folder as it is
    minted,     \* identifiers generated so far
    pc,         \* where each process stands
    path,       \* the path of its create
    active,     \* the active state of its statechart
    newMeta,    \* the container.ttl it is about to write
    newIndex,   \* the storage.ttl it is about to write
    doomed,     \* the identifier of its delete
    outcome,    \* how its last command ended
    commands, crashes, folderOps,   \* bounded counters
    identity,   \* history: the first identifier the container of a path had
    written,    \* history: every container that some container.ttl held
    registered  \* history: identifiers reported created and not reported deleted

disk == <<kind, meta, index, manifest>>
procState == <<pc, path, active, newMeta, newIndex, doomed, outcome>>
counters == <<commands, crashes, folderOps>>
history == <<identity, written, registered>>
vars == <<disk, minted, procState, counters, history>>

FinalStates == {"invalid_path", "container_manifest_synced"}

ChartStates == FinalStates \cup {"undefined", "directory_ready",
                  "container_metadata_ready", "container_storage_index_ready"}

(* The transitions of standard_container_create.yaml, except the one from  *)
(* undefined to invalid_path.                                              *)
Successor ==
    [undefined                     |-> "directory_ready",
     directory_ready               |-> "container_metadata_ready",
     container_metadata_ready      |-> "container_storage_index_ready",
     container_storage_index_ready |-> "container_manifest_synced"]

PcStates == {"idle", "transit", "meta_truncate", "meta_write",
             "index_truncate", "index_write", "deindex_truncate", "deindex_write",
             "validate"}

Outcomes == {"none", "created", "invalid_path", "failed",
             "deleted", "not_deleted", "crashed"}

-----------------------------------------------------------------------------
(* The checks, as the evaluator and the capabilities call them.            *)

\* is_valid_container_id
ValidId(i) == i \in Ids

\* is_container_metadata_ready/check.py
MetadataReady(c) ==
    /\ kind[c] = "dir"
    /\ c \notin Outside
    /\ meta[c] # NoGraph
    /\ ValidId(meta[c].id)
    /\ meta[c].loc = c

\* is_container_storage_index_ready/check.py: the only entry with the
\* container's identifier is the one container.ttl describes.
IndexReady(c) ==
    /\ MetadataReady(c)
    /\ index # Unreadable
    /\ {e \in index : e.id = meta[c].id} = {meta[c]}

\* is_container_manifest_synced/check.py
ManifestSynced(c) == IndexReady(c) /\ manifest[c] = "synced"

\* ContainerCreateStateEvaluatorAdapter.evaluate
Observed(c) ==
    IF kind[c] = "file" THEN "invalid_path"
    ELSE IF kind[c] = "absent" THEN "undefined"
    ELSE IF ~MetadataReady(c) THEN "directory_ready"
    ELSE IF ~IndexReady(c) THEN "container_metadata_ready"
    ELSE IF ~ManifestSynced(c) THEN "container_storage_index_ready"
    ELSE "container_manifest_synced"

\* The first check of the capability for state `to`; directory_ready has none.
CapabilityCheck(to, c) ==
    \/ to = "container_metadata_ready" /\ MetadataReady(c)
    \/ to = "container_storage_index_ready" /\ IndexReady(c)
    \/ to = "container_manifest_synced" /\ ManifestSynced(c)

-----------------------------------------------------------------------------
Init ==
    /\ kind \in [Paths -> {"absent", "file", "dir"}]
    \* A workspace of v0.16 has containers with path-derived identifiers.
    /\ \E L \in SUBSET {c \in Paths \ Outside : kind[c] = "dir"} :
          /\ meta = [c \in Paths |-> IF c \in L THEN [id |-> LegacyId(c), loc |-> c]
                                                 ELSE NoGraph]
          /\ index = {[id |-> LegacyId(c), loc |-> c] : c \in L}
          /\ written = index
    /\ manifest = [c \in Paths |-> "stale"]
    /\ minted = {}
    /\ pc = [p \in Procs |-> "idle"]
    /\ path = [p \in Procs |-> CHOOSE c \in Paths : TRUE]
    /\ active = [p \in Procs |-> "undefined"]
    /\ newMeta = [p \in Procs |-> NoGraph]
    /\ newIndex = [p \in Procs |-> {}]
    /\ doomed = [p \in Procs |-> NoId]
    /\ outcome = [p \in Procs |-> "none"]
    /\ commands = 0 /\ crashes = 0 /\ folderOps = 0
    /\ identity = [c \in Paths |-> NoId]
    /\ registered = {}

\* A process leaves its command with outcome o.
Finish(p, o) ==
    /\ pc' = [pc EXCEPT ![p] = "idle"]
    /\ outcome' = [outcome EXCEPT ![p] = o]

Goto(p, l) ==
    /\ pc' = [pc EXCEPT ![p] = l]
    /\ UNCHANGED outcome

-----------------------------------------------------------------------------
(* storage --create                                                        *)

\* StateWorkerAdapter.work up to its loop: the observed state becomes the
\* chart's initial state, and a final one ends the command at once.
StartCreate(p, c) ==
    /\ pc[p] = "idle"
    /\ commands < MaxCommands
    /\ commands' = commands + 1
    /\ path' = [path EXCEPT ![p] = c]
    /\ active' = [active EXCEPT ![p] = Observed(c)]
    /\ \/ Observed(c) = "invalid_path" /\ Finish(p, "invalid_path") /\ UNCHANGED registered
       \/ /\ Observed(c) = "container_manifest_synced"
          /\ Finish(p, "created")
          /\ registered' = registered \cup {meta[c].id}
       \/ Observed(c) \notin FinalStates /\ Goto(p, "transit") /\ UNCHANGED registered
    /\ UNCHANGED <<disk, minted, newMeta, newIndex, doomed, crashes, folderOps, identity, written>>

\* p has a transition of its statechart to perform.
InTransit(p, from) == pc[p] = "transit" /\ active[p] = from

\* undefined -> invalid_path: a file was put at the path meanwhile.
EnterInvalidPath(p) ==
    /\ InTransit(p, "undefined")
    /\ Observed(path[p]) = "invalid_path"
    /\ active' = [active EXCEPT ![p] = "invalid_path"]
    /\ Finish(p, "invalid_path")
    /\ UNCHANGED <<disk, minted, path, newMeta, newIndex, doomed, counters, history>>

\* perform_state_transition finds the target observed already, or the
\* capability finds its check satisfied: nothing is written.
SkipHotfix(p) ==
    /\ pc[p] = "transit"
    /\ \/ Observed(path[p]) = Successor[active[p]]
       \/ CapabilityCheck(Successor[active[p]], path[p])
    /\ Goto(p, "validate")
    /\ UNCHANGED <<disk, minted, path, active, newMeta, newIndex, doomed, counters, history>>

\* DirectoryReadyCapability: mkdir(parents=True, exist_ok=True).
MakeDirectory(p) ==
    /\ InTransit(p, "undefined")
    /\ Observed(path[p]) \notin {"invalid_path", "directory_ready"}
    /\ kind' = [kind EXCEPT ![path[p]] = "dir"]
    /\ Goto(p, "validate")
    /\ UNCHANGED <<meta, index, manifest, minted, path, active, newMeta, newIndex, doomed,
                   counters, history>>

\* Mutant of HotfixIds: the identifier of an existing container.ttl is not read.
AlwaysFreshIds(c) == Ids \ minted

\* Mutant of HotfixIds: an identifier is kept without asking whether it is valid.
KeepAnyId(c) == IF meta[c] # NoGraph THEN {meta[c].id} ELSE Ids \ minted

\* The identifier that the metadata hotfix writes: the one container.ttl
\* already has when it is valid, else a fresh one.
HotfixIds(c) ==
    IF meta[c] # NoGraph /\ ValidId(meta[c].id) THEN {meta[c].id} ELSE Ids \ minted

\* is_container_metadata_ready/hotfix.py up to the serialisation.
MetadataHotfix(p) ==
    LET c == path[p] IN
    /\ InTransit(p, "directory_ready")
    /\ ~MetadataReady(c)
    /\ c \notin Outside
    /\ \E i \in HotfixIds(c) :
          /\ newMeta' = [newMeta EXCEPT ![p] = [id |-> i, loc |-> c]]
          /\ minted' = minted \cup {i}
    /\ Goto(p, "meta_truncate")
    /\ UNCHANGED <<kind, meta, index, manifest, path, active, newIndex, doomed, counters, history>>

\* A path outside the root is refused by the metadata hotfix.
MetadataHotfixRefused(p) ==
    LET c == path[p] IN
    /\ InTransit(p, "directory_ready")
    /\ ~MetadataReady(c)
    /\ c \in Outside
    /\ Finish(p, "failed")
    /\ UNCHANGED <<disk, minted, path, active, newMeta, newIndex, doomed, counters, history>>

\* write_bytes opens container.ttl ...
TruncateMetadata(p) ==
    /\ pc[p] = "meta_truncate"
    /\ meta' = [meta EXCEPT ![path[p]] = NoGraph]
    /\ Goto(p, "meta_write")
    /\ UNCHANGED <<kind, index, manifest, minted, path, active, newMeta, newIndex, doomed,
                   counters, history>>

\* ... and writes it.
WriteMetadata(p) ==
    LET c == path[p] IN
    /\ pc[p] = "meta_write"
    /\ meta' = [meta EXCEPT ![c] = newMeta[p]]
    /\ written' = written \cup {newMeta[p]}
    /\ identity' = [identity EXCEPT ![c] = IF @ = NoId THEN newMeta[p].id ELSE @]
    /\ newMeta' = [newMeta EXCEPT ![p] = NoGraph]
    /\ Goto(p, "validate")
    /\ UNCHANGED <<kind, index, manifest, minted, path, active, newIndex, doomed, counters,
                   registered>>

\* Mutant of WithContainer: the graph is built anew instead of loaded.
OnlyContainer(entries, e) == {e}

\* Mutant of WithContainer: the entry's old triples are not removed.
AddContainer(entries, e) == entries \cup {e}

\* Mutant of WithContainer: the location is set on every container of the graph.
RelocateContainers(entries, e) == {[f EXCEPT !.loc = e.loc] : f \in entries} \cup {e}

\* is_container_storage_index_ready/hotfix.py: every entry with the
\* container's identifier is replaced by the one container.ttl describes.
WithContainer(entries, e) == {f \in entries : f.id # e.id} \cup {e}

IndexHotfix(p) ==
    LET c == path[p] IN
    /\ InTransit(p, "container_metadata_ready")
    /\ ~IndexReady(c)
    /\ MetadataReady(c)
    /\ index # Unreadable
    /\ newIndex' = [newIndex EXCEPT ![p] = WithContainer(index, meta[c])]
    /\ Goto(p, "index_truncate")
    /\ UNCHANGED <<disk, minted, path, active, newMeta, doomed, counters, history>>

\* The index hotfix returns 1: container.ttl is no longer ready, or
\* storage.ttl does not parse.
IndexHotfixRefused(p) ==
    LET c == path[p] IN
    /\ InTransit(p, "container_metadata_ready")
    /\ ~IndexReady(c)
    /\ ~MetadataReady(c) \/ index = Unreadable
    /\ Finish(p, "failed")
    /\ UNCHANGED <<disk, minted, path, active, newMeta, newIndex, doomed, counters, history>>

TruncateIndex(p) ==
    /\ \/ pc[p] = "index_truncate" /\ Goto(p, "index_write")
       \/ pc[p] = "deindex_truncate" /\ Goto(p, "deindex_write")
    /\ index' = {}
    /\ UNCHANGED <<kind, meta, manifest, minted, path, active, newMeta, newIndex, doomed,
                   counters, history>>

WriteIndex(p) ==
    /\ pc[p] = "index_write"
    /\ index' = newIndex[p]
    /\ newIndex' = [newIndex EXCEPT ![p] = {}]
    /\ Goto(p, "validate")
    /\ UNCHANGED <<kind, meta, manifest, minted, path, active, newMeta, doomed, counters, history>>

\* ContainerManifestSyncedCapability: the hotfix rewrites the RO-Crate
\* manifest of a container that the index lists, and refuses another.
ManifestHotfix(p) ==
    LET c == path[p] IN
    /\ InTransit(p, "container_storage_index_ready")
    /\ ~ManifestSynced(c)
    /\ \/ /\ IndexReady(c)
          /\ manifest' = [manifest EXCEPT ![c] = "synced"]
          /\ Goto(p, "validate")
       \/ ~IndexReady(c) /\ Finish(p, "failed") /\ UNCHANGED manifest
    /\ UNCHANGED <<kind, meta, index, minted, path, active, newMeta, newIndex, doomed,
                   counters, history>>

\* The transition's `after` contract, validate_state_transition: exactly the
\* target state must be observed.
ContractHolds(to, c) == Observed(c) = to

\* Mutant of Validate: the active state is not advanced to the target.
ValidateInPlace(p) ==
    LET to == Successor[active[p]] IN
    /\ pc[p] = "validate"
    /\ ContractHolds(to, path[p])
    /\ Goto(p, "transit")
    /\ UNCHANGED <<disk, minted, path, active, newMeta, newIndex, doomed, counters, history>>

\* The capability's second check and the contract; then the worker goes on,
\* or ends in a final state.
Validate(p) ==
    LET to == Successor[active[p]] IN
    /\ pc[p] = "validate"
    /\ ContractHolds(to, path[p])
    /\ active' = [active EXCEPT ![p] = to]
    /\ \/ /\ to \in FinalStates
          /\ Finish(p, "created")
          /\ registered' = registered \cup {meta[path[p]].id}
       \/ to \notin FinalStates /\ Goto(p, "transit") /\ UNCHANGED registered
    /\ UNCHANGED <<disk, minted, path, newMeta, newIndex, doomed, counters, identity, written>>

\* The contract is broken: the command ends with the exception.
ContractBroken(p) ==
    /\ pc[p] = "validate"
    /\ ~ContractHolds(Successor[active[p]], path[p])
    /\ Finish(p, "failed")
    /\ UNCHANGED <<disk, minted, path, active, newMeta, newIndex, doomed, counters, history>>

-----------------------------------------------------------------------------
(* storage --delete                                                        *)

\* The index without the container whose identifier is i.
WithoutContainer(entries, i) == {e \in entries : e.id # i}

\* The identifiers a delete can resolve; loading an unreadable index raises.
ListedIds == IF index = Unreadable THEN {} ELSE {e.id : e \in index}

\* StorageDeleteCommand.run up to repository.save.
StartDelete(p, i) ==
    /\ pc[p] = "idle"
    /\ commands < MaxCommands
    /\ commands' = commands + 1
    /\ \/ /\ i \in ListedIds
          /\ newIndex' = [newIndex EXCEPT ![p] = WithoutContainer(index, i)]
          /\ doomed' = [doomed EXCEPT ![p] = i]
          /\ Goto(p, "deindex_truncate")
       \/ /\ i \notin ListedIds
          /\ Finish(p, "not_deleted")
          /\ UNCHANGED <<newIndex, doomed>>
    /\ UNCHANGED <<disk, minted, path, active, newMeta, crashes, folderOps, history>>

WriteDeindexed(p) ==
    /\ pc[p] = "deindex_write"
    /\ index' = newIndex[p]
    /\ newIndex' = [newIndex EXCEPT ![p] = {}]
    /\ registered' = registered \ {doomed[p]}
    /\ doomed' = [doomed EXCEPT ![p] = NoId]
    /\ Finish(p, "deleted")
    /\ UNCHANGED <<kind, meta, manifest, minted, path, active, newMeta, counters,
                   identity, written>>

-----------------------------------------------------------------------------
(* Crashes, and the owner of the folders                                   *)

\* A process is killed.  A storage.ttl it was writing keeps a prefix of the
\* file: some entries, or something that does not parse.  A container.ttl it
\* was writing holds no container.
Crash(p) ==
    /\ pc[p] # "idle"
    /\ crashes < MaxCrashes
    /\ crashes' = crashes + 1
    /\ IF pc[p] \in {"index_write", "deindex_write"}
          THEN index' \in {Unreadable} \cup SUBSET newIndex[p]
          ELSE UNCHANGED index
    /\ newMeta' = [newMeta EXCEPT ![p] = NoGraph]
    /\ newIndex' = [newIndex EXCEPT ![p] = {}]
    /\ doomed' = [doomed EXCEPT ![p] = NoId]
    /\ Finish(p, "crashed")
    /\ UNCHANGED <<kind, meta, manifest, minted, path, active, commands, folderOps, history>>

AllIdle == \A p \in Procs : pc[p] = "idle"

FolderOp ==
    /\ folderOps < MaxFolderOps
    /\ folderOps' = folderOps + 1
    /\ UNCHANGED <<index, minted, procState, commands, crashes, written, registered>>

\* Folder c becomes folder d, with everything in it.
MoveFolder(c, d) ==
    /\ kind[c] = "dir" /\ kind[d] = "absent"
    /\ AllIdle
    /\ FolderOp
    /\ kind' = [kind EXCEPT ![c] = "absent", ![d] = "dir"]
    /\ meta' = [meta EXCEPT ![c] = NoGraph, ![d] = meta[c]]
    /\ manifest' = [manifest EXCEPT ![c] = "stale", ![d] = manifest[c]]
    /\ identity' = [identity EXCEPT ![c] = NoId, ![d] = identity[c]]

\* A copy has new modification times unless they are preserved.
CopyFolder(c, d) ==
    /\ kind[c] = "dir" /\ kind[d] = "absent"
    /\ AllIdle
    /\ FolderOp
    /\ kind' = [kind EXCEPT ![d] = "dir"]
    /\ meta' = [meta EXCEPT ![d] = meta[c]]
    /\ \E m \in {"stale", manifest[c]} : manifest' = [manifest EXCEPT ![d] = m]
    /\ identity' = [identity EXCEPT ![d] = identity[c]]

RemoveFolder(c) ==
    /\ kind[c] = "dir"
    /\ AllIdle
    /\ FolderOp
    /\ kind' = [kind EXCEPT ![c] = "absent"]
    /\ meta' = [meta EXCEPT ![c] = NoGraph]
    /\ manifest' = [manifest EXCEPT ![c] = "stale"]
    /\ identity' = [identity EXCEPT ![c] = NoId]

\* Files are added to, removed from or edited in a folder.
EditFiles(c) ==
    /\ kind[c] = "dir" /\ manifest[c] = "synced"
    /\ FolderOp
    /\ manifest' = [manifest EXCEPT ![c] = "stale"]
    /\ UNCHANGED <<kind, meta, identity>>

\* A file is saved under the name of a folder that is still to be created.
PutFile(c) ==
    /\ kind[c] = "absent"
    /\ FolderOp
    /\ kind' = [kind EXCEPT ![c] = "file"]
    /\ UNCHANGED <<meta, manifest, identity>>

-----------------------------------------------------------------------------
\* What a process does by itself once its command has started.
Step(p) ==
    \/ EnterInvalidPath(p) \/ SkipHotfix(p) \/ MakeDirectory(p)
    \/ MetadataHotfix(p) \/ MetadataHotfixRefused(p)
    \/ TruncateMetadata(p) \/ WriteMetadata(p)
    \/ IndexHotfix(p) \/ IndexHotfixRefused(p) \/ TruncateIndex(p) \/ WriteIndex(p)
    \/ ManifestHotfix(p) \/ Validate(p) \/ ContractBroken(p) \/ WriteDeindexed(p)

Next ==
    \/ \E p \in Procs :
          \/ \E c \in Paths : StartCreate(p, c)
          \/ \E i \in Ids \cup LegacyIds : StartDelete(p, i)
          \/ Step(p)
          \/ Crash(p)
    \/ \E c \in Paths :
          \/ \E d \in Paths : MoveFolder(c, d) \/ CopyFolder(c, d)
          \/ RemoveFolder(c)
          \/ EditFiles(c)
          \/ PutFile(c)

Spec == Init /\ [][Next]_vars

\* A command that runs goes on running: the process is scheduled.
FairSpec == Spec /\ \A p \in Procs : WF_vars(Step(p))

-----------------------------------------------------------------------------
(* Properties                                                              *)

\* Every variable has a value of its kind; the identifiers that a command mints
\* are uuid4 identifiers, never path-derived ones.
TypeOK ==
    /\ kind \in [Paths -> {"absent", "file", "dir"}]
    /\ meta \in [Paths -> Entry \cup {NoGraph}]
    /\ index \in {Unreadable} \cup SUBSET Entry
    /\ manifest \in [Paths -> {"stale", "synced"}]
    /\ minted \in SUBSET Ids
    /\ pc \in [Procs -> PcStates]
    /\ path \in [Procs -> Paths]
    /\ active \in [Procs -> ChartStates]
    /\ newMeta \in [Procs -> Entry \cup {NoGraph}]
    /\ newIndex \in [Procs -> SUBSET Entry]
    /\ doomed \in [Procs -> Ids \cup LegacyIds \cup {NoId}]
    /\ outcome \in [Procs -> Outcomes]
    /\ commands \in 0..MaxCommands
    /\ crashes \in 0..MaxCrashes
    /\ folderOps \in 0..MaxFolderOps
    /\ identity \in [Paths -> Ids \cup LegacyIds \cup {NoId}]
    /\ written \in SUBSET Entry
    /\ registered \in SUBSET (Ids \cup LegacyIds)

\* No two entries of storage.ttl carry the same identifier, so that the lookups
\* that stop at the first match (get_registered_container_location,
\* storage --delete) have one answer: the index hotfix and the delete keep this
\* although each rewrites the whole file from a copy that may be stale.
UniqueIds ==
    index # Unreadable => \A e, f \in index : e.id = f.id => e = f

\* Every entry of storage.ttl was the content of some container.ttl: neither a
\* stale copy, nor a truncated file, nor a crash registers an identifier or a
\* location that no container ever had.
IndexFromContainers == index # Unreadable => index \subseteq written

\* identifier.py:9, "a container's id never changes for the container's
\* lifetime, regardless of where it lives on disk": the valid identifier in a
\* folder's container.ttl is the first one that the folder was given.
IdentityKept ==
    \A c \in Paths :
        meta[c] # NoGraph /\ ValidId(meta[c].id) => meta[c].id = identity[c]

\* A process that has truncated storage.ttl and not yet written it.
IndexOpen == \E p \in Procs : pc[p] \in {"index_write", "deindex_write"}

\* machine.py:201, "The local storage container directory, metadata, storage index
\* entry, and manifest are ready for the next creation steps": a container that a
\* create reported as created keeps its entry in storage.ttl
\* until a delete of its identifier, whatever other containers are created and
\* deleted and wherever the folders are moved.
RegistrationKept ==
    ~IndexOpen => /\ index # Unreadable
                  /\ registered \subseteq ListedIds

\* Every command that starts ends: the worker's loop visits no state twice.
CommandsEnd == \A p \in Procs : pc[p] # "idle" ~> pc[p] = "idle"
=============================================================================
