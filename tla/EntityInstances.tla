--------------------------- MODULE EntityInstances ---------------------------
(***************************************************************************)
(* Entity instances and the datasets that hold them.  context --create     *)
(* makes one dataset per instance: a free directory of the container, the  *)
(* dataset create chart, the workbook with its descriptor, the typed       *)
(* entity in dataset.ttl and, last, a copy of the facade.  context         *)
(* --entity lists the rows of every dataset whose facade describes the     *)
(* entity.  storage --create runs the chart alone, storage --update        *)
(* repairs the datasets that container.ttl names.                          *)
(*                                                                         *)
(* One command runs at a time.  Between two of its steps the owner of the  *)
(* project renames, deletes or replaces directories, removes workbooks and *)
(* marks entity types surfaceable; a step may be interrupted (an OSError   *)
(* or the end of the process) with the file it writes cut short.           *)
(***************************************************************************)
EXTENDS Naturals, Sequences, FiniteSets

CONSTANTS
    Types,          \* entity types, each with a facade.ttl and a type.ttl
    Slugs,          \* slugified names of instances
    FieldIds,       \* facade fields, GlobalId among them
    GlobalId,
    LocalFields,    \* the fields of a type's facade in the project, {} if none
    RemoteFields,   \* the fields of its facade in the remote ontology
    Required,       \* fields that the facades mark as required
    Rank,           \* the order of the fields
    Surfaceable,    \* the types that are marked surfaceable at first
    Refusing,       \* fields whose frictionless type refuses the name's text
    None,           \* no value
    MaxSuffix,      \* bound: the suffixes of a dataset directory
    MaxCommands,    \* bound: commands started
    MaxEdits,       \* bound: edits by the owner
    MaxFailures     \* bound: interrupted steps

ASSUME EntityAssumption ==
    /\ GlobalId \in FieldIds /\ None \notin Types /\ None \notin FieldIds
    /\ LocalFields \in [Types -> SUBSET FieldIds]
    /\ RemoteFields \in [Types -> SUBSET FieldIds]
    /\ Surfaceable \subseteq Types /\ Required \subseteq FieldIds /\ Refusing \subseteq FieldIds
    /\ Rank \in [FieldIds -> Nat]
    /\ {MaxSuffix, MaxCommands, MaxEdits, MaxFailures} \subseteq Nat

\* A dataset directory of the container: <entity>-<slug> and its suffix.
Paths == Types \X Slugs \X (1 .. MaxSuffix)

VARIABLES
    data,           \* what is at each path: a directory with its files, or not
    container,      \* container.ttl: its identifier and its dataset entries
    expected,       \* the identifier storage.ttl gives for the container's location
    marked,         \* the types that the ontology's type.ttl marks surfaceable
    command,        \* "none", "create" (an instance), "dataset" or "update"
    pc,             \* its next step
    path,           \* the dataset it works on
    active,         \* the dataset create chart's active state
    queue,          \* the datasets an update has left
    response,       \* how the last command ended
    created,        \* history: the instances reported as created
    touched,        \* history: the paths the owner has changed
    damaged,        \* history: see Damages and Interrupt
    disturbed,      \* history: owner or interruption since the command started
    commands, edits, failures

files == <<data, container>>
worker == <<command, pc, path, active, queue>>
history == <<created, touched, damaged>>
vars == <<files, expected, marked, worker, response, history, disturbed,
          commands, edits, failures>>

-----------------------------------------------------------------------------
(* A dataset directory.  dataset.ttl carries the path it was written for   *)
(* (identifier, location and ontology subject), its owner and its entity.  *)

NoMeta == [status |-> "missing", subject |-> None, owner |-> 0, type |-> None,
           instance |-> 0, surfaceable |-> FALSE]
NoWorkbook == [status |-> "missing", type |-> None, rows |-> {}]
NoPackage == [status |-> "missing", resource |-> FALSE, type |-> None]
NoFacade == [status |-> "missing", type |-> None]
NoTypeFile == [status |-> "missing", surfaceable |-> FALSE]

Entry(kind) == [kind |-> kind, meta |-> NoMeta, workbook |-> NoWorkbook,
                package |-> NoPackage, facade |-> NoFacade, typeFile |-> NoTypeFile]

Absent == Entry("absent")
File == Entry("file")
EmptyDirectory == Entry("directory")

IsDir(p) == data[p].kind = "directory"
Exists(p) == data[p].kind # "absent"
Whole(f) == f.status = "whole"

-----------------------------------------------------------------------------
(* The checks.                                                             *)

\* is_dataset_metadata_ready.
MetadataReady(p) ==
    /\ IsDir(p) /\ Whole(data[p].meta)
    /\ data[p].meta.subject = p /\ data[p].meta.owner = expected

\* is_dataset_container_index_ready.
IndexReady(p) ==
    /\ MetadataReady(p)
    /\ Whole(container) /\ p \in container.entries

\* is_container_datapackage_updated, for the dataset's own datapackage.json.
DatapackageUpdated(p) ==
    /\ Whole(data[p].package)
    /\ data[p].package.resource <=> data[p].workbook.status # "missing"

\* is_dataset_facade_valid: one typed entity, whose facade the linkset describes.
FacadeValid(p) ==
    /\ IsDir(p) /\ Whole(data[p].meta)
    /\ data[p].meta.type # None
    /\ Whole(data[p].facade) /\ data[p].facade.type = data[p].meta.type

\* is_dataset_surfaceable_synced.
SurfaceableSynced(p) ==
    /\ IsDir(p)
    /\ data[p].typeFile.status # "missing" =>
         /\ Whole(data[p].meta)
         /\ data[p].meta.type # None =>
              /\ Whole(data[p].typeFile)
              /\ data[p].typeFile.surfaceable => data[p].meta.surfaceable

\* is_dataset_healthy; every local resource is a workbook, which frictionless parses.
Healthy(p) ==
    /\ MetadataReady(p) /\ IndexReady(p)
    /\ DatapackageUpdated(p)
    /\ FacadeValid(p) /\ SurfaceableSynced(p)

-----------------------------------------------------------------------------
(* context --entity: the rows of every dataset that container.ttl names.   *)

\* _resolve_dataset_facade reads the facade where there is one; a dataset without,
\* or with another entity's, is passed over.
FacadeTorn(p) == data[p].facade.status = "torn"

Describes(p, t) == Whole(data[p].facade) /\ data[p].facade.type = t

\* The descriptor that _select_entity_resource_descriptors finds by its entityUri.
DescriptorFound(p, t) ==
    Whole(data[p].package) /\ data[p].package.resource /\ data[p].package.type = t

\* frictionless opens the file of the descriptor.
RowsReadable(p) == Whole(data[p].workbook)

\* DatasetEntityInstanceRepository.list_instances raises otherwise.
Readable(p, t) == Whole(data[p].meta) /\ DescriptorFound(p, t) /\ RowsReadable(p)

\* _resolve_dataset_subjects and their locations, of a container.ttl that loads.
Named == container.entries

\* One dataset that cannot be read makes the whole listing raise.
ListingRaises(t) ==
    \/ ~Whole(container)
    \/ \E p \in Named : FacadeTorn(p) \/ (Describes(p, t) /\ ~Readable(p, t))

ListedRows(t) == UNION {data[p].workbook.rows : p \in {q \in Named : Describes(q, t)}}

-----------------------------------------------------------------------------
(* The facade of an entity, and the field that takes the instance's name.  *)

\* resolve_entity_facade: the project's own facade before the remote ontology's.
FieldsOf(t) == IF LocalFields[t] # {} THEN LocalFields[t] ELSE RemoteFields[t]

\* _build_workbook_contract, and check() before it, want fields.
HasContract(t) == FieldsOf(t) # {}

\* The facade's fields are sorted.
First(fields) == CHOOSE f \in fields : \A g \in fields : Rank[f] <= Rank[g]

\* _resolve_target_field_name.
TargetField(t) ==
    LET writable == FieldsOf(t) \ {GlobalId}
        required == writable \cap Required
    IN IF required # {} THEN First(required)
       ELSE IF writable # {} THEN First(writable) ELSE None

\* EntityWorkbookAdapter.read, None when it raises.
ExistingRows(p, t) ==
    LET w == data[p].workbook
    IN CASE w.status = "missing" -> {}
         [] Whole(w) /\ w.type = t -> w.rows
         [] OTHER -> None

\* _resolve_new_dataset_path: the first suffix that is not taken.
FreePath(t, s) ==
    LET free == {n \in 1 .. MaxSuffix : ~Exists(<<t, s, n>>)}
    IN IF free = {} THEN None
       ELSE <<t, s, CHOOSE n \in free : \A m \in free : n <= m>>

-----------------------------------------------------------------------------
(* The dataset create chart.                                               *)

\* DatasetCreateStateEvaluatorAdapter.evaluate.
ObservedState(p) ==
    CASE data[p].kind = "file" -> "invalid_path"
      [] IndexReady(p) -> "dataset_container_index_ready"
      [] MetadataReady(p) -> "dataset_metadata_ready"
      [] IsDir(p) -> "directory_ready"
      [] OTHER -> "undefined"

Final == {"invalid_path", "dataset_container_index_ready"}

\* can_transit_to, with the transitions of standard_dataset_create.yaml.
Successor ==
    CASE active = "undefined" /\ ObservedState(path) = "invalid_path" -> "invalid_path"
      [] active = "undefined" -> "directory_ready"
      [] active = "directory_ready" -> "dataset_metadata_ready"
      [] OTHER -> "dataset_container_index_ready"

-----------------------------------------------------------------------------
(* The steps that write, shared by the chart and by the update.            *)

\* is_dataset_metadata_ready/hotfix builds dataset.ttl anew, with a stub entity.
FreshMeta(p) ==
    [NoMeta EXCEPT !.status = "whole", !.subject = p, !.owner = expected]

\* DirectoryReadyCapability.
MakeDirectory(p) == data' = [data EXCEPT ![p].kind = "directory"]

\* Mutant: dataset.ttl is rebuilt whatever the check says.
MakeMetadataAlways(p) ==
    data' = [data EXCEPT ![p] = [@ EXCEPT !.kind = "directory", !.meta = FreshMeta(p)]]

\* DatasetMetadataReadyCapability: check, hotfix, check.
MakeMetadata(p) ==
    IF MetadataReady(p) THEN UNCHANGED data
    ELSE data' = [data EXCEPT ![p] =
                    [@ EXCEPT !.kind = "directory", !.meta = FreshMeta(p)]]

MetadataPossible(p) == data[p].kind # "file"

\* DatasetContainerIndexReadyCapability: the entry mirrors dataset.ttl.
MakeIndex(p) == container' = [container EXCEPT !.entries = @ \cup {p}]

IndexPossible(p) == IndexReady(p) \/ (MetadataReady(p) /\ Whole(container))

\* Mutant: descriptors of lost files kept.
SyncedPackageKept(p) ==
    [data[p].package EXCEPT !.status = "whole",
                            !.resource = @ \/ data[p].workbook.status # "missing"]

\* ContainerDataPackageSynchronizer.sync: a descriptor lives as long as its file.
SyncedPackage(p) ==
    LET there == data[p].workbook.status # "missing"
        kept == there /\ data[p].package.resource
    IN [status |-> "whole", resource |-> there,
        type |-> IF kept THEN data[p].package.type ELSE None]

\* is_dataset_surfaceable_synced/hotfix has a marker to add.
MarkerMissing(p) ==
    /\ IsDir(p) /\ Whole(data[p].meta) /\ data[p].meta.type # None
    /\ Whole(data[p].typeFile) /\ data[p].typeFile.surfaceable
    /\ ~data[p].meta.surfaceable

-----------------------------------------------------------------------------
(* Commands.                                                               *)

Respond(r) ==
    /\ response' = r
    /\ command' = "none" /\ pc' = "idle"
    /\ path' = None /\ active' = "undefined" /\ queue' = {}

Goto(step) == pc' = step /\ UNCHANGED <<command, path, active, queue, response>>

At(step) ==
    /\ pc = step
    /\ UNCHANGED <<expected, marked, touched, damaged, disturbed, commands, edits, failures>>

\* A capability or a repository raises: the command ends, nothing is undone.
Raise == Respond("error") /\ UNCHANGED <<files, created>>

Start(c, p, step) ==
    /\ pc = "idle" /\ commands < MaxCommands
    /\ commands' = commands + 1
    /\ command' = c /\ path' = p /\ pc' = step
    /\ response' = "none" /\ disturbed' = FALSE
    /\ UNCHANGED <<files, expected, marked, active, queue, history, edits, failures>>

\* context --create <name> --entity <type>: check() has found a facade with fields.
StartCreate ==
    \E t \in Types, s \in Slugs :
      /\ HasContract(t) /\ FreePath(t, s) # None
      /\ Start("create", FreePath(t, s), "chart")

\* storage --container <id> --create <name>: a child directory, new or not.
StartDataset == \E p \in Paths : data[p].kind # "file" /\ Start("dataset", p, "chart")

StartUpdate == Start("update", None, "repair")

\* The worker's next state; _build_final_response once it is final, which context
\* --create ignores.
Proceed(s) ==
    IF s \notin Final
      THEN pc' = "perform" /\ active' = s /\ UNCHANGED <<command, path, queue, response>>
    ELSE IF command = "create"
      THEN pc' = "workbook" /\ active' = s /\ UNCHANGED <<command, path, queue, response>>
    ELSE Respond(IF s = "invalid_path" THEN "error" ELSE "dataset")

\* DatasetCreateStateTransitionHandler.execute: the worker starts where the disk is.
Chart == At("chart") /\ Proceed(ObservedState(path)) /\ UNCHANGED <<files, created>>

\* The capability of a state cannot do its work: it raises.
Possible(s) ==
    IF s = "dataset_container_index_ready" THEN IndexPossible(path)
    ELSE MetadataPossible(path)

Capability(s) ==
    \/ s = "directory_ready" /\ MakeDirectory(path) /\ UNCHANGED container
    \/ s = "dataset_metadata_ready" /\ MakeMetadata(path) /\ UNCHANGED container
    \/ s = "dataset_container_index_ready" /\ MakeIndex(path) /\ UNCHANGED data

\* perform_state_transition: nothing to do when the disk already shows the target.
Perform ==
    /\ At("perform")
    /\ IF Successor = ObservedState(path) THEN Goto("validate") /\ UNCHANGED files
       ELSE IF Possible(Successor) THEN Goto("validate") /\ Capability(Successor)
       ELSE Respond("error") /\ UNCHANGED files
    /\ UNCHANGED created

\* The contract of the transition: the disk shows the target, and no later state.
Validate ==
    /\ At("validate")
    /\ IF ObservedState(path) = Successor THEN Proceed(Successor) ELSE Respond("error")
    /\ UNCHANGED <<files, created>>

TypeOfPath == path[1]

\* Mutant: the facade is copied before the workbook is written.
SaveWorkbookWithFacade ==
    /\ At("workbook")
    /\ IF data[path].kind = "file" THEN Raise
       ELSE /\ data' = [data EXCEPT ![path].kind = "directory",
                                    ![path].facade = [status |-> "whole", type |-> TypeOfPath],
                                    ![path].workbook =
                          [status |-> "whole", type |-> TypeOfPath, rows |-> {commands}]]
            /\ Goto("package") /\ UNCHANGED <<container, created>>

\* The records that were read and the new one, named by the command's number.
WithNewRecord(rows) == rows \cup {commands}

\* _run_create_instance up to the workbook that generate saves.
SaveWorkbook ==
    LET t == TypeOfPath
        rows == ExistingRows(path, t)
    IN /\ At("workbook")
       /\ IF data[path].kind = "file" \/ ~HasContract(t) \/ rows = None \/ TargetField(t) = None
            THEN Raise
            ELSE /\ data' = [data EXCEPT ![path].kind = "directory",
                                         ![path].workbook =
                               [status |-> "whole", type |-> t, rows |-> WithNewRecord(rows)]]
                 /\ Goto("package") /\ UNCHANGED <<container, created>>

\* Mutant: the descriptor is written without its entityUri.
WriteDatapackageUntyped ==
    /\ At("package")
    /\ IF data[path].kind = "file" THEN Raise
       ELSE /\ data' = [data EXCEPT ![path].kind = "directory",
                                    ![path].package =
                          [status |-> "whole", resource |-> TRUE, type |-> None]]
            /\ Goto("frictionless") /\ UNCHANGED <<container, created>>

\* _write_datapackage: the resource of this name is replaced, in place.
WriteDatapackage ==
    /\ At("package")
    /\ IF data[path].kind = "file" THEN Raise
       ELSE /\ data' = [data EXCEPT ![path].kind = "directory",
                                    ![path].package =
                          [status |-> "whole", resource |-> TRUE, type |-> TypeOfPath]]
            /\ Goto("frictionless") /\ UNCHANGED <<container, created>>

\* generate validates the workbook it has written.
ValidateWorkbook ==
    /\ At("frictionless")
    /\ IF TargetField(TypeOfPath) \in Refusing \/ ~Whole(data[path].workbook)
         THEN Raise
         ELSE Goto("relate") /\ UNCHANGED <<files, created>>

\* _materialize_surfaceable_marker.
TypedMeta(m, t) ==
    [m EXCEPT !.type = t, !.instance = commands,
              !.surfaceable = m.surfaceable \/ t \in marked]

\* _relate_entity_in_dataset.
RelateEntity ==
    /\ At("relate")
    /\ IF ~Whole(data[path].meta) THEN Raise
       ELSE /\ data' = [data EXCEPT ![path].meta = TypedMeta(@, TypeOfPath)]
            /\ Goto("facade") /\ UNCHANGED <<container, created>>

\* _materialize_dataset_facade: facade.ttl, then type.ttl.
CopyFacade ==
    /\ At("facade")
    /\ IF data[path].kind = "file" THEN Raise
       ELSE /\ data' = [data EXCEPT ![path].kind = "directory",
                                    ![path].facade = [status |-> "whole", type |-> TypeOfPath]]
            /\ Goto("type") /\ UNCHANGED <<container, created>>

CopyTypeFile ==
    /\ At("type")
    /\ IF ~IsDir(path) THEN Raise
       ELSE /\ data' = [data EXCEPT ![path].typeFile =
                          [status |-> "whole", surfaceable |-> TypeOfPath \in marked]]
            /\ created' = created \cup {[path |-> path, instance |-> commands]}
            /\ Respond("created") /\ UNCHANGED container

-----------------------------------------------------------------------------
(* storage --update, as far as datasets see it.                            *)

\* The container's own repairs come first: a container.ttl that cannot be read is
\* replaced by one with a new identifier and no entries.  storage.ttl then has two
\* identifiers for the location, of which the first one read counts.
RepairContainer ==
    /\ pc = "repair"
    /\ IF Whole(container) THEN UNCHANGED <<container, expected>>
       ELSE /\ container' = [status |-> "whole", id |-> container.id + 1, entries |-> {}]
            /\ expected' \in {expected, container.id + 1}
    /\ queue' = container'.entries
    /\ pc' = "next"
    /\ UNCHANGED <<data, marked, command, path, active, response, history, disturbed,
                   commands, edits, failures>>

\* ContainerDatasetsHealthyCapability: the locations that container.ttl has.
NextDataset ==
    /\ At("next")
    /\ \/ \E p \in queue : /\ path' = p /\ queue' = queue \ {p} /\ pc' = "metadata"
                           /\ UNCHANGED <<command, active, response>>
       \/ queue = {} /\ Respond("updated")
    /\ UNCHANGED <<files, created>>

\* DatasetHealthyCapability.execute, capability by capability.
RepairMetadata ==
    /\ At("metadata")
    /\ IF MetadataPossible(path)
         THEN MakeMetadata(path) /\ Goto("index") /\ UNCHANGED <<container, created>>
         ELSE Raise

RepairIndex ==
    /\ At("index")
    /\ IF IndexPossible(path)
         THEN MakeIndex(path) /\ Goto("sync") /\ UNCHANGED <<data, created>>
         ELSE Raise

SyncPackage ==
    /\ At("sync")
    /\ IF IsDir(path) /\ data[path].package.status # "torn"
         THEN /\ data' = [data EXCEPT ![path].package = SyncedPackage(path)]
              /\ Goto("mark") /\ UNCHANGED <<container, created>>
         ELSE Raise

SyncSurfaceable ==
    /\ At("mark")
    /\ IF MarkerMissing(path)
         THEN data' = [data EXCEPT ![path].meta.surfaceable = TRUE]
         ELSE UNCHANGED data
    /\ Goto("next") /\ UNCHANGED <<container, created>>

-----------------------------------------------------------------------------
(* Interruptions and the owner.                                            *)

\* The file of the dataset that the next step rewrites in place.
Rewritten ==
    CASE pc = "perform" /\ Successor = "dataset_metadata_ready"
           /\ ObservedState(path) # Successor -> "meta"
      [] pc = "metadata" /\ ~MetadataReady(path) -> "meta"
      [] pc = "relate" /\ Whole(data[path].meta) -> "meta"
      [] pc = "mark" /\ MarkerMissing(path) -> "meta"
      [] pc = "workbook" /\ ExistingRows(path, TypeOfPath) # None
           /\ TargetField(TypeOfPath) # None -> "workbook"
      [] pc = "package" -> "package"
      [] pc = "facade" -> "facade"
      [] pc = "type" -> "typeFile"
      [] OTHER -> "none"

RewritesIndex ==
    /\ \/ pc = "perform" /\ Successor = "dataset_container_index_ready"
       \/ pc = "index"
    /\ ~IndexReady(path) /\ IndexPossible(path)

Torn(f) == [Entry("directory")[f] EXCEPT !.status = "torn"]

Interrupted ==
    /\ pc # "idle" /\ failures < MaxFailures
    /\ failures' = failures + 1 /\ disturbed' = TRUE
    /\ Respond("error")
    /\ UNCHANGED <<expected, marked, created, touched, commands, edits>>

\* The step ends with nothing written.
StepFails == Interrupted /\ UNCHANGED <<files, damaged>>

\* It ends with the file cut short.  What a listing then cannot read is damage: a
\* facade, or the dataset.ttl of a dataset that has a facade.
WriteFails ==
    /\ Interrupted
    /\ Rewritten # "none" /\ IsDir(path)
    /\ data' = [data EXCEPT ![path][Rewritten] = Torn(Rewritten)]
    /\ damaged' = (damaged \/ Rewritten = "facade" \/ data[path].facade.status # "missing")
    /\ UNCHANGED container

IndexWriteFails ==
    /\ Interrupted
    /\ RewritesIndex
    /\ container' = [container EXCEPT !.status = "torn"]
    /\ damaged' = TRUE
    /\ UNCHANGED data

\* The owner's edits, at any moment (the bounds stop them after the last command);
\* one under a running command is damage.
Edit(ps) ==
    /\ edits < MaxEdits /\ (pc = "idle" => commands < MaxCommands)
    /\ edits' = edits + 1 /\ disturbed' = TRUE
    /\ touched' = touched \cup ps
    /\ UNCHANGED <<container, expected, worker, response, created, commands, failures>>

Damages(ps) == damaged' = (damaged \/ path \in ps)

Rename ==
    \E p, q \in Paths :
      /\ Exists(p) /\ ~Exists(q)
      /\ Edit({p, q}) /\ Damages({p, q})
      /\ data' = [data EXCEPT ![q] = data[p], ![p] = Absent]
      /\ UNCHANGED marked

Delete ==
    \E p \in Paths :
      /\ Exists(p)
      /\ Edit({p}) /\ Damages({p})
      /\ data' = [data EXCEPT ![p] = Absent]
      /\ UNCHANGED marked

PutFile ==
    \E p \in Paths :
      /\ ~Exists(p)
      /\ Edit({p}) /\ Damages({p})
      /\ data' = [data EXCEPT ![p] = File]
      /\ UNCHANGED marked

RemoveWorkbook ==
    \E p \in Paths :
      /\ data[p].workbook.status # "missing"
      /\ Edit({p}) /\ damaged' = TRUE
      /\ data' = [data EXCEPT ![p].workbook = NoWorkbook]
      /\ UNCHANGED marked

MarkType ==
    \E t \in Types \ marked :
      /\ Edit({}) /\ marked' = marked \cup {t}
      /\ UNCHANGED <<data, damaged>>

-----------------------------------------------------------------------------
Init ==
    /\ data = [p \in Paths |-> Absent]
    /\ container = [status |-> "whole", id |-> 1, entries |-> {}]
    /\ expected = 1
    /\ marked = Surfaceable
    /\ command = "none" /\ pc = "idle" /\ path = None
    /\ active = "undefined" /\ queue = {} /\ response = "none"
    /\ created = {} /\ touched = {} /\ damaged = FALSE /\ disturbed = FALSE
    /\ commands = 0 /\ edits = 0 /\ failures = 0

ChartStep == Chart \/ Perform \/ Validate

CreateStep ==
    \/ SaveWorkbook \/ WriteDatapackage \/ ValidateWorkbook
    \/ RelateEntity \/ CopyFacade \/ CopyTypeFile

UpdateStep ==
    \/ RepairContainer \/ NextDataset
    \/ RepairMetadata \/ RepairIndex \/ SyncPackage \/ SyncSurfaceable

Step == ChartStep \/ CreateStep \/ UpdateStep

Next ==
    \/ StartCreate \/ StartDataset \/ StartUpdate
    \/ Step
    \/ StepFails \/ WriteFails \/ IndexWriteFails
    \/ Rename \/ Delete \/ PutFile \/ RemoveWorkbook \/ MarkType

Spec == Init /\ [][Next]_vars

-----------------------------------------------------------------------------
(* Properties.                                                             *)

Statuses == {"missing", "torn", "whole"}

Datasets ==
    [kind : {"absent", "file", "directory"},
     meta : [status : Statuses, subject : Paths \cup {None}, owner : Nat,
             type : Types \cup {None}, instance : Nat, surfaceable : BOOLEAN],
     workbook : [status : Statuses, type : Types \cup {None}, rows : SUBSET Nat],
     package : [status : Statuses, resource : BOOLEAN, type : Types \cup {None}],
     facade : [status : Statuses, type : Types \cup {None}],
     typeFile : [status : Statuses, surfaceable : BOOLEAN]]

\* Type invariant of the datasets, container.ttl and the command that works on them.
TypeOK ==
    /\ data \in [Paths -> Datasets]
    /\ container \in [status : {"torn", "whole"}, id : Nat, entries : SUBSET Paths]
    /\ expected \in Nat /\ marked \subseteq Types
    /\ command \in {"none", "create", "dataset", "update"}
    /\ pc \in {"idle", "chart", "perform", "validate", "workbook", "package",
               "frictionless", "relate", "facade", "type", "repair", "next",
               "metadata", "index", "sync", "mark"}
    /\ path \in Paths \cup {None}
    /\ active \in Final \cup {"undefined", "directory_ready", "dataset_metadata_ready"}
    /\ queue \subseteq Paths
    /\ response \in {"none", "error", "created", "dataset", "updated"}
    /\ created \subseteq [path : Paths, instance : Nat]
    /\ touched \subseteq Paths /\ damaged \in BOOLEAN /\ disturbed \in BOOLEAN
    /\ commands \in Nat /\ edits \in Nat /\ failures \in Nat

\* An instance that context --create has reported stays in the listing of its entity,
\* and the listing does not raise, whatever later commands do or leave half done,
\* unless a write of container.ttl, of a facade or of a finished dataset was cut, or
\* the owner changed that dataset, removed a workbook or edited under a command.
CreatedIsListed ==
    (pc = "idle" /\ ~damaged) =>
      \A c \in created : c.path \notin touched =>
        /\ ~ListingRaises(c.path[1])
        /\ c.instance \in ListedRows(c.path[1])
        /\ FacadeValid(c.path)

\* A dataset that storage --update would report as healthy can be listed, and the
\* entity that its dataset.ttl names is one of the listed rows.
HealthyIsListed ==
    \A p \in Paths : (Healthy(p) /\ p \notin touched) =>
      /\ Readable(p, data[p].meta.type)
      /\ data[p].meta.instance \in data[p].workbook.rows

\* After an update that nobody disturbed, every dataset that container.ttl names has
\* its metadata, its entry and its datapackage in order: no repair undoes another's.
UpdatedIsReady ==
    (pc = "idle" /\ response = "updated" /\ ~disturbed) =>
      \A p \in container.entries :
        /\ IndexReady(p) /\ DatapackageUpdated(p)
        /\ FacadeValid(p) => SurfaceableSynced(p) \/ data[p].typeFile.status = "torn"

\* The facade is copied last: where there is one, and nothing was cut or edited under a
\* command, the rest of the dataset is complete, so that a killed context --create leaves
\* a dataset that a listing passes over and never one it fails on.
FacadeLast ==
    ~damaged => \A p \in Paths :
      data[p].facade.status # "missing" =>
        Whole(data[p].facade) /\ Readable(p, data[p].facade.type)
=============================================================================
