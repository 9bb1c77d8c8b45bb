-------------------------- MODULE ContainerUpdate --------------------------
(***************************************************************************)
(* storage --update: ContainerUpdateStateTransitionHandler drives the      *)
(* chart standard_container_update.yaml through StateWorkerAdapter.  Each  *)
(* transition runs a capability unless the directory already shows the     *)
(* target state, and then requires that the directory shows it.  The       *)
(* owner of the directory edits it meanwhile, a capability may raise, and  *)
(* the process may be killed; the context, the process markers in it       *)
(* included, survives in context.ttl.                                      *)
(*                                                                         *)
(* A file's content stands for the size and times that the descriptors     *)
(* record.  The HTML view's content is the file inventory it was generated *)
(* from.  container.ttl and storage.ttl are reduced to whether their       *)
(* checks hold; module ContainerRegistry has the detail.                   *)
(***************************************************************************)
EXTENDS Naturals, Sequences, FiniteSets

CONSTANTS
    Tabular,        \* user files that frictionless has a parser for
    Opaque,         \* user files that it has none for
    Junk,           \* files that are cleaned (.DS_Store)
    IndexFile,      \* index.html
    Contents,       \* contents of a user file
    Original,       \* the content a file has at first
    Gone,           \* the file is not there
    PartialView,    \* an index.html that was not finished
    Datasets,       \* datasets registered in container.ttl
    None,           \* no value
    MaxCommands,    \* bound: commands started
    MaxEdits,       \* bound: edits by the owner of the directory
    MaxFailures     \* bound: capabilities that raise, and kills

UserFiles == Tabular \cup Opaque \cup Junk

ASSUME UpdateAssumption ==
    /\ Tabular \cap Opaque = {} /\ Tabular \cap Junk = {} /\ Opaque \cap Junk = {}
    /\ IndexFile \notin UserFiles
    /\ Original \in Contents /\ Gone \notin Contents /\ None \notin Datasets
    /\ \A v \in [Tabular \cup Opaque -> Contents \cup {Gone}] : v # Gone
    /\ MaxCommands \in Nat /\ MaxEdits \in Nat /\ MaxFailures \in Nat

VARIABLES
    dir,            \* the container directory exists
    files,          \* its user files
    view,           \* its index.html
    datapackage,    \* .__ontobdc__/datapackage.json
    crate,          \* .__ontobdc__/ro-crate-metadata.json
    metadata,       \* what the container.ttl check and hotfix would find
    storageIndex,   \* what the storage.ttl check and hotfix would find
    health,         \* what each dataset's checks and hotfixes would find
    markers,        \* the markers of the process in the context
    datasetPath,    \* the context's dataset_path
    pc,             \* the worker: "idle", "ready" or "running"
    active,         \* the chart's active state
    target,         \* the target of the transition that is running
    todo,           \* the steps its capability has left
    queue,          \* the datasets its capability has left
    response,       \* how the last command ended
    viewed,         \* history: index.html was there when it started
    disturbed,      \* history: the directory was edited since it started
    raised,         \* history: a capability raised since it started
    repaired,       \* history: the datasets it has been through
    commands, edits, failures

tree == <<dir, files, view>>
descriptors == <<datapackage, crate>>
registration == <<metadata, storageIndex, health>>
context == <<markers, datasetPath>>
worker == <<pc, active, target, todo, queue, response>>
history == <<viewed, disturbed, raised, repaired>>
bounds == <<commands, edits, failures>>
vars == <<tree, descriptors, registration, context, worker, history, bounds>>

-----------------------------------------------------------------------------
(* The chart.                                                              *)

Ordered == <<"undefined", "container_healthy", "container_datasets_healthy",
             "container_cleaned", "container_datapackage_updated",
             "container_ro_crate_updated", "container_html_view_updated",
             "container_updated">>

States == {Ordered[i] : i \in DOMAIN Ordered} \cup {"container_invalid"}

IndexOf(s) == CHOOSE i \in DOMAIN Ordered : Ordered[i] = s

StateReaches(observed, to) ==
    \/ observed = to
    \/ /\ observed # "container_invalid" /\ to # "container_invalid"
       /\ IndexOf(observed) >= IndexOf(to)

FinalStates == {"container_invalid", "container_updated"}

-----------------------------------------------------------------------------
(* The inventories.                                                        *)

(* list_resource_paths: the formats frictionless parses, HTML among them.  *)
Supported == Tabular \cup {IndexFile}

(* is_file_blocked_from_publication.                                       *)
Blocked == Junk \cup {IndexFile}

Published == UserFiles \ Blocked

ContentOf(f) == IF f = IndexFile THEN view ELSE files[f]

Present == {f \in UserFiles \cup {IndexFile} : ContentOf(f) # Gone}

Inventory == [f \in Present \cap Supported |-> ContentOf(f)]

Manifest == [f \in Present \cap Published |-> files[f]]

(* What the Surface pipeline gathers and embeds in index.html.             *)
Gathered == [f \in Published |-> files[f]]

-----------------------------------------------------------------------------
(* The checks, and the state the directory shows.                          *)

Absent == [status |-> "absent", parts |-> <<>>]
Corrupt == [status |-> "corrupt", parts |-> <<>>]
Written(parts) == [status |-> "written", parts |-> parts]

Cleaned == Junk \cap Present = {}

DatapackageUpdated == datapackage = Written(Inventory)

ManifestSynced == storageIndex = "ready" /\ crate = Written(Manifest)

(* Descriptors that cannot be read make the directory invalid only once    *)
(* the earlier checks have passed.                                         *)
ObservedState ==
    IF ~dir THEN "container_invalid"
    ELSE IF metadata # "ready" \/ storageIndex # "ready" THEN "undefined"
    ELSE IF ~markers.container_datasets_healthy THEN "container_healthy"
    ELSE IF ~Cleaned THEN "container_datasets_healthy"
    ELSE IF datapackage = Corrupt THEN "container_invalid"
    ELSE IF ~DatapackageUpdated THEN "container_cleaned"
    ELSE IF ~ManifestSynced THEN "container_datapackage_updated"
    ELSE IF view # Gone /\ markers.container_html_view_updated
      THEN "container_html_view_updated"
    ELSE "container_ro_crate_updated"

(* The transition of the chart whose guard holds.                          *)
Successor(from) ==
    CASE from = "undefined" ->
           IF ObservedState = "container_invalid"
             THEN "container_invalid" ELSE "container_healthy"
      [] from = "container_ro_crate_updated" ->
           IF view # Gone THEN "container_html_view_updated" ELSE "container_updated"
      [] OTHER -> Ordered[IndexOf(from) + 1]

StepNames == {"metadata", "index", "datapackage", "manifest", "prune", "complete",
              "list", "datasets", "clean", "drop", "surface", "mark"}

\* Mutant of Steps: the descriptors are not synchronized after the generation.
StepsWithoutResync(to) ==
    CASE to = "container_healthy" ->
           <<"metadata", "index", "datapackage", "manifest", "prune", "complete">>
      [] to = "container_datasets_healthy" -> <<"list", "datasets">>
      [] to = "container_cleaned" -> <<"clean">>
      [] to = "container_datapackage_updated" -> <<"datapackage">>
      [] to = "container_ro_crate_updated" -> <<"manifest">>
      [] to = "container_html_view_updated" -> <<"drop", "surface", "mark">>

(* The steps of the capability for each target state.                      *)
Steps(to) ==
    CASE to = "container_healthy" ->
           <<"metadata", "index", "datapackage", "manifest", "prune", "complete">>
      [] to = "container_datasets_healthy" -> <<"list", "datasets">>
      [] to = "container_cleaned" -> <<"clean">>
      [] to = "container_datapackage_updated" -> <<"datapackage">>
      [] to = "container_ro_crate_updated" -> <<"manifest">>
      [] to = "container_html_view_updated" ->
           <<"drop", "surface", "datapackage", "manifest", "mark">>

Markers == [container_datasets_healthy : BOOLEAN, container_html_view_updated : BOOLEAN]

NoMarkers == [container_datasets_healthy |-> FALSE, container_html_view_updated |-> FALSE]

-----------------------------------------------------------------------------
TypeOK ==
    /\ dir \in BOOLEAN
    /\ files \in [UserFiles -> Contents \cup {Gone}]
    /\ view \in {Gone, PartialView} \cup [Published -> Contents \cup {Gone}]
    /\ datapackage.status \in {"absent", "corrupt", "written"}
    /\ crate.status \in {"absent", "written"}
    /\ metadata \in {"ready", "stale", "broken"}
    /\ storageIndex \in {"ready", "stale", "broken"}
    /\ health \in [Datasets -> {"ready", "stale", "unsound", "broken"}]
    /\ markers \in Markers
    /\ datasetPath \in Datasets \cup {None}
    /\ pc \in {"idle", "ready", "running"}
    /\ active \in States /\ target \in States /\ todo \in Seq(StepNames)
    /\ queue \subseteq Datasets /\ repaired \subseteq Datasets
    /\ response \in {"none", "updated", "invalid", "error", "killed"}
    /\ viewed \in BOOLEAN /\ disturbed \in BOOLEAN /\ raised \in BOOLEAN
    /\ commands \in 0 .. MaxCommands /\ edits \in 0 .. MaxEdits
    /\ failures \in 0 .. MaxFailures

(* A container that was created, whose descriptors were written for the    *)
(* directory as it is or not at all, perhaps damaged since.                *)
Init ==
    /\ dir = TRUE
    /\ files \in [UserFiles -> {Original, Gone}]
    /\ view \in {Gone, Gathered}
    /\ datapackage \in {Absent, Corrupt, Written(Inventory)}
    /\ crate \in {Absent, Written(Manifest)}
    /\ metadata \in {"ready", "stale", "broken"}
    /\ storageIndex \in {"ready", "stale", "broken"}
    /\ health \in [Datasets -> {"ready", "stale", "unsound", "broken"}]
    /\ markers = NoMarkers /\ datasetPath = None
    /\ pc = "idle" /\ active = "undefined" /\ target = "undefined"
    /\ todo = <<>> /\ queue = {} /\ response = "none"
    /\ viewed = FALSE /\ disturbed = FALSE /\ raised = FALSE /\ repaired = {}
    /\ commands = 0 /\ edits = 0 /\ failures = 0

-----------------------------------------------------------------------------
(* The command: check drops dataset_path, the handler drops the markers of *)
(* an earlier process, and the worker starts in the state it observes.     *)

\* Mutants of ClearProcessMarkers: one marker is forgotten.
ClearDatasetsMarker == markers' = [markers EXCEPT !.container_datasets_healthy = FALSE]
ClearViewMarker == markers' = [markers EXCEPT !.container_html_view_updated = FALSE]

ClearProcessMarkers == markers' = NoMarkers

Start ==
    /\ pc = "idle" /\ commands < MaxCommands
    /\ UNCHANGED <<tree, descriptors, registration, edits, failures>>
    /\ ClearProcessMarkers
    /\ datasetPath' = None
    /\ active' = ObservedState'
    /\ pc' = IF active' \in FinalStates THEN "idle" ELSE "ready"
    /\ response' = IF active' \in FinalStates THEN "invalid" ELSE "none"
    /\ target' = active' /\ todo' = <<>> /\ queue' = {}
    /\ viewed' = (view # Gone)
    /\ disturbed' = FALSE /\ raised' = FALSE /\ repaired' = {}
    /\ commands' = commands + 1

(* Once the interpreter is final it has no configuration, and the active   *)
(* state is the observed one: the response is built from that.             *)
Finish ==
    /\ pc = "ready" /\ Successor(active) \in FinalStates
    /\ active' = ObservedState
    /\ target' = Successor(active)
    /\ response' = IF ObservedState = "container_invalid" THEN "invalid" ELSE "updated"
    /\ pc' = "idle"
    /\ UNCHANGED <<tree, descriptors, registration, context, todo, queue, history, bounds>>

(* perform_state_transition skips the capability when the directory        *)
(* already shows the target.                                               *)
Perform ==
    /\ pc = "ready" /\ Successor(active) \notin FinalStates
    /\ target' = Successor(active)
    /\ todo' = IF StateReaches(ObservedState, target') THEN <<>> ELSE Steps(target')
    /\ pc' = "running"
    /\ UNCHANGED <<tree, descriptors, registration, context, active, queue,
                   response, history, bounds>>

\* Mutant of EndInError: dataset_path is given back only on success.
EndWithoutFinally ==
    /\ pc' = "idle" /\ response' = "error" /\ todo' = <<>> /\ queue' = {}
    /\ UNCHANGED <<context, active, target>>

(* A capability that raises ends the command: the interpreter does not     *)
(* catch it, and `finally` gives dataset_path back.                        *)
EndInError ==
    /\ pc' = "idle" /\ response' = "error" /\ todo' = <<>> /\ queue' = {}
    /\ datasetPath' = None
    /\ UNCHANGED <<markers, active, target>>

\* Mutant of Validate: a transition that fails its contract is tried again.
RetryTransition ==
    /\ pc = "running" /\ todo = <<>>
    /\ pc' = "ready"
    /\ active' = IF StateReaches(ObservedState, target) THEN target ELSE active
    /\ UNCHANGED <<tree, descriptors, registration, context, target, todo, queue, response,
                   history, bounds>>

(* The contract of the transition.                                         *)
Validate ==
    /\ pc = "running" /\ todo = <<>>
    /\ IF StateReaches(ObservedState, target)
         THEN /\ active' = target /\ pc' = "ready"
              /\ UNCHANGED <<context, target, todo, queue, response>>
         ELSE EndInError
    /\ UNCHANGED <<tree, descriptors, registration, history, bounds>>

-----------------------------------------------------------------------------
(* The steps of the capabilities.                                          *)

At(step) == pc = "running" /\ todo # <<>> /\ Head(todo) = step

Proceed ==
    /\ todo' = Tail(todo)
    /\ UNCHANGED <<pc, active, target, response>>

(* A hotfix restores a stale file; what it cannot restore raises.          *)
MetadataReady ==
    /\ At("metadata") /\ dir /\ metadata # "broken"
    /\ metadata' = "ready" /\ Proceed
    /\ UNCHANGED <<tree, descriptors, storageIndex, health, context, queue, history, bounds>>

StorageIndexReady ==
    /\ At("index") /\ dir /\ storageIndex # "broken"
    /\ storageIndex' = "ready" /\ Proceed
    /\ UNCHANGED <<tree, descriptors, metadata, health, context, queue, history, bounds>>

(* ContainerDataPackageSynchronizer.sync.                                  *)
SyncDatapackage ==
    /\ At("datapackage") /\ dir /\ datapackage # Corrupt
    /\ datapackage' = Written(Inventory) /\ Proceed
    /\ UNCHANGED <<tree, crate, registration, context, queue, history, bounds>>

SyncManifest ==
    /\ At("manifest") /\ dir /\ storageIndex = "ready"
    /\ crate' = Written(Manifest) /\ Proceed
    /\ UNCHANGED <<tree, datapackage, registration, context, queue, history, bounds>>

(* Resources frictionless cannot parse are dropped from the descriptor,    *)
(* and files of the RO-Crate that it can parse are added to it.            *)
PruneDatapackage ==
    /\ At("prune") /\ dir /\ datapackage.status = "written"
    /\ datapackage' = Written([f \in DOMAIN datapackage.parts \cap Supported |->
                                  datapackage.parts[f]])
    /\ Proceed
    /\ UNCHANGED <<tree, crate, registration, context, queue, history, bounds>>

CompleteDatapackage ==
    /\ At("complete") /\ dir /\ datapackage.status = "written" /\ crate.status = "written"
    /\ LET known == DOMAIN datapackage.parts
       IN datapackage' = Written([f \in known \cup (DOMAIN crate.parts \cap Supported) |->
                                     IF f \in known THEN datapackage.parts[f] ELSE files[f]])
    /\ Proceed
    /\ UNCHANGED <<tree, crate, registration, context, queue, history, bounds>>

(* The datasets of container.ttl are visited one by one, under             *)
(* dataset_path.  One whose facade is unsound has no hotfix and is only    *)
(* reported.                                                               *)
ListDatasets ==
    /\ At("list")
    /\ queue' = (IF dir THEN Datasets ELSE {}) /\ Proceed
    /\ UNCHANGED <<tree, descriptors, registration, context, history, bounds>>

RepairDataset(d) ==
    /\ At("datasets") /\ dir /\ d \in queue /\ health[d] # "broken"
    /\ datasetPath' = d
    /\ health' = [health EXCEPT ![d] = IF @ = "stale" THEN "ready" ELSE @]
    /\ queue' = queue \ {d} /\ repaired' = repaired \cup {d}
    /\ UNCHANGED <<tree, descriptors, metadata, storageIndex, markers, pc, active, target,
                   todo, response, viewed, disturbed, raised, bounds>>

DatasetsHealthy ==
    /\ At("datasets") /\ queue = {}
    /\ datasetPath' = None
    /\ markers' = [markers EXCEPT !.container_datasets_healthy = TRUE] /\ Proceed
    /\ UNCHANGED <<tree, descriptors, registration, queue, history, bounds>>

CleanContainer ==
    /\ At("clean") /\ dir
    /\ files' = [f \in UserFiles |-> IF f \in Junk THEN Gone ELSE files[f]] /\ Proceed
    /\ UNCHANGED <<dir, view, descriptors, registration, context, queue, history, bounds>>

(* The view is removed, generated anew by the Surface pipeline, and the    *)
(* descriptors are synchronized again before the marker is set.            *)
DropView ==
    /\ At("drop") /\ view # Gone
    /\ view' = Gone /\ Proceed
    /\ UNCHANGED <<dir, files, descriptors, registration, context, queue, history, bounds>>

GenerateSurface ==
    /\ At("surface") /\ dir
    /\ view' = Gathered /\ Proceed
    /\ UNCHANGED <<dir, files, descriptors, registration, context, queue, history, bounds>>

HtmlViewUpdated ==
    /\ At("mark")
    /\ markers' = [markers EXCEPT !.container_html_view_updated = TRUE] /\ Proceed
    /\ UNCHANGED <<tree, descriptors, registration, datasetPath, queue, history, bounds>>

(* The conditions under which a step cannot do its work.                   *)
Impossible ==
    \/ At("metadata") /\ (~dir \/ metadata = "broken")
    \/ At("index") /\ (~dir \/ storageIndex = "broken")
    \/ At("datapackage") /\ (~dir \/ datapackage = Corrupt)
    \/ At("manifest") /\ (~dir \/ storageIndex # "ready")
    \/ At("prune") /\ (~dir \/ datapackage.status # "written")
    \/ At("complete") /\ (~dir \/ datapackage.status # "written" \/ crate.status # "written")
    \/ At("datasets") /\ queue # {} /\ (~dir \/ \E d \in queue : health[d] = "broken")
    \/ At("clean") /\ ~dir
    \/ At("drop") /\ view = Gone
    \/ At("surface") /\ ~dir

StepRaises ==
    /\ Impossible /\ EndInError
    /\ UNCHANGED <<tree, descriptors, registration, history, bounds>>

(* What a step that stops half way leaves: a view that is removed and not  *)
(* finished, or an RO-Crate that does not parse, which the checks treat    *)
(* like an absent one.                                                     *)
Interrupted ==
    /\ view' \in IF At("surface") /\ dir THEN {view, PartialView} ELSE {view}
    /\ crate' \in IF At("manifest") /\ dir THEN {crate, Absent} ELSE {crate}
    /\ UNCHANGED <<dir, files, datapackage>>

(* An I/O error in a step.                                                 *)
StepFails ==
    /\ pc = "running" /\ todo # <<>> /\ failures < MaxFailures
    /\ Interrupted /\ EndInError
    /\ failures' = failures + 1 /\ raised' = TRUE
    /\ UNCHANGED <<registration, viewed, disturbed, repaired, commands, edits>>

(* The process is killed: nothing gives dataset_path back.                 *)
Kill ==
    /\ pc # "idle" /\ failures < MaxFailures
    /\ Interrupted
    /\ pc' = "idle" /\ response' = "killed" /\ todo' = <<>> /\ queue' = {}
    /\ failures' = failures + 1
    /\ UNCHANGED <<registration, context, active, target, history, commands, edits>>

-----------------------------------------------------------------------------
(* The owner of the directory, at any time.                                *)

Edit(f, c) ==
    /\ dir /\ edits < MaxEdits /\ c # files[f]
    /\ files' = [files EXCEPT ![f] = c]
    /\ edits' = edits + 1 /\ disturbed' = TRUE
    /\ UNCHANGED <<dir, view, descriptors, registration, context, worker, viewed, raised,
                   repaired, commands, failures>>

DeleteView ==
    /\ dir /\ edits < MaxEdits /\ view # Gone
    /\ view' = Gone
    /\ edits' = edits + 1 /\ disturbed' = TRUE
    /\ UNCHANGED <<dir, files, descriptors, registration, context, worker, viewed, raised,
                   repaired, commands, failures>>

DeleteDirectory ==
    /\ dir /\ edits < MaxEdits
    /\ dir' = FALSE
    /\ files' = [f \in UserFiles |-> Gone] /\ view' = Gone
    /\ datapackage' = Absent /\ crate' = Absent
    /\ edits' = edits + 1 /\ disturbed' = TRUE
    /\ UNCHANGED <<registration, context, worker, viewed, raised, repaired, commands, failures>>

Work ==
    \/ Finish \/ Perform \/ Validate \/ StepRaises
    \/ MetadataReady \/ StorageIndexReady \/ SyncDatapackage \/ SyncManifest
    \/ PruneDatapackage \/ CompleteDatapackage
    \/ ListDatasets \/ (\E d \in Datasets : RepairDataset(d)) \/ DatasetsHealthy
    \/ CleanContainer \/ DropView \/ GenerateSurface \/ HtmlViewUpdated

Next ==
    \/ Start \/ Work \/ StepFails \/ Kill
    \/ \E f \in UserFiles, c \in Contents \cup {Gone} : Edit(f, c)
    \/ DeleteView \/ DeleteDirectory

(* A command that has started is one process, which keeps running.         *)
Spec == Init /\ [][Next]_vars /\ WF_vars(Work)

-----------------------------------------------------------------------------
(* Properties.                                                             *)

(* When storage --update answers "Storage Container Updated" and nobody    *)
(* touched the directory since the command began, the directory is clean,  *)
(* both descriptors list exactly what is there, and index.html, if there   *)
(* was one, was generated from the files as they are now, whatever earlier *)
(* commands failed, were killed or left in the context.                    *)
UpdateConverges ==
    response = "updated" /\ ~disturbed =>
        /\ Cleaned /\ DatapackageUpdated /\ ManifestSynced
        /\ view = (IF viewed THEN Gathered ELSE Gone)

(* A successful update went through every registered dataset itself: the   *)
(* "ran once" marker of an earlier process never stands in for it.         *)
DatasetsVisited == response = "updated" => repaired = Datasets

(* A command that answers, with an error too, leaves no dataset_path in    *)
(* the persisted context for a later command to pick up.                   *)
DatasetPathReleased ==
    response \in {"updated", "invalid", "error"} => datasetPath = None

(* The contracts of the chart never fail on their own: an update that ends *)
(* in an error met an edit, an I/O error, or something no hotfix repairs.  *)
NoSpuriousError ==
    response = "error" =>
        \/ disturbed \/ raised
        \/ metadata = "broken" \/ storageIndex = "broken" \/ datapackage = Corrupt
        \/ \E d \in Datasets : health[d] = "broken"

(* Every update ends: the worker never waits and never runs in circles.    *)
UpdateEnds == pc # "idle" ~> pc = "idle"
=============================================================================
