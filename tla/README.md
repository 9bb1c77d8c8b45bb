# TLA+ models of ontobdc-core

OntoBDC is a command-line tool that keeps *containers* (folders with a
`.__ontobdc__/container.ttl`) and their *datasets* in an RDF index
(`storage.ttl`) below a workspace root, repairs them, describes them with
RO-Crate manifests and datapackages, imports documents into them and renders
them as HTML views. A command is a short-lived process; everything that
outlives it is a file. Most commands are statecharts: an evaluator observes the
disk, a handler moves the disk from one state to the next with a
*check*/*hotfix* pair, and a contract compares the result with a fresh
observation.

Source paths below are relative to `src/ontobdc/`.

## Inventory

| Component | State it keeps | Operations | Talks to |
|---|---|---|---|
| Container registration (`storage/adapter/machine.py`, `storage/plugin/check/is_container_*`, `plugin/command/container/{create,delete}.py`) | `container.ttl` and `ro-crate-metadata.json` per folder, `storage.ttl` per workspace | `storage --create`, `storage --delete` | StateWorkerAdapter, every command that reads the index |
| Attachment (`storage/adapter/attachment/*`) | the graphs of an imported container, its datasets and the index; a backup directory; a plan in the context | `storage --attach`: inspect, resolve identity, write, roll back | index, execution context |
| Execution context and selection (`cli/adapter/context.py`, `cli/__init__.py`, `storage/plugin/parameter/container.py`, each command's `check`) | `context.ttl`, a copy in memory, objects in memory only | set, delete, load, save; explicit flags; ContainerIdStrategy | every command |
| StateWorkerAdapter (`shared/adapter/worker.py`) | the active state of a statechart | `work` | all handlers |
| Container update (`storage/adapter/machine.py`, `plugin/capability/transformation/container_*healthy.py`) | process markers in the context, HTML view, datapackages | `storage --update` | registration, datasets, surface |
| Dataset create (`storage/adapter/machine.py`, `plugin/check/is_dataset_*`) | `dataset.ttl`, the dataset entries of `container.ttl` | `storage --container … --create` | registration |
| Datapackage and manifest sync (`storage/adapter/manifest.py`) | `datapackage.json` | check, sync | update, dataset create |
| File removal with retries (`shared/adapter/filesystem.py`) | none | `remove_file`, `remove_directory_tree` | update, view |
| Project initialisation (`cli/adapter/machine.py`, `storage/adapter/bootstrap.py`, `shared/adapter/config.py`) | `config.yaml`, an empty `storage.ttl` and `context.ttl` below `.__ontobdc__` | `init` | all |
| Document import, learning, analysis (`context/adapter/machine.py`, `context/plugin/capability/transformation/*`) | step files per content of a PDF, learning records in `context.ttl`, a cache of vector files | `context --import-from`, `--learn-from`, `--analyse` | execution context, remote ontology |
| Entity instances (`context/plugin/command/entity.py`, `context/adapter/*_instance.py`, `shared/adapter/entity_workbook.py`) | a dataset per instance with workbook, descriptor, `dataset.ttl` and a copy of the facade | `context --create`, `--entity` | dataset create, update |
| Surface generation (`view/adapter/surface/*`, `view/plugin/*`) | the gathered data, `index.html`, entity pages, runtime scripts, `surface_path` in `context.ttl` | `view` | selection, update |
| Command line and capabilities (`cli/__init__.py`, `cli/adapter/{command,logger,health}.py`, `shared/adapter/capability.py`) | loggers, the process-wide broker, nested executions | `main`, `CapabilityExecutor` | every command |
| Loaders, ontology and vector queries, rendering | none that outlives a command | | |

What is hard about it:

* **No locks.** Two processes may rewrite `storage.ttl`, each from a copy it
  read before (`is_container_storage_index_ready/hotfix.py:165`,
  `adapter/repository.py:62`).
* **Writes in place.** `write_bytes` and `Graph.serialize` truncate first; a
  kill in between leaves an empty or a torn file, and the next command takes
  that for "no container yet".
* **State that outlives its command.** `context.ttl` keeps the selection of the
  previous command; two parameters that belong together are saved one by one.
* **Several files that must change together** (attachment), with undo, restore
  and a second restore, each of which can fail.
* **Contracts over an observed disk** that others change, and that may be
  further than the contract expects.
* **Resuming from what is on disk**: step files, a half-written `index.html`,
  runtime scripts and half-made datasets of a run that was interrupted, over
  sources that changed since.
* **Process-wide state**: a logger and a log level that must not reach the next
  command, while exceptions pass through nested executions.

What makes each component correct: an identifier is given once and survives
moves and copies; the index has one entry per identifier, only entries of real
containers, and keeps what a command reported; an attachment changes all its
files or none, and says so truthfully; a command works on the container its
flags or its working directory denote, never on a leftover; a success that is
reported is true of the files, whoever else writes them; what is resumed from
disk belongs together; a half-made dataset or page is never taken for a complete
one; every command ends.
`PROJECT.json` lists the hazards line by line with the properties that cover
them.

## Modules

| Module | Models | State and actions |
|---|---|---|
| `ContainerRegistry` | `storage --create` and `storage --delete` by any number of processes, kills, and the owner of the folders | A graph is the identifier and location of its container (`meta`, `index`), a manifest is synced or stale. `Observed` is the evaluator; one action for each check/hotfix of a transition; read, truncation and write of a `.ttl` are separate steps; `Validate`/`ContractBroken` are the worker's contract. `identity`, `written` and `registered` are history variables. |
| `MCContainerRegistry` | symmetry sets for TLC | |
| `AtomicAttach` | what `AttachmentMetadataService` promises of its files | `Commit`, `Abort`, `Damage` |
| `AttachTransaction` | the write phase of an attachment, over `N` graph files | One action for each file operation and one for its failure, in the order of `ensure_backup`, `write_graphs_transactionally` (temporaries, renames, undo, `finally`), `restore`, `discard_backup`; `loop` and `at` are the loop that runs and its next file, `attempt` counts the restore of the service and the one of the handler's `rollback_attachment`. |
| `StorageProofs` | theorems about `ContainerRegistry` and `AttachTransaction`, and the refinement of `AtomicAttach` | The two specifications have no variable in common; names of the second have the prefix `AT` where the first has the same one. |
| `ContainerSelection` | which container a command works on | `file` is `context.ttl`, `mem` the command's copy. Stages: load (`Start`), `apply_explicit_parameter_values`, `ContainerIdStrategy`, the command's `check`. `Resolve` is the strategy as a set of possible contexts: `max` picks one of several equally deep containers, and which one depends on the order of the graph. |
| `MCContainerSelection` | a small tree of folders for TLC | |
| `ContainerSelectionProofs` | theorems about `ContainerSelection` | |
| `ContainerUpdate` | `storage --update`: the chart, its capabilities, and the owner of the folder | `ObservedState` is the evaluator, `Successor` the guards of the chart, `Perform` the skip of a transition the disk already shows, `Validate` the contract; `todo` holds the steps a capability has left, one action each. A file has a content (what sizes and times tell apart), `index.html` has the inventory it was generated from, a descriptor has the contents it lists. `markers` and `datasetPath` are the context's and survive a kill. `viewed`, `disturbed`, `raised`, `repaired` are history variables. |
| `ContainerUpdateProofs` | theorems about `ContainerUpdate` | |
| `EntityLearning` | `context --learn-from` and `--analyse` | `steps` holds the step files of each chart per content, missing, torn or done; `Observed` is `observed_state`; `Transform` is one capability with its file and the save of the context, `Result` what it computes (extraction, vector, scores, filters); `ResolveOrigins`/`DownloadFails` the vector cache; `ResetContext`, `WriteRecord`, `WritePublished` the three writes of the published step. |
| `EntityLearningProofs` | theorems about `EntityLearning` | |
| `SurfaceGeneration` | `ontobdc view`, its twelve states, and the chart of the ten runtime scripts | A document is its sections (`host`, `jsonld`, `config`, `matches`, `layouts`, `tiles`, `runtime`) and the state marker of its head. One action for each capability; `RequireCheck`/`RequireRetry`/`RequireGivesUp` are `require_check`; `Remove*` the removal with retries; `behind` and `lagging` the file system whose reads lag. `SizeEnvelope`, `Resolved` and `DefaultMatches` are the matching algorithm. |
| `SurfaceGenerationProofs` | theorems about `SurfaceGeneration` | |
| `EntityInstances` | `context --create`, `--entity`, the dataset create chart and the repairs that `storage --update` makes of datasets | `data` holds the five files of each dataset directory, each missing, torn or whole; `container` the entries of `container.ttl`. `Chart`/`Perform`/`Validate` are the worker, `SaveWorkbook` to `CopyTypeFile` the writes of a create, `RepairMetadata` to `SyncSurfaceable` those of an update; `ListingRaises` and `ListedRows` are the listing. |
| `EntityInstancesProofs` | theorems about `EntityInstances` | |
| `CommandExecution` | `main` and the capability executor | `Main`, `HealthCheck`, `Route`, `Bind`, `Finish` are the stages of a command; `Call`, `Refuse`, `Return`, `Except`, `Catch` nested executions; `Repository` is the search for a logger, `threshold` what each logger would write; `Program` is a downstream package that calls capabilities without `main`. |
| `CommandExecutionProofs` | theorems about `CommandExecution` | |
| `ProjectInit` | `ontobdc init` by any number of processes | `disk` holds what `.__ontobdc__` of each directory has; `Root` is the search for the project and `InitRoot` the directory init works on, which is the one that the project's `config.yaml` names; `Load`/`Reload` are the context's load and save; `Observe` is the evaluator, one check a step; `Perform`, `Hotfix`, `Truncate`, `Write`, `Recheck` a transition. `writer` is who changed a directory last; `lone` and `was` follow a command that nothing interferes with. |
| `ProjectInitProofs` | theorems about `ProjectInit` | |
| `MC…` | values of the constants and symmetry sets for TLC | |

The charts meet on the files. `ContainerUpdate` takes the Surface pipeline and a
dataset's repairs as one step each, which `SurfaceGeneration` and
`EntityInstances` model in detail; `ContainerSelection` starts where
`CommandExecution` binds the parameters and `ProjectInit` has loaded
`context.ttl`.

Abstractions: titles, descriptions and timestamps of graphs are left out; the
reads that one check or hotfix makes are one step; a write that fails with an
exception has the disk states of a kill at the same place. In
`ContainerSelection` the workspace holds still while a command resolves its
selection, and a relative path is the absolute path it resolves to. In
`ContainerUpdate` one step of a capability (a walk of the directory with the
write that follows, the guard of a transition with the observation of
`perform_state_transition`, the Surface pipeline) is atomic; the checks of
`container.ttl`, `storage.ttl` and a dataset hold, can be repaired or cannot; a
dataset whose facade is unsound is visited and reported. Resources of the
descriptor outside the container, or listed twice, are left out. In
`AttachTransaction` the files start as parsed by the planner, so that each of
them exists; at this commit `ContainerAttachStateTransitionHandler` looks for
its statechart in `storage/adapter/domain/machine` (`attachment/machine.py:283`),
which does not exist, so that the command stops before the transaction: the
module models the services as they are written.

In `EntityLearning` a content stands for its hash, its text and its vector, which
is one number, so that distances are differences. In `SurfaceGeneration` markup
is reduced to the sections the checks tell apart, and the text of an entity to
its length. In `EntityInstances` a workbook is its set of instances, and one
command runs at a time. In `CommandExecution` a line is its event, level, depth
and the metadata entry its text comes from. In `ProjectInit` a configuration is
its engine, root path (none, a blank one or a directory), brand keys and whether
it holds anything else; `--log-level` on init, a symbolic link and a path of
another file system are left out.

Three more simplifications bear on properties. `SurfaceGeneration` gathers all
sources in one step, where `data_gathered.py:468` reads them one after the other,
so that `FinishedIsCurrent` says nothing of a change that falls between two of
those reads. `AttachTransaction` ends with its write phase: the handler's `except`
clause (`attachment/machine.py:254`) is also reached when a later state of the
chart fails after the backup was discarded, which is not modelled. And
`DatapackageUpdated` in `EntityInstances` asks whether the workbook is listed,
where `is_container_datapackage_updated/check.py:73` compares whole descriptors:
the model takes more descriptors for updated than the code, and `HealthyIsListed`
holds for all of them.

## Runs

| Run | Bounds | Shows |
|---|---|---|
| `registry_sequential` | 1 process, 3 commands, 3 paths (one outside the root), 3 identifiers, 2 folder operations, no kill | `IdentityKept` and `RegistrationKept`: an identifier survives move, copy, upgrade and re-creation; a created container stays listed until it is deleted |
| `registry_concurrent` | 2 processes, 2 commands, 2 paths below the root, 2 identifiers, 1 kill, 1 folder operation, fairness | `TypeOK`, `UniqueIds`, `IndexFromContainers` under interleaving and a kill anywhere; `CommandsEnd` |
| `attach_transaction` | 3 files (container, index, one dataset), every failure, one kill, fairness | reported outcomes are true, originals stay recoverable, the attachment ends and implements `AtomicAttach` |
| `selection` | 2 nested folders, 2 identifiers, 3 commands, 1 kill, every initial index and `container.ttl` | `SelectorObeyed`, `CwdObeyed`, `DirectoryObeyed` hold whatever `context.ttl` was left |
| `update` | 3 user files (one frictionless parses, one it does not, one to be cleaned), `index.html`, 1 dataset, 2 commands, 1 edit, 1 failure or kill; every mix of sound, stale and unrepairable metadata, fairness | `UpdateConverges`, `DatasetsVisited`, `DatasetPathReleased`, `NoSpuriousError`, `UpdateEnds` |
| `learning` | 2 PDFs, 2 contents, 4 candidates (one unsuited), 2 commands, 1 edit, 1 failure or kill | `StepsInOrder`, `Lineage`: what is resumed belongs together; `BestMatchNearest`: the two relative filters keep the nearest candidate |
| `surface` | 1 container, 2 commands, 1 change of the sources or of the installed package, 1 fault, 2 attempts, fairness | `FinishedIsCurrent`, `ObservedIsTrue`, `ScriptsCurrent`, `EnvelopesFit`, `CommandEnds` |
| `surface_sibling` | 2 containers, 2 commands, no fault | `PageOfOwnContainer` fails: the view of one container overwrites the page of another |
| `entity` | 2 entity types (one from the remote ontology), 1 name, 2 suffixes, 3 commands, 1 edit, 1 interrupted step | `CreatedIsListed`, `HealthyIsListed`, `UpdatedIsReady`, `FacadeLast` |
| `execution` | 3 capabilities (one catches), depth 2, 3 calls, 3 command classes (one broken), 2 sessions | `Balanced`, `FailureReported`, `BrokerScoped`, `LevelIsOwn` |
| `init` | 2 processes, a directory and its subdirectory, 2 commands, 1 kill or refused write, 1 edit, move or clone | `TypeOK`, `OkIsReady`, `NothingLost`, `Repairs`, `OkIsFound` |
| `init_foreign` | as `init`, 1 command, a foreign `config.yaml` above | `DiscoveredIsProject` fails: that directory is taken for the project |

Why the bounds are enough: a stale copy of the index needs two processes and
one command each; an identifier can be lost or doubled by one create after at
most two folder operations (a copy and a removal) of a container that a first
command created; a leftover context needs one command before the one that is
misled, and a third one lets a kill come in between. A stale marker needs one
update that sets it, one edit, and one update that would trust it; one dataset
is enough for the pass over the datasets to fail or to be skipped. Three files are the first,
an inner and the last one of each loop of the attachment. Resuming a chart needs
one command that is interrupted, one change of its sources, and one command that
resumes; an instance needs a command that creates it, one that is interrupted and
one that repairs. A logger or a level that leaks needs one session that leaves it
and one that finds it; an exception that is caught needs one nested execution.
For init, two processes or two commands in turn are one that leaves something
behind and one that finds it. Identifiers and processes are only compared, so
that permutations of them are symmetric; symmetry is not used in runs with a
liveness property.

Every module states a type invariant (`TypeOK`, `ATTypeOK` in
`AttachTransaction`); three runs list it, and the others spend their properties on
behaviour (TLC also accepts it as an invariant of each of them).

### Known divergences

`surface_sibling`: every write of `index.html` saves `surface_path` in
`context.ttl`, and no command deletes it. `check()` of the view drops the
inherited container "otherwise context.ttl wins and the command silently opens a
sibling's view", but not the inherited page: the view of a second container
removes the page of the first and writes its own data there.

`init_foreign`: `find_project_root` is to look for `.__ontobdc__/config.yaml`, but
any ancestor with a `config.yaml` of its own is taken for a project, and the
command fails when it loads that project's configuration.

The models show more disagreements between the code and its texts. Each is a
property the modules would violate; none is among the runs.

* `IdentityKept` with a kill: `container.ttl` is truncated before it is written
  (`is_container_metadata_ready/hotfix.py:244`); killed there, the container gets
  a new identifier, which `storage/adapter/identifier.py:9` says "never changes".
  (`registry_sequential` with `MaxCrashes = 1`; two processes that create the same
  container lose one of their identifiers too.)
* `RegistrationKept` with two processes: the later writer of `storage.ttl` drops
  the entry of the earlier one, which was reported as created.
  (`registry_sequential` with two processes.)
* create, delete, create: the index hotfix takes the container one state further
  than the contract expects, and the create reports a failure although everything
  is in place (`storage/adapter/machine.py:165`).
* Outside every container, `storage --update` and `context --entity` work on the
  container of an earlier command, though `update.py:34` says "resolve the
  container from the current working directory".
* `view --container-id` is refused for every identifier: its `check` deletes the
  flag's value before the strategy reads it (`view.py:108`).
* `datapackage.json` lists `index.html`, which `manifest.py:140` calls blocked
  from every user-facing surface. This rests on frictionless having a parser for
  HTML, which `FrictionlessFormatRegistry.CANDIDATES` lists.
* A learning record is overwritten by the save of the context that follows it in
  the same capability (`published.py:123` and `:139`).
* A class that is marked surfaceable after an instance was created is never seen
  by the repair, which reads the instance's own copy of the ontology
  (`is_dataset_surfaceable_synced/hotfix.py:66`), though `CHANGELOG.md:66` says
  that an update heals it.
* The executor sets the threshold of the logger it finds to INFO or DEBUG for
  every line it writes and so overrides `--log-level` for the rest of the command
  (`shared/adapter/capability.py:71`).

* A page that was cut among its component scripts is observed as
  `surface_validated`: the check accepts the tag of any one script
  (`surface_common.py:372`), though `standard_surface_html.yaml:101` says "Required
  browser component implementations are embedded for offline execution." No view
  resumes from it, because the command removes `index.html` before its chart asks;
  `ObservedIsTrue` therefore speaks of the scripts only from that removal on.
* In a project that was moved or cloned, `config.yaml` still names the directory it
  comes from, and no check or hotfix corrects a path that is there. `init` then
  makes that other directory ready and reports success, while `config.yaml` and
  `context.ttl` are read from the project that the search finds. `OkIsFound` says
  what is left: another init works on the same root again, and what the search
  finds is that root or names it.

The update shows two more things that no text of the repository contradicts. A
regeneration that fails after `index.html` was removed costs the container its
view: the next update takes it for one that never had any and succeeds without
one. And a `datapackage.json` that does not parse is observed as
`container_invalid`, which the chart enters only from `undefined`: every update
of that container ends in a failed contract and never in the answer "Invalid
Storage Container".

Fairness: `WF_vars(Step(p))` for each process of the registry, weak fairness of the
steps of the attachment (`ATStep`) and of the view (`Step`), `WF_vars(Work)` for the update. A command runs in the
foreground of its own process and waits for nobody, so that the operating
system's scheduling is all that is assumed. No fairness is assumed of kills, of
the owner, of new commands, of a file system that settles or of a program that
lets go of a file: the view ends because its retries are bounded. (`Step` of the
view has the writes that a kill cuts among its outcomes, so that its fairness is
weaker than that of a process nobody kills, and `CommandEnds` holds all the same.) Deadlock is not
checked where the system may stop once its commands ended; `ProjectInit` has the
stuttering step `Done` for that and is checked for deadlock.

## Proofs

`StorageProofs` about `ContainerRegistry`, for every set of paths, identifiers and
processes:

* `TypeCorrect`: `TypeOK`. It needs `ChartInv`: a running create is in a state
  that has a successor, and a process about to write `container.ttl` has
  something to write.
* `IndexIdsUnique` and `IndexEntriesReal`: `UniqueIds` and
  `IndexFromContainers`. Both are inductive only together with the same facts
  about every process's private copy of the index (`newIndex`), because it is
  that copy which becomes the index, however stale it is. A truncated file is
  the empty set and a torn one a subset of the copy, which keeps both facts.
* `IdentityStable`: `IdentityKept` when there is one process and no kill. Its
  invariant says that a folder which once had an identifier has it in
  `container.ttl`, or a process that truncated the file is about to write the
  same one back. Without either hypothesis the property is false (see the known
  divergences).
* `RegistrationStable`: `RegistrationKept` under the same two hypotheses. Its
  invariant says that what was registered is listed in the index while nobody
  writes it, and in the copy that is about to replace the index, but for the
  identifier that is being deleted.

`StorageProofs` about `AttachTransaction`, for every number of files:
`AttachTypeCorrect`, `ReportsTrue`, `BackupKept` and `Refines` (every step of the transaction is a
step or a stutter of `AtomicAttach`). The inductive invariant says for each loop
which files before and after its position `at` are old, new or unknown, and that the
backup is complete from the first temporary until `discard_backup`.

`ContainerUpdateProofs`, for every set of files, contents and datasets and any
number of commands, edits, failures and kills:

* `PathReleased` (`DatasetPathReleased`) from `PathInv`, which ties a set
  `dataset_path` to the visit of the datasets or to a killed process.
* `EveryDatasetVisited` (`DatasetsVisited`) from `VisitInv`, which says that,
  while the directory is there, the marker and every later state of the chart
  vouch for a complete visit by this process. It needs the shape of `todo` (the
  visit follows the listing and nothing else) and the fact that a directory
  which reaches a later state has the marker.
* `UpdateHasConverged` (`UpdateConverges`) and `ErrorsHaveACause`
  (`NoSpuriousError`) from `CalmInv`, about an update that nobody disturbs. For
  each state of the chart, `Shows` says what the evaluator needs on disk to
  observe it or a later one. Once the chart has passed a state the disk shows it
  and goes on showing it, while a capability has steps left the facts its next
  step starts from hold, and the marker of a view vouches for a view that this
  process generated from the files as they are. A contract therefore fails only
  on a file that no hotfix repairs. Neither property is inductive without the
  facts between the steps of one capability: generating the view, for example,
  puts both descriptors out of date until the capability has written them again.

`ProjectInitProofs`, for every tree of directories and every number of processes,
commands, faults and edits:

* `TypeCorrect`, and `SuccessIsTrue` (`OkIsReady`). The observation that decides
  on success takes several steps, between which others write, so that
  `OkIsReady` is inductive only with `PassedHold`: while a process observes a
  root that it was the last to write, the checks it has passed still hold. That
  in turn needs `CountInv`, which says that no check counts before an
  observation starts. The search for the root is typed by the least element of a
  set of numbers, from the library's theorem on well-founded relations.
* `NothingIsLost` (`NothingLost`), `InitRepairs` (`Repairs`) and
  `SuccessIsFound` (`OkIsFound`) from `LoneInv`, about a command that nothing
  interferes with. `Intact` compares the files it found with `Settled`, the disk
  on which the write under way is completed, because between truncation and write
  the only copy is the one that the process holds. `Passed` says that the checks
  before the state of the chart hold: each hotfix makes its own check good and
  undoes none of the earlier ones, so that no contract fails. `Placed` says how the
  root was found: as the working directory or the nearest project above it, whose
  path is not that of another directory, or as the path that the nearest project
  stores. Because a stored path stays and one that is filled in is the root's own
  (`Preserved`, with `Plain`: what is not there has no path), the next command's
  search ends at the root or at a project with that path, also when the root has
  become a nearer project (`NearestWithOne`). `InitRepairs` assumes that there is
  no `config.yaml` of another program: with one, the command fails on files that
  are in order (see `init_foreign`).

`CommandExecutionProofs`, for any capabilities, any depth of nesting and any
number of sessions in one process: `LogBalanced` (`Balanced`),
`FailuresReported` (`FailureReported`), `BrokerIsScoped` (`BrokerScoped`) and
`LevelsAreOwn` (`LevelIsOwn`). The log is a sequence, so the invariant speaks of
positions: every frame of the stack has the line that opened it, later lines
lie deeper, every other started line has been closed, and a line of depth one
that says "raised" belongs to an exception that is still on its way or has been
reported. `LoudStart`, `LoudEnd`, `SilentStart` and `SilentEnd` are the four ways
in which an execution changes log and stack together, since a capability without
a logger leaves no line.

`EntityInstancesProofs`, for any entity types, names, fields, commands, edits and
interrupted writes: `FacadeIsLast` (`FacadeLast`), `HealthyAreListed`
(`HealthyIsListed`), `CreatedAreListed` (`CreatedIsListed`) and `UpdatedAreReady`
(`UpdatedIsReady`). In a `Trusted` directory, one that nobody changed or any while
nothing was cut, a facade comes with its workbook and its descriptor and a typed
entity with its row; without damage no facade is torn and each has a `dataset.ttl`
that loads. `StageInv` says which of these files a create has written at each of
its steps, and `UpdateInv` that the datasets an update has been through are in
order and stay so.

`ContainerSelectionProofs`, for every tree of folders, every workspace and any
history of commands and kills: `SelectorsAreObeyed` (`SelectorObeyed`),
`CwdIsObeyed` (`CwdObeyed`) and `DirectoriesAreObeyed` (`DirectoryObeyed`). The
three are inductive with `Chosen`, which says for each stage between the command
line and the check what the command's copy of the context has of the command line,
and with `Sound`, that a working directory which cannot be resolved has stopped
the command by then. `ResolveOutcome` is the lemma about the strategy: the context
it yields has the container that the flag or the working directory denotes, or
none, or is left as it was because nothing was named.

`EntityLearningProofs`, for any PDFs, contents, candidates and weights and any
number of interrupted commands: `StepsAreInOrder` (`StepsInOrder`), `LineageHolds`
(`Lineage`) and `BestMatchIsNearest` (`BestMatchNearest`). `StepsInv` says that the
files of a directory are the first of its chart, without a gap, and that each
follows from the ones it was computed from; a capability writes
just behind the front, so that no file that others were computed from changes.
`WorkInv` relates the running chart and the context to its directory.
`FilterKeepsNearest` is the lemma about the algorithm: a relative filter keeps the
candidate of least distance, which exists for any set of candidates because the
order of the natural numbers is well-founded.

`SurfaceGenerationProofs`, for any containers, entities, types and Components and
any number of commands, changes, retries and faults. `Doc(n, g)` is the document of
state `n` for the graph `g`, section by section, and the invariant says:

* `GraphInv`: the artefact of a running command is the graph of a state its
  sources had since it began, and from `surface_packaged` on ontobdc_view is
  installed;
* `PageInv`: `index.html` is absent from its removal to its first write, and then
  exactly `Doc(n, g)` for the last state that was written; while its check is
  outstanding, a read that lags returns `Doc(n - 1, g)`, and once the check has
  passed no read lags. `StaleFails` is the reason: in each of the states 5 to 11 the
  older document lacks the section, or the marker, that the check asks for, and in
  state 4 there is no older document;
* `DetailInv` and `ScriptInv`: entity pages show `g`, and no script is fresh until
  the script chart runs, because every write of `index.html` outdates them all
  (`OutdatedIsStale`);
* `SurfaceInv`: every document on disk, of any container, is `Sound`: it has an
  owner, and where it has any of its scripts and its host element it has all of its
  tiles. A cut write keeps this because the scripts come last (`CutIsSound`); that
  all of the scripts are there follows for a running command from `PageInv`
  (`OwnDocument`).

That the chart of a new command starts before `data_gathered` (`BeginStep`) follows
from the removal of the artefact and from `ObservedChecks`: `evaluate` finds a
state, and every check up to it passes.

`SurfaceTypeCorrect`, `ScriptsAreCurrent` (`ScriptsCurrent`) and
`EnvelopesAlwaysFit` (`EnvelopesFit`) hold for any containers.
`FinishedPageIsCurrent` (`FinishedIsCurrent`) and `ObservedStateIsTrue`
(`ObservedIsTrue`) have the hypothesis that the project has one container, and are
false without it: `surface_path` leads the view of a sibling to the first
container's page (see `surface_sibling`). `FinishedWhereItIsWritten` and
`ObservedStateIsComplete` say what is left of them with any number of containers:
the page that was written is finished for the container of the command, and an
observed page is complete, wherever it lies and whosever it is.

Each inductive invariant was model-checked, on the bounds of the module's run,
before it was proved; the one of `SurfaceGeneration` also with two containers.

The assumptions are the named ASSUMEs of the modules: the special values are
not identifiers, entries, contents or names of a session, an unreadable index is
no set of entries and a missing view is no generated one, bounds are natural
numbers, there is a file, a path and a directory, a directory is the first of the
path that leads up from it, and the folders above a folder form a chain. For the
Surface, a missing value is no container, cell or configuration, a cell is a pair
of text lengths, and a Component has positive sizes.

Only model-checked:

* liveness (`CommandsEnd`, `AttachmentEnds`, `UpdateEnds`, `CommandEnds`), which
  needs fairness and is out of the prover's reach;
* the two runs that expect a violation.

## Not modelled

* The plan of an attachment and its chart. `storage --attach` stops before them
  at this commit (see above), and `attachment_plan.py` is an older copy that
  nothing calls.
* The document import: its handler takes a `step_repository` from the context
  that no command puts there, so that it raises before its first step.
* The older view generators (`view/adapter/dashboard.py`, the generating half of
  `view/adapter/publication.py`, `view/adapter/machine.py`): no command calls them.
* Markup, terminal widgets and message texts; SPARQL and vector queries as such;
  the discovery of capabilities and parameters by import, which is fixed while a
  command runs; the network beyond a download that succeeds or fails.
* In the execution context: parameters held as objects in memory, which shadow
  strings, and `reload`. In the datapackage: resources outside the container or
  listed twice, and two processes that share the temporary's name.

## Plan

1. Datapackage synchronisation in detail: an abstract "in sync" specification
   which check and sync implement.
2. The attachment plan, once its chart can be reached.
