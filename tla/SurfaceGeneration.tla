-------------------------- MODULE SurfaceGeneration --------------------------
(***************************************************************************)
(* ontobdc view: the offline HTML Surface of a container.  The command     *)
(* removes what an earlier run left, then drives twelve cumulative states  *)
(* over three artefacts: the container's data package, the JSON-LD state   *)
(* artefact of DATA_GATHERED and index.html, which every surface_*         *)
(* capability reads, extends by one section and writes back.  The last     *)
(* state publishes entity pages and runs a second chart, one runtime       *)
(* script per state, whose scripts count while they are no older than      *)
(* index.html.                                                             *)
(*                                                                         *)
(* index.html may live on an eventually consistent file system: a read     *)
(* returns the previous document until the write settles.  A sync client   *)
(* may hold the file that is being removed; a capability may raise; the    *)
(* process may be killed, with index.html cut in the middle of a write;    *)
(* and the owner changes the sources of a container at any time.           *)
(***************************************************************************)
EXTENDS Integers, FiniteSets

CONSTANTS
    Containers,     \* the containers of one project, which share context.ttl
    None,           \* no file, no section, no value
    Entities,       \* subjects a container graph may hold
    Types,          \* their classes and predicates
    TermsOf,        \* the types and predicates of each entity
    Surfaceable,    \* classes marked obdc:SurfaceableEntity
    WorkStreams,    \* entities that have a page under view/work_stream
    Fixed,          \* entities every container has: itself and its file tree
    Components,     \* the registered Components
    Chrome,         \* the tile classes of FileSizeTile and FileViewerTile
    Layout,         \* the tile classes of the default OperationRegion
    Cells,          \* what a dataset says of an entity
    MaxAttempts,    \* _REQUIRE_CHECK_MAX_ATTEMPTS, and attempts of a removal
    MaxCommands, MaxEdits, MaxFaults    \* bounds

ASSUME SurfaceAssumption ==
    /\ None \notin Containers \cup Cells /\ None # "scroll"
    /\ Cells \subseteq [own : Nat, row : Nat]
    /\ TermsOf \in [Entities -> SUBSET Types] /\ Surfaceable \subseteq Types
    /\ Fixed \subseteq Entities /\ WorkStreams \subseteq Entities
    /\ {MaxAttempts, MaxCommands, MaxEdits, MaxFaults} \subseteq Nat /\ MaxAttempts > 0
    /\ \A k \in Components :
         /\ k.required \subseteq Types /\ {k.id, k.minColumns, k.minRows, k.chars} \subseteq Nat
         /\ k.minColumns > 0 /\ k.minRows > 0 /\ k.chars > 0
         /\ k.maxColumns \in Nat \cup {None}

VARIABLES
    source,         \* the sources of each container: a cell per entity
    described,      \* the entities its data package describes
    etl,            \* the DATA_GATHERED artefact
    page,           \* index.html
    behind,         \* what a read of index.html returns while it lags
    lagging,        \* the containers whose index.html has not settled
    detail,         \* the entity pages: the value each shows
    scripts,        \* the runtime scripts: their version, and whether fresh
    installed,      \* the installed version of ontobdc_view
    surfacePath,    \* the parameter surface_path of context.ttl
    pc,             \* "idle", "remove", "begin", "work", "require", "scripts",
                    \* "mark" or "respond"
    target,         \* container_path of the running command
    removing,       \* what run() has still to remove
    held,           \* a sync client holds the file that is being removed
    active,         \* the chart's active state, an index of Sequence
    script,         \* the script chart's active state
    attempt,        \* attempts of require_check, or of a removal
    scriptsError,   \* work_stream_scripts_error
    since,          \* history: the sources of target since the command began
    response,       \* how the last command ended
    commands, edits, faults

surface == <<page, behind, lagging, detail, scripts>>
files == <<source, described, etl, surface, installed>>
process == <<pc, target, removing, held, active, script, attempt, scriptsError, since, response>>
counters == <<commands, edits, faults>>
vars == <<files, surfacePath, process, counters>>

-----------------------------------------------------------------------------
(* The documents.                                                          *)

Sequence == <<"container_healthy", "is_publishable", "data_gathered",
              "surface_initialized", "surface_enriched", "surface_set",
              "surface_matched", "surface_operational_matched",
              "surface_assembled", "surface_packaged", "surface_validated",
              "entity_views_published">>

Last == 12

Scripts == 10

\* make_initial_html.
InitialHtml ==
    [marker |-> 4, host |-> TRUE, jsonld |-> None, config |-> None, matches |-> None,
     layouts |-> None, tiles |-> None, runtime |-> None]

\* write_text that is cut.  The document opens with its marker and the other sections
\* of the head; the surface element with its tiles and, last, the component scripts, of
\* which that of the surface itself is the first, are the body.  A cut in the head leaves
\* no host element, one in the element not all of its tiles, and one in the body that
\* follows no script, the tag of the first with some of the scripts, or all of them.
Cut(document) ==
    LET head == {[InitialHtml EXCEPT !.marker = m, !.host = FALSE] : m \in {0, document.marker}}
                \cup {[document EXCEPT !.host = FALSE, !.tiles = None, !.runtime = None]}
        element == [document EXCEPT !.tiles = None, !.runtime = None]
        whole == [document EXCEPT !.runtime = None]
        some == IF document.runtime = None THEN {} ELSE {{}, {0}, document.runtime}
    IN head \cup {element, whole} \cup {[whole EXCEPT !.runtime = r] : r \in some}

\* read_surface, on a file system that may lag.
Read(c) == IF c \in lagging THEN behind[c] ELSE page[c]

\* surface_path: the persisted parameter wins over the container's own path.
SurfaceOf(c) == IF surfacePath # None THEN surfacePath ELSE c

-----------------------------------------------------------------------------
(* Gathering and matching.                                                 *)

\* _add_entity_field_values: a value the dataset states itself is kept, another
\* comes from the entity's row of the workbook.
FieldValue(cell) == IF cell.own # 0 THEN cell.own ELSE cell.row

\* _dataset_paths, _add_dataset_triples, _add_file_tree_entity, _add_file_entities.
Gathered(c) ==
    [owner |-> c,
     size |-> [e \in {x \in Entities : source[c][x] # None} |-> FieldValue(source[c][e])]]

\* ComponentLoader.get_all: without ontobdc_view only the package's own components.
Registered == {k \in Components : installed > 0 \/ k.bundled}

\* ComponentLoader.match: chrome components, which require nothing, never match.
Matching(e) == {k \in Registered : k.required # {} /\ k.required \subseteq TermsOf[e]}

\* ComponentLoader.match_tile_class.
OfTileClass(t) == {k \in Registered : k.tileClass = t}

\* Terminal components only when there is no other; the most specific, then by id.
Resolved(matched) ==
    LET html == {k \in matched : ~k.terminal}
        pool == IF html = {} THEN matched ELSE html
    IN CHOOSE k \in pool : \A j \in pool :
         \/ Cardinality(k.required) > Cardinality(j.required)
         \/ Cardinality(k.required) = Cardinality(j.required) /\ k.id <= j.id

Larger(a, b) == IF a >= b THEN a ELSE b
Smaller(a, b) == IF a <= b THEN a ELSE b

\* math.ceil(text_length / chars_per_column)
Columns(length, chars) == (length + chars - 1) \div chars

\* Mutant of SizeEnvelope: the least width is not cut to the greatest.
UncutEnvelope(k, length) ==
    LET wanted == IF length = 0 THEN k.minColumns
                  ELSE Larger(k.minColumns, Columns(length, k.chars))
        preferred == IF k.maxColumns = None THEN wanted ELSE Smaller(wanted, k.maxColumns)
    IN [min |-> k.minColumns, preferred |-> preferred,
        max |-> IF k.maxColumns = None THEN preferred ELSE k.maxColumns]

\* _apply_size_envelope: the columns of a tile for a text of this length.
SizeEnvelope(k, length) ==
    LET wanted == IF length = 0 THEN k.minColumns
                  ELSE Larger(k.minColumns, Columns(length, k.chars))
        preferred == IF k.maxColumns = None THEN wanted ELSE Smaller(wanted, k.maxColumns)
    IN [min |-> Smaller(k.minColumns, preferred), preferred |-> preferred,
        max |-> IF k.maxColumns = None THEN preferred ELSE k.maxColumns]

\* _apply_static_size_envelope: the columns of a chrome tile.
StaticEnvelope(k) ==
    [min |-> k.minColumns, preferred |-> k.minColumns,
     max |-> IF k.maxColumns = None THEN k.minColumns ELSE k.maxColumns]

\* normalize_matches raises when a column envelope is not in order.
InOrder(columns) == columns.min <= columns.preferred /\ columns.preferred <= columns.max

\* Tiles of the operation region are one row high.
Normalizes(matches) == \A m \in matches : InOrder(m.columns) /\ (m.region = "operation" => m.rows = 1)

\* _auto_matched_requests: the surfaceable subjects some component matches.
AutoMatched(graph) ==
    {e \in DOMAIN graph.size : TermsOf[e] \cap Surfaceable # {} /\ Matching(e) # {}}

ContentMatch(graph, e) ==
    LET k == Resolved(Matching(e))
    IN [data |-> e, tile |-> k.id, region |-> "content", rows |-> k.minRows,
        columns |-> SizeEnvelope(k, graph.size[e])]

ChromeMatch(t, region) ==
    LET k == Resolved(OfTileClass(t))
    IN [data |-> None, tile |-> k.id, region |-> region, columns |-> StaticEnvelope(k),
        rows |-> IF region = "operation" THEN 1 ELSE k.minRows]

\* _default_requests, resolved: _with_resolved_tile with strict = False.
DefaultMatches(graph) ==
    {ContentMatch(graph, e) : e \in AutoMatched(graph)} \cup
    {ChromeMatch(t, "content") : t \in {x \in Chrome : OfTileClass(x) # {}}}

\* _operation_requests: only when no match declares the region already.
OperationMatches(matches) ==
    IF installed = 0 \/ \E m \in matches : m.region = "operation" THEN {}
    ELSE {ChromeMatch(t, "operation") : t \in {x \in Layout : OfTileClass(x) # {}}}

\* _required_component_tags: the surface itself (0) and the tile of every match.
RequiredTags(matches) == {0} \cup {m.tile : m \in matches}

-----------------------------------------------------------------------------
(* The checks of surface_common: document d has reached state i.  The      *)
(* sections are cumulative, the marker counts in the states that cannot be *)
(* told from a section.                                                    *)

\* Mutant of HasSections: only the marker is read.
MarkerReached(d, i) == d.marker >= i

HasInitializedSurface(d) == d.host
HasJsonld(d) == d.jsonld # None
HasSurfaceConfig(d) == d.config # None
HasSurfaceMatches(d) == d.matches # None

\* has_valid_default_layouts: their absence is fine.
HasValidDefaultLayouts(d) == d.layouts # 0

\* _build_tile_lut: the tiles of the surface element, by tag and region.
TileLut(d) == {<<m.tile, m.region, m.data>> : m \in d.tiles}

\* has_assembled_tiles: the element is marked as assembled and every match has its tile.
HasAssembledTiles(d) ==
    d.tiles # None /\ \A m \in d.matches : <<m.tile, m.region, m.data>> \in TileLut(d)

\* has_packaged_runtime: some component script is embedded.
HasPackagedRuntime(d) == d.runtime # None

HasSections(d, i) ==
    /\ HasInitializedSurface(d)
    /\ i >= 5 => HasJsonld(d)
    /\ i >= 6 => HasSurfaceConfig(d)
    /\ i >= 7 => HasSurfaceMatches(d)
    /\ i >= 8 => HasValidDefaultLayouts(d)
    /\ i >= 9 => HasAssembledTiles(d)
    /\ i >= 10 => HasPackagedRuntime(d)

\* list_resource_paths: what the sources hold now.
Inventory(c) == {e \in Entities : source[c][e] # None}

\* is_container_publishable; index.html itself is left out on both sides.
IsContainerPublishable(c) == described[c] = Inventory(c)

\* The check of container_healthy, of which the data package is the part that changes here.
Healthy(c) == described[c] = Inventory(c)

CheckState(c, i) ==
    LET d == Read(c)
    IN CASE i = 1 -> Healthy(target)
         [] i = 2 -> IsContainerPublishable(target)
         [] i = 3 -> etl[target] # None
         [] i = 8 -> d # None /\ HasSections(d, 7) /\ d.marker >= 8
         [] i = 11 -> d # None /\ HasSections(d, 10) /\ d.marker >= 11
         [] i = 12 -> d # None /\ d.marker >= 12
         [] OTHER -> d # None /\ HasSections(d, i)

\* evaluate: the last state before the first whose check fails.
Observed(c) ==
    CHOOSE i \in 0 .. Last :
       /\ \A j \in 1 .. i : CheckState(c, j)
       /\ i < Last => ~CheckState(c, i + 1)

\* Mutant of Fresh: a script that is there is kept.
ScriptThere(c, i) == scripts[c][i] # None

\* script_is_fresh: the script is there and no older than index.html.
Fresh(c, i) == scripts[c][i] # None /\ scripts[c][i].fresh

\* The script chart's evaluator asks the last state first.
ObservedScript(c) ==
    LET fresh == {i \in 1 .. Scripts : Fresh(c, i)}
    IN IF fresh = {} THEN 0 ELSE CHOOSE i \in fresh : \A j \in fresh : j <= i

-----------------------------------------------------------------------------
NoScripts == [i \in 1 .. Scripts |-> None]

\* index.html becomes newer than every script.
Outdated(old) == [i \in 1 .. Scripts |-> IF old[i] = None THEN None ELSE [old[i] EXCEPT !.fresh = FALSE]]

Init ==
    /\ \E cell \in Cells : source = [c \in Containers |-> [e \in Entities |-> cell]]
    /\ described = [c \in Containers |-> {}]
    /\ etl = [c \in Containers |-> None]
    /\ page = [c \in Containers |-> None]
    /\ behind = [c \in Containers |-> None]
    /\ lagging = {}
    /\ detail = [c \in Containers |-> [e \in WorkStreams |-> None]]
    /\ scripts = [c \in Containers |-> NoScripts]
    /\ installed \in 0 .. 1
    /\ surfacePath = None
    /\ pc = "idle" /\ target \in Containers /\ removing = "page" /\ held = FALSE
    /\ active = 0 /\ script = 0 /\ attempt = 1 /\ scriptsError = FALSE
    /\ since = {} /\ response = "none"
    /\ commands = 0 /\ edits = 0 /\ faults = 0

\* ContainerViewCommand.check, once the container is selected, and run().
Start(c) ==
    /\ pc = "idle" /\ commands < MaxCommands
    /\ pc' = "remove" /\ target' = c /\ removing' = "page" /\ attempt' = 1
    /\ since' = {source[c]} /\ scriptsError' = FALSE /\ response' = "none"
    /\ active' = 0 /\ script' = 0 /\ commands' = commands + 1
    /\ UNCHANGED <<files, surfacePath, held, edits, faults>>

Exists == IF removing = "page" THEN page[SurfaceOf(target)] # None ELSE etl[target] # None

\* Mutant of Remove: the artefact of an earlier run stays.
RemovePageOnly ==
    /\ pc = "remove" /\ ~held
    /\ page' = [page EXCEPT ![SurfaceOf(target)] = None]
    /\ behind' = [behind EXCEPT ![SurfaceOf(target)] = None]
    /\ pc' = "begin"
    /\ UNCHANGED <<source, described, etl, lagging, detail, scripts, installed, surfacePath, target,
                   removing, held, active, script, attempt, scriptsError, since, response, counters>>

\* remove_file of index.html, wherever surface_path says it is, then
\* remove_directory_tree of the container's own state directory.
Remove ==
    /\ pc = "remove" /\ ~(held /\ Exists)
    /\ IF removing = "page"
         THEN /\ page' = [page EXCEPT ![SurfaceOf(target)] = None]
              /\ behind' = [behind EXCEPT ![SurfaceOf(target)] = None]
              /\ removing' = "etl"
              /\ UNCHANGED <<etl, pc>>
         ELSE /\ etl' = [etl EXCEPT ![target] = None]
              /\ pc' = "begin"
              /\ UNCHANGED <<page, behind, removing>>
    /\ attempt' = 1
    /\ UNCHANGED <<source, described, lagging, detail, scripts, installed, surfacePath, target, held,
                   active, script, scriptsError, since, response, counters>>

\* The file is still in use: sleep and try again.
RemoveRetry ==
    /\ pc = "remove" /\ held /\ Exists /\ attempt < MaxAttempts
    /\ attempt' = attempt + 1
    /\ UNCHANGED <<files, surfacePath, pc, target, removing, held, active, script, scriptsError, since,
                   response, counters>>

Fail ==
    /\ pc' = "idle" /\ response' = "failed"
    /\ UNCHANGED <<files, surfacePath, target, removing, held, active, script, attempt, scriptsError,
                   since, counters>>

RemoveGivesUp == pc = "remove" /\ held /\ Exists /\ attempt = MaxAttempts /\ Fail

\* StateWorkerAdapter.work starts the chart in the observed state.
Begin ==
    /\ pc = "begin"
    /\ active' = Observed(SurfaceOf(target)) /\ pc' = "work"
    /\ UNCHANGED <<files, surfacePath, target, removing, held, script, attempt, scriptsError, since,
                   response, counters>>

At(i) == pc = "work" /\ active = i - 1

Reached(i) ==
    /\ active' = i
    /\ UNCHANGED <<pc, target, removing, held, script, attempt, scriptsError, since, response, counters>>

\* container_healthy: the data package is synchronised with the files.
ContainerHealthy ==
    /\ At(1)
    /\ described' = [described EXCEPT ![target] = Inventory(target)]
    /\ Reached(1)
    /\ UNCHANGED <<source, etl, surface, installed, surfacePath>>

\* ensure_publishable: sync, and the two hotfixes that prune and fill it again.
IsPublishable ==
    /\ At(2)
    /\ described' = [described EXCEPT ![target] = Inventory(target)]
    /\ Reached(2)
    /\ UNCHANGED <<source, etl, surface, installed, surfacePath>>

DataGathered ==
    /\ At(3)
    /\ etl' = [etl EXCEPT ![target] = Gathered(target)]
    /\ Reached(3)
    /\ UNCHANGED <<source, described, surface, installed, surfacePath>>

\* write_surface, after which reads may lag.
WriteSurface(document) ==
    LET c == SurfaceOf(target)
    IN /\ page' = [page EXCEPT ![c] = document]
       /\ behind' = [behind EXCEPT ![c] = Read(c)]
       /\ \/ lagging' = lagging \cup {c}
          \/ lagging' = lagging \ {c}
       /\ scripts' = [scripts EXCEPT ![c] = Outdated(scripts[c])]
       /\ UNCHANGED <<source, described, etl, detail, installed>>

\* SurfaceTransformationAdapter.write keeps the path of what it wrote.
Write(document) == WriteSurface(document) /\ surfacePath' = SurfaceOf(target)

\* The process is killed while it writes the document; the path is not kept.
KilledInWrite(document) ==
    /\ faults < MaxFaults
    /\ \E d \in Cut(document) : WriteSurface(d)
    /\ faults' = faults + 1 /\ pc' = "idle" /\ response' = "killed"
    /\ UNCHANGED <<surfacePath, target, removing, held, active, script, attempt, scriptsError, since,
                   commands, edits>>

\* A capability writes its document and requires its check.
Transform(i, document) ==
    LET new == [document EXCEPT !.marker = i]
    IN \/ /\ Write(new) /\ pc' = "require" /\ attempt' = 1
          /\ UNCHANGED <<target, removing, held, active, script, scriptsError, since, response, counters>>
       \/ KilledInWrite(new)

Document == Read(SurfaceOf(target))

SurfaceInitialized == At(4) /\ Transform(4, InitialHtml)

\* surface_enriched embeds the artefact on disk.
SurfaceEnriched ==
    /\ At(5) /\ etl[target] # None /\ Document # None
    /\ Transform(5, [Document EXCEPT !.jsonld = etl[target]])

SurfaceSet ==
    /\ At(6) /\ Document # None
    /\ Transform(6, [Document EXCEPT !.config = "scroll"])

\* surface_matched reads the artefact again.
SurfaceMatched ==
    /\ At(7) /\ etl[target] # None /\ Document # None /\ Normalizes(DefaultMatches(etl[target]))
    /\ Transform(7, [Document EXCEPT !.matches = DefaultMatches(etl[target])])

SurfaceOperationalMatched ==
    /\ At(8) /\ Document # None /\ Document.matches # None
    /\ Normalizes(OperationMatches(Document.matches))
    /\ Transform(8, [Document EXCEPT !.matches = @ \cup OperationMatches(Document.matches),
                                     !.layouts = IF installed = 0 THEN @ ELSE installed])

\* assemble_surface_markup: one tile per match.
SurfaceAssembled ==
    /\ At(9) /\ Document # None /\ Document.matches # None
    /\ Transform(9, [Document EXCEPT !.tiles = Document.matches])

\* _read_component_sources: all of them, or none.
Packageable(matches) ==
    /\ installed > 0
    /\ \A t \in RequiredTags(matches) \ {0} : \E k \in Components : k.id = t /\ k.built

SurfacePackaged ==
    /\ At(10) /\ Document # None /\ Document.matches # None /\ Packageable(Document.matches)
    /\ Transform(10, [Document EXCEPT !.runtime = RequiredTags(Document.matches)])

SurfaceValidated ==
    /\ At(11) /\ Document # None /\ HasSections(Document, 10)
    /\ Transform(11, Document)

Settled ==
    /\ active' = active + 1 /\ pc' = "work"
    /\ UNCHANGED <<files, surfacePath, target, removing, held, script, attempt, scriptsError, since,
                   response, counters>>

\* require_check: the check passes, is tried again, or fails for the last time.
RequireCheck ==
    /\ pc = "require" /\ CheckState(SurfaceOf(target), active + 1)
    /\ Settled

\* Mutant of RequireRetry: the attempts are not counted.
RequireForever ==
    /\ pc = "require" /\ ~CheckState(SurfaceOf(target), active + 1)
    /\ UNCHANGED vars

RequireRetry ==
    /\ pc = "require" /\ ~CheckState(SurfaceOf(target), active + 1) /\ attempt < MaxAttempts
    /\ attempt' = attempt + 1
    /\ UNCHANGED <<files, surfacePath, pc, target, removing, held, active, script, scriptsError, since,
                   response, counters>>

RequireGivesUp ==
    pc = "require" /\ ~CheckState(SurfaceOf(target), active + 1) /\ attempt = MaxAttempts /\ Fail

\* entity_views_published: a page for every entity with a renderer; the scripts
\* when one of them is a work stream.
EntityViewsPublished ==
    LET c == SurfaceOf(target)
        shown == IF Document.jsonld = None THEN {} ELSE WorkStreams \cap DOMAIN Document.jsonld.size
    IN /\ At(12) /\ Document # None
       /\ IF installed = 0 \/ shown = {}
            THEN pc' = "mark" /\ UNCHANGED <<detail, script>>
            ELSE /\ detail' = [detail EXCEPT ![c] = [e \in WorkStreams |->
                                 IF e \in shown THEN Document.jsonld.size[e] ELSE @[e]]]
                 /\ script' = ObservedScript(c)
                 /\ pc' = "scripts"
       /\ UNCHANGED <<source, described, etl, page, behind, lagging, scripts, installed, surfacePath,
                      target, removing, held, active, attempt, scriptsError, since, response, counters>>

\* One runtime script per state of the second chart.
GenerateScript(i) ==
    /\ pc = "scripts" /\ script = i - 1
    /\ scripts' = [scripts EXCEPT ![SurfaceOf(target)][i] = [version |-> installed, fresh |-> TRUE]]
    /\ script' = i
    /\ UNCHANGED <<source, described, etl, page, behind, lagging, detail, installed, surfacePath, pc,
                   target, removing, held, active, attempt, scriptsError, since, response, counters>>

I18nScriptGenerated == GenerateScript(1)
GraphReaderScriptGenerated == GenerateScript(2)
CsvPreviewScriptGenerated == GenerateScript(3)
ContainerConnectionScriptGenerated == GenerateScript(4)
ConnectionStateScriptGenerated == GenerateScript(5)
AnnotationBridgeScriptGenerated == GenerateScript(6)
PyodideRuntimeScriptGenerated == GenerateScript(7)
LinksetOperationsScriptGenerated == GenerateScript(8)
FileCategoryScriptGenerated == GenerateScript(9)
DimensionCardScriptGenerated == GenerateScript(10)

ScriptChart ==
    \/ I18nScriptGenerated \/ GraphReaderScriptGenerated \/ CsvPreviewScriptGenerated
    \/ ContainerConnectionScriptGenerated \/ ConnectionStateScriptGenerated
    \/ AnnotationBridgeScriptGenerated \/ PyodideRuntimeScriptGenerated
    \/ LinksetOperationsScriptGenerated \/ FileCategoryScriptGenerated
    \/ DimensionCardScriptGenerated

\* The chart is in its final state.
ScriptsDone ==
    /\ pc = "scripts" /\ script = Scripts
    /\ pc' = "mark"
    /\ UNCHANGED <<files, surfacePath, target, removing, held, active, script, attempt, scriptsError,
                   since, response, counters>>

\* A script that cannot be generated is reported, and stops nothing else.
ScriptRaises ==
    /\ pc = "scripts" /\ script < Scripts /\ faults < MaxFaults
    /\ pc' = "mark" /\ scriptsError' = TRUE /\ faults' = faults + 1
    /\ UNCHANGED <<files, surfacePath, target, removing, held, active, script, attempt, since, response,
                   commands, edits>>

\* The last marker is written without a check.
MarkPublished ==
    /\ pc = "mark" /\ Document # None
    /\ LET new == [Document EXCEPT !.marker = 12]
       IN \/ /\ Write(new) /\ active' = 12 /\ pc' = "respond"
             /\ UNCHANGED <<target, removing, held, script, attempt, scriptsError, since, response,
                            counters>>
          \/ KilledInWrite(new)

\* run() ends: index.html of the container itself must be there to be opened.
Respond ==
    /\ pc = "respond"
    /\ pc' = "idle"
    /\ response' = IF page[target] = None THEN "failed" ELSE "generated"
    /\ UNCHANGED <<files, surfacePath, target, removing, held, active, script, attempt, scriptsError,
                   since, counters>>

\* What a capability cannot do without, it raises for.
Unable ==
    CASE active = 6 -> etl[target] # None /\ ~Normalizes(DefaultMatches(etl[target]))
      [] active = 9 -> Document # None /\ Document.matches # None /\ ~Packageable(Document.matches)
      [] OTHER -> FALSE

CapabilityUnable == pc = "work" /\ Unable /\ Fail

\* Any capability may raise, before it writes.
CapabilityRaises ==
    /\ pc = "work" /\ active < Last /\ faults < MaxFaults
    /\ faults' = faults + 1 /\ pc' = "idle" /\ response' = "failed"
    /\ UNCHANGED <<files, surfacePath, target, removing, held, active, script, attempt, scriptsError,
                   since, commands, edits>>

\* The process is killed between two steps; KilledInWrite is a kill within one.
Kill ==
    /\ pc # "idle" /\ faults < MaxFaults
    /\ faults' = faults + 1 /\ pc' = "idle" /\ response' = "killed"
    /\ UNCHANGED <<files, surfacePath, target, removing, held, active, script, attempt, scriptsError,
                   since, commands, edits>>

-----------------------------------------------------------------------------
(* The environment.                                                        *)

\* A write becomes visible.
Settle(c) ==
    /\ c \in lagging
    /\ lagging' = lagging \ {c}
    /\ UNCHANGED <<source, described, etl, page, behind, detail, scripts, installed, surfacePath,
                   process, counters>>

\* A sync client opens the file that is about to be removed.
Hold ==
    /\ pc = "remove" /\ ~held /\ Exists /\ faults < MaxFaults
    /\ held' = TRUE /\ faults' = faults + 1
    /\ UNCHANGED <<files, surfacePath, pc, target, removing, active, script, attempt, scriptsError,
                   since, response, commands, edits>>

Release ==
    /\ held /\ held' = FALSE
    /\ UNCHANGED <<files, surfacePath, pc, target, removing, active, script, attempt, scriptsError,
                   since, response, counters>>

\* The owner changes or removes an entity of a container.
Edit(c, e, cell) ==
    /\ edits < MaxEdits /\ e \notin Fixed /\ cell # source[c][e]
    /\ source' = [source EXCEPT ![c][e] = cell]
    /\ since' = IF c = target THEN since \cup {source'[c]} ELSE since
    /\ edits' = edits + 1
    /\ UNCHANGED <<described, etl, surface, installed, surfacePath, pc, target, removing, held, active,
                   script, attempt, scriptsError, response, commands, faults>>

\* ontobdc_view is installed or upgraded between two commands.
Upgrade ==
    /\ pc = "idle" /\ edits < MaxEdits /\ installed < 2
    /\ installed' = installed + 1 /\ edits' = edits + 1
    /\ UNCHANGED <<source, described, etl, surface, surfacePath, process, commands, faults>>

Step ==
    \/ \E c \in Containers : Start(c)
    \/ Remove \/ RemoveRetry \/ RemoveGivesUp \/ Begin
    \/ ContainerHealthy \/ IsPublishable \/ DataGathered
    \/ SurfaceInitialized \/ SurfaceEnriched \/ SurfaceSet \/ SurfaceMatched
    \/ SurfaceOperationalMatched \/ SurfaceAssembled \/ SurfacePackaged \/ SurfaceValidated
    \/ RequireCheck \/ RequireRetry \/ RequireGivesUp
    \/ EntityViewsPublished \/ ScriptChart \/ ScriptsDone \/ MarkPublished
    \/ CapabilityUnable \/ Respond

Environment ==
    \/ CapabilityRaises \/ ScriptRaises \/ Kill \/ Hold \/ Release \/ Upgrade
    \/ \E c \in Containers : Settle(c)
    \/ \E c \in Containers, e \in Entities, cell \in Cells \cup {None} : Edit(c, e, cell)

Next == Step \/ Environment

Spec == Init /\ [][Next]_vars /\ WF_vars(Step)

-----------------------------------------------------------------------------
(* Properties.                                                             *)

IsDocument(d) ==
    /\ d.marker \in 0 .. Last /\ d.host \in BOOLEAN
    /\ d.jsonld = None \/ d.jsonld.owner \in Containers

\* The type invariant: the chart's state and its counters stay in range, and every
\* index.html is a document with a marker and an owner.
TypeOK ==
    /\ pc \in {"idle", "remove", "begin", "work", "require", "scripts", "mark", "respond"}
    /\ target \in Containers /\ surfacePath \in Containers \cup {None}
    /\ active \in 0 .. Last /\ script \in 0 .. Scripts /\ attempt \in 1 .. MaxAttempts
    /\ lagging \subseteq Containers /\ held \in BOOLEAN /\ scriptsError \in BOOLEAN
    /\ response \in {"none", "generated", "failed", "killed"}
    /\ \A c \in Containers : page[c] = None \/ IsDocument(page[c])
    /\ \A c \in Containers : behind[c] = None \/ IsDocument(behind[c])

GraphOf(c, s) == [owner |-> c, size |-> [e \in {x \in Entities : s[x] # None} |-> FieldValue(s[e])]]

AllMatches(graph) == DefaultMatches(graph) \cup OperationMatches(DefaultMatches(graph))

\* A document that is finished for this graph: every section derives from it.
Finished(d, graph) ==
    /\ d.marker = 12 /\ d.host /\ d.jsonld = graph /\ d.config # None
    /\ d.matches = AllMatches(graph) /\ d.tiles = d.matches
    /\ RequiredTags(d.matches) \subseteq d.runtime

\* When the command opens index.html, every section of it - the embedded graph, the
\* matches, the tiles, the scripts - and every work-stream page derive from one state
\* the sources had while the command ran: nothing of an earlier run is left, however
\* the reads of index.html lagged behind its writes.
FinishedIsCurrent ==
    pc = "respond" /\ page[target] # None =>
      \E s \in since :
        LET graph == GraphOf(target, s)
        IN /\ Finished(page[target], graph)
           /\ \A e \in WorkStreams \cap DOMAIN graph.size : detail[target][e] = graph.size[e]

\* The state that is inferred from the files is never ahead of them.  Where the evaluator
\* finds surface_validated, index.html is the container's own and has its host element
\* and all of its matches as tiles, wherever an earlier write was cut; and once a command
\* has removed what was there, also the scripts of all of them.  (A page that an earlier
\* command left, cut among its scripts, passes the evaluator without them: the command
\* removes it before its chart asks.)
ObservedIsTrue ==
    LET c == SurfaceOf(target)
        d == Read(c)
    IN Observed(c) >= 11 =>
         /\ d.host /\ d.tiles = d.matches /\ d.jsonld.owner = target
         /\ pc \notin {"idle", "remove"} => RequiredTags(d.matches) \subseteq d.runtime

\* Once the script chart has ended without an error, every runtime script is the one
\* of the installed ontobdc_view: none is kept from an earlier version or a killed run.
ScriptsCurrent ==
    pc = "mark" /\ script = Scripts /\ ~scriptsError =>
      \A i \in 1 .. Scripts :
        scripts[SurfaceOf(target)][i] = [version |-> installed, fresh |-> TRUE]

\* normalize_matches never rejects what the size envelope computed for a tile that shows
\* an entity, whatever the length of its text.
EnvelopesFit ==
    \A c \in Containers, k \in Components :
      \A e \in Entities : source[c][e] # None =>
        InOrder(SizeEnvelope(k, FieldValue(source[c][e])))

\* Every view command ends, also when a file stays in use or a write never settles.
CommandEnds == (pc # "idle") ~> (pc = "idle")

\* index.html shows the container it lies in.  "drop any inherited value before we let
\* it decide which container the run actually targets -- otherwise context.ttl wins and
\* the command silently opens a sibling's view" (view.py).
PageOfOwnContainer ==
    \A c \in Containers : page[c] # None /\ page[c].jsonld # None => page[c].jsonld.owner = c
=============================================================================
