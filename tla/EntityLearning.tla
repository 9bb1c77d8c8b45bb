--------------------------- MODULE EntityLearning ---------------------------
(***************************************************************************)
(* context --learn-from and context --analyse: two charts driven by the    *)
(* StateWorkerAdapter over step files.  Each step directory belongs to the *)
(* content of a PDF (its hash); every capability reads earlier steps,      *)
(* writes its own and saves the execution context.  Learning ends with a   *)
(* record in context.ttl; analysis scores the document's vector against    *)
(* the vectors of the ontology and of those records.                       *)
(*                                                                         *)
(* A content stands for its hash, its text and its vector, which is one    *)
(* number: distances are differences.  The owner of the project replaces   *)
(* PDFs and vector files between two steps; a capability may raise, with   *)
(* its step file untouched or half written; the process may be killed.     *)
(***************************************************************************)
EXTENDS Integers, FiniteSets

CONSTANTS
    Paths,          \* paths of PDF files
    Contents,       \* their contents, of which Alter is one
    Alter,          \* the content the owner may put in place of another
    Entities,       \* entity URIs
    Candidates,     \* candidate URIs, each in a vector.ttl of its own
    Unsuited,       \* candidates for another file type, or of another length
    None,           \* no value
    WeightOf,       \* the vector of a content and of a candidate
    MaxDistance,    \* max_distance of the vector files, or the default
    MaxCommands,    \* bound: commands started
    MaxEdits,       \* bound: edits by the owner
    MaxFailures     \* bound: capabilities that raise, and kills

ASSUME LearningAssumption ==
    /\ Alter \in Contents /\ Unsuited \subseteq Candidates
    /\ Contents \cap Candidates = {}
    /\ None \notin Contents \cup Paths \cup Entities \cup Candidates
    /\ WeightOf \in [Contents \cup Candidates -> Nat]
    /\ {MaxDistance, MaxCommands, MaxEdits, MaxFailures} \subseteq Nat

VARIABLES
    source,         \* the PDF at each path
    local, cached,  \* the vector files in the project and in its cache
    remote,         \* the vector files of the remote ontology
    steps,          \* the step files of each process, per content
    contextFile,    \* context.ttl: the learning records, and the parameters
    memory,         \* the context's graph in the running process
    pc,             \* "idle", "open", "ready", "reset", "record" or "respond"
    kind,           \* the chart that runs
    jobs,           \* the source files left
    path, hash,     \* the step repository: its source path and its hash
    entity,         \* the entity that is learnt
    active,         \* the chart's active state
    reported,       \* history: contents the running command has reported
    response,       \* how the last command ended
    commands, edits, failures

files == <<source, local, cached, remote>>
context == <<contextFile, memory>>
worker == <<pc, kind, jobs, path, hash, entity, active, reported, response>>
vars == <<files, steps, context, worker, commands, edits, failures>>

-----------------------------------------------------------------------------
(* The charts: state i is reached by the i-th capability.                  *)

LearningOrder == <<"identified", "extracted", "spatialized", "aligned", "published">>

AnalysisOrder == <<"identified", "extracted", "spatialized", "aligned", "origin_resolved",
                   "vectors_loaded", "scored", "analysed">>

Order(k) == IF k = "learning" THEN LearningOrder ELSE AnalysisOrder

Length(k) == IF k = "learning" THEN 5 ELSE 8

Kinds == {"learning", "analysis"}

StepNames == {"identified", "extracted", "spatialized", "aligned", "published",
              "origin_resolved", "vectors_loaded", "scored", "analysed"}

Missing == [status |-> "missing", value |-> None]
Torn == [status |-> "torn", value |-> None]
Done(v) == [status |-> "done", value |-> v]

\* EntityLearningStepRepository.exists: a file that is there, whole or not.
Exists(k, h, s) == steps[k][h][s].status # "missing"

Readable(k, h, s) == steps[k][h][s].status = "done"

Value(k, h, s) == steps[k][h][s].value

\* observed_state: the last state that has a step file; 0 is UNDEFINED.
Observed(k, h) ==
    LET there == {i \in 1 .. Length(k) : Exists(k, h, Order(k)[i])}
    IN IF there = {} THEN 0 ELSE CHOOSE i \in there : \A j \in there : j <= i

-----------------------------------------------------------------------------
(* What each capability writes; None when it raises instead.               *)

Identified == Done(path)

\* extracted reads the PDF at the path that `identified` recorded.
Extracted ==
    LET p == Value(kind, hash, "identified")
    IN IF Readable(kind, hash, "identified") /\ source[p] # None
         THEN Done(source[p]) ELSE Missing

\* spatialized reads the same PDF again.
Spatialized ==
    LET p == Value(kind, hash, "identified")
    IN IF Readable(kind, hash, "identified") /\ source[p] # None
         THEN Done(source[p]) ELSE Missing

\* aligned builds the vector from the spatialized pages.
Aligned ==
    IF Readable(kind, hash, "spatialized")
      THEN Done(WeightOf[Value(kind, hash, "spatialized")]) ELSE Missing

\* resolve_origins, after the cache has been synchronized.
Origins(cache) ==
    {<<"local", c>> : c \in {x \in Candidates : local[x] # None}} \cup
    {<<"cached", c>> : c \in {x \in Candidates : cache[x] # None}}

\* load_candidates: the files of the origins that are still there; a candidate of
\* the project replaces its cached namesake.
OntologyCandidates(origins) ==
    LET inProject == {c \in Candidates : <<"local", c>> \in origins /\ local[c] # None}
        inCache == {c \in Candidates : <<"cached", c>> \in origins /\ cached[c] # None}
    IN [c \in inProject \cup inCache |->
           [type |-> c, weight |-> IF c \in inProject THEN local[c] ELSE cached[c]]]

\* load_learning_record_candidates: the records that context.ttl holds.
RecordCandidates ==
    [h \in {x \in Contents : contextFile.records[x] # None} |->
        [type |-> contextFile.records[h].entity, weight |-> contextFile.records[h].weight]]

\* load_registered_candidates.
VectorsLoaded ==
    LET ontology == OntologyCandidates(Value(kind, hash, "origin_resolved"))
        all == DOMAIN ontology \cup DOMAIN RecordCandidates
    IN IF Readable(kind, hash, "origin_resolved") /\ all # {}
         THEN Done([c \in all |-> IF c \in DOMAIN ontology THEN ontology[c]
                                  ELSE RecordCandidates[c]])
         ELSE Missing

Distance(a, b) == IF a > b THEN a - b ELSE b - a

Near(weight, loaded) ==
    {c \in DOMAIN loaded \ Unsuited : Distance(weight, loaded[c].weight) <= MaxDistance}

Scores(weight, loaded) ==
    [c \in Near(weight, loaded) |-> Distance(weight, loaded[c].weight)]

\* Mutant of Scored: the vector is made again of the PDF, not read from its step file.
ScoredAnew ==
    IF /\ \A s \in {"identified", "aligned", "vectors_loaded"} : Readable(kind, hash, s)
       /\ source[path] # None
      THEN Done(Scores(WeightOf[source[path]], Value(kind, hash, "vectors_loaded")))
      ELSE Missing

\* scored keeps the candidates of the right type within max_distance.
Scored ==
    IF \A s \in {"identified", "aligned", "vectors_loaded"} : Readable(kind, hash, s)
      THEN Done(Scores(Value(kind, hash, "aligned"), Value(kind, hash, "vectors_loaded")))
      ELSE Missing

\* The candidates that survive both filters of analysed: at most twice the least
\* distance, and at most 0.8 of the greatest distance that is left.
Filtered(distance) ==
    LET twice == {c \in DOMAIN distance :
                    \A d \in DOMAIN distance : distance[c] <= 2 * distance[d]}
    IN {c \in twice : \E d \in twice :
          /\ \A e \in twice : distance[e] <= distance[d]
          /\ 5 * distance[c] <= 4 * distance[d]}

\* Mutant of BestMatch: the last of the candidates that are left.
WorstMatch(distance) ==
    LET left == Filtered(distance)
    IN IF left = {} THEN None
       ELSE CHOOSE c \in left : \A d \in left : distance[d] <= distance[c]

BestMatch(distance) ==
    LET left == Filtered(distance)
    IN IF left = {} THEN None
       ELSE CHOOSE c \in left : \A d \in left : distance[c] <= distance[d]

\* analysed chooses the best match of the scored candidates.
Analysed ==
    IF Readable(kind, hash, "identified") /\ Readable(kind, hash, "scored")
      THEN Done(BestMatch(Value(kind, hash, "scored"))) ELSE Missing

\* published writes the record of context.ttl into its step file.
Record ==
    [entity |-> entity, path |-> Value("learning", hash, "identified"),
     weight |-> Value("learning", hash, "aligned")]

Result(s) ==
    CASE s = "identified" -> Identified
      [] s = "extracted" -> Extracted
      [] s = "spatialized" -> Spatialized
      [] s = "aligned" -> Aligned
      [] s = "vectors_loaded" -> VectorsLoaded
      [] s = "scored" -> Scored
      [] s = "analysed" -> Analysed
      [] OTHER -> Missing

-----------------------------------------------------------------------------
NoRecords == [h \in Contents |-> None]

Init ==
    /\ source \in [Paths -> Contents \ {Alter}]
    /\ local \in [Candidates -> {None}] \cup {[c \in Candidates |-> WeightOf[c]]}
    /\ cached = [c \in Candidates |-> None]
    /\ remote = [c \in Candidates |-> WeightOf[c]]
    /\ steps = [k \in Kinds |-> [h \in Contents |-> [s \in StepNames |-> Missing]]]
    /\ contextFile = [records |-> NoRecords, parameters |-> TRUE]
    /\ memory = contextFile
    /\ pc = "idle" /\ kind = "learning" /\ jobs = {}
    /\ path = None /\ hash = None /\ entity = None
    /\ active = 0 /\ reported = {} /\ response = "none"
    /\ commands = 0 /\ edits = 0 /\ failures = 0

-----------------------------------------------------------------------------
(* The commands.  A new process loads its context from context.ttl.        *)

Command(k, sources) ==
    /\ pc = "idle" /\ commands < MaxCommands
    /\ sources # {}
    /\ pc' = "open" /\ kind' = k /\ jobs' = sources
    /\ path' = None /\ hash' = None /\ active' = 0 /\ reported' = {} /\ response' = "none"
    /\ memory' = contextFile
    /\ commands' = commands + 1
    /\ UNCHANGED <<files, steps, contextFile, edits, failures>>

\* --learn-from takes one PDF or every PDF of a directory.
LearnFrom ==
    LET present == {p \in Paths : source[p] # None}
    IN \E e \in Entities, sources \in {{p} : p \in present} \cup {present} :
         Command("learning", sources) /\ entity' = e

Analyse ==
    \E p \in {x \in Paths : source[x] # None} :
        Command("analysis", {p}) /\ UNCHANGED entity

\* Whatever a capability raises ends the command, also for the files that are left.
FailCommand(r) ==
    /\ pc' = "idle" /\ response' = r /\ jobs' = {}
    /\ UNCHANGED <<kind, path, hash, entity, active, reported>>

\* The step repository of the next source file: the directory of its hash, as it
\* is now.  The worker starts in the state that the directory shows.
Open ==
    /\ pc = "open"
    /\ \E p \in jobs :
         IF source[p] = None THEN FailCommand("failed")
         ELSE /\ path' = p /\ hash' = source[p]
              /\ jobs' = jobs \ {p}
              /\ active' = Observed(kind, source[p])
              /\ pc' = IF active' = Length(kind) THEN "respond" ELSE "ready"
              /\ UNCHANGED <<kind, entity, reported, response>>
    /\ UNCHANGED <<files, steps, context, commands, edits, failures>>

-----------------------------------------------------------------------------
(* The transitions.                                                        *)

Target == Order(kind)[active + 1]

Write(s, file) == steps' = [steps EXCEPT ![kind][hash][s] = file]

\* Mutant of Arrive: the interpreter runs ahead of its step files.
ArriveTwice ==
    /\ active' = IF active + 2 <= Length(kind) THEN active + 2 ELSE active + 1
    /\ pc' = IF active' = Length(kind) THEN "respond" ELSE "ready"
    /\ UNCHANGED <<kind, jobs, path, hash, entity, reported, response>>

\* The contract: the directory now shows the target.
Arrive ==
    /\ active' = active + 1
    /\ pc' = IF active' = Length(kind) THEN "respond" ELSE "ready"
    /\ UNCHANGED <<kind, jobs, path, hash, entity, reported, response>>

\* set_parameter_value("resource", ...) saves the graph of the process.
SaveContext == contextFile' = memory /\ UNCHANGED memory

\* perform_state_transition for the capabilities that only write their step.
Transform ==
    /\ pc = "ready" /\ Target \notin {"origin_resolved", "published"}
    /\ IF Result(Target) = Missing
         THEN FailCommand("failed") /\ UNCHANGED <<steps, context>>
         ELSE Write(Target, Result(Target)) /\ Arrive /\ SaveContext
    /\ UNCHANGED <<files, commands, edits, failures>>

\* origin_resolved downloads every remote file into the cache, and then needs one.
ResolveOrigins ==
    /\ pc = "ready" /\ Target = "origin_resolved"
    /\ cached' = [c \in Candidates |-> IF remote[c] # None THEN remote[c] ELSE cached[c]]
    /\ IF Origins(cached') = {}
         THEN FailCommand("failed") /\ UNCHANGED <<steps, context>>
         ELSE Write(Target, Done(Origins(cached'))) /\ Arrive /\ SaveContext
    /\ UNCHANGED <<source, local, remote, commands, edits, failures>>

\* A download fails or times out; the files before it are in the cache.
DownloadFails ==
    /\ pc = "ready" /\ Target = "origin_resolved" /\ failures < MaxFailures
    /\ \E missed \in SUBSET {c \in Candidates : remote[c] # None} \ {{}} :
         cached' = [c \in Candidates |-> IF remote[c] # None /\ c \notin missed
                                         THEN remote[c] ELSE cached[c]]
    /\ FailCommand("failed")
    /\ failures' = failures + 1
    /\ UNCHANGED <<source, local, remote, steps, context, commands, edits>>

\* published: the has_valid_context hotfix writes a new context.ttl.
ResetContext ==
    /\ pc = "ready" /\ Target = "published"
    /\ IF Readable(kind, hash, "identified") /\ Readable(kind, hash, "aligned")
         THEN /\ contextFile' = [records |-> NoRecords, parameters |-> FALSE]
              /\ pc' = "reset"
              /\ UNCHANGED <<memory, kind, jobs, path, hash, entity, active, reported, response>>
         ELSE FailCommand("failed") /\ UNCHANGED context
    /\ UNCHANGED <<files, steps, commands, edits, failures>>

\* The record is added to it.
WriteRecord ==
    /\ pc = "reset"
    /\ contextFile' = [contextFile EXCEPT !.records[hash] = Record]
    /\ pc' = "record"
    /\ UNCHANGED <<files, steps, memory, kind, jobs, path, hash, entity, active, reported,
                   response, commands, edits, failures>>

\* The step file, and the context saved over it all.
WritePublished ==
    /\ pc = "record"
    /\ Write("published", Done(Record)) /\ Arrive /\ SaveContext
    /\ UNCHANGED <<files, commands, edits, failures>>

\* A capability raises: before it writes, or when its file is half written.
TransformFails ==
    /\ pc \in {"ready", "reset", "record"} /\ failures < MaxFailures
    /\ \E file \in {Missing} \cup (IF pc = "reset" THEN {} ELSE {Torn}) : Write(Target, file)
    /\ FailCommand("failed")
    /\ failures' = failures + 1
    /\ UNCHANGED <<files, context, commands, edits>>

-----------------------------------------------------------------------------
(* _build_final_response reads the last step file.                         *)

EndLearning ==
    /\ pc = "respond" /\ kind = "learning"
    /\ IF ~Readable(kind, hash, "published") THEN FailCommand("failed")
       ELSE /\ reported' = reported \cup {hash}
            /\ pc' = IF jobs = {} THEN "idle" ELSE "open"
            /\ response' = IF jobs = {} THEN "learned" ELSE "none"
            /\ UNCHANGED <<kind, jobs, path, hash, entity, active>>
    /\ UNCHANGED <<files, steps, context, commands, edits, failures>>

EndAnalysis ==
    /\ pc = "respond" /\ kind = "analysis"
    /\ IF ~Readable(kind, hash, "analysed") THEN FailCommand("failed")
       ELSE /\ reported' = {hash} /\ pc' = "idle" /\ response' = "analysed"
            /\ UNCHANGED <<kind, jobs, path, hash, entity, active>>
    /\ UNCHANGED <<files, steps, context, commands, edits, failures>>

-----------------------------------------------------------------------------
(* The environment.                                                        *)

\* The process is killed, perhaps while it writes a step file.
Kill ==
    /\ pc # "idle" /\ failures < MaxFailures
    /\ \/ UNCHANGED steps
       \/ pc \in {"ready", "record"} /\ Write(Target, Torn)
    /\ FailCommand("killed")
    /\ failures' = failures + 1
    /\ UNCHANGED <<files, context, commands, edits>>

\* The owner replaces or removes a PDF, or a vector file of the project.
Edit ==
    /\ edits < MaxEdits
    /\ \/ /\ \E p \in Paths, c \in {Alter, None} : source' = [source EXCEPT ![p] = c]
          /\ UNCHANGED <<local, remote>>
       \/ /\ \E c \in Candidates : local' = [local EXCEPT ![c] = None]
          /\ UNCHANGED <<source, remote>>
       \/ /\ \E c \in Candidates : remote' = [remote EXCEPT ![c] = None]
          /\ UNCHANGED <<source, local>>
    /\ edits' = edits + 1
    /\ UNCHANGED <<cached, steps, context, worker, commands, failures>>

Work ==
    \/ Open \/ Transform \/ ResolveOrigins
    \/ ResetContext \/ WriteRecord \/ WritePublished \/ EndLearning \/ EndAnalysis

Next ==
    \/ LearnFrom \/ Analyse \/ Work
    \/ TransformFails \/ DownloadFails \/ Kill \/ Edit

Spec == Init /\ [][Next]_vars
-----------------------------------------------------------------------------
(* Properties.                                                             *)

Records == [entity : Entities, path : Paths, weight : Nat]

\* Every variable has a value of its kind; step files hold what their capability writes.
TypeOK ==
    /\ source \in [Paths -> Contents \cup {None}]
    /\ local \in [Candidates -> Nat \cup {None}]
    /\ cached \in [Candidates -> Nat \cup {None}]
    /\ remote \in [Candidates -> Nat \cup {None}]
    /\ \A k \in Kinds, h \in Contents, s \in StepNames :
         steps[k][h][s].status \in {"missing", "torn", "done"}
    /\ contextFile.records \in [Contents -> Records \cup {None}]
    /\ contextFile.parameters \in BOOLEAN
    /\ memory.records \in [Contents -> Records \cup {None}]
    /\ memory.parameters \in BOOLEAN
    /\ pc \in {"idle", "open", "ready", "reset", "record", "respond"}
    /\ kind \in Kinds /\ active \in 0 .. Length(kind) /\ jobs \subseteq Paths
    /\ path \in Paths \cup {None} /\ hash \in Contents \cup {None}
    /\ entity \in Entities \cup {None} /\ reported \subseteq Contents
    /\ response \in {"none", "learned", "analysed", "failed", "killed"}
    /\ commands \in 0 .. MaxCommands /\ edits \in 0 .. MaxEdits
    /\ failures \in 0 .. MaxFailures

\* The resume of machine.py's observed_state is sound: a step file is there only when
\* the files of all the earlier steps are, whatever was interrupted, and a running
\* chart is in the state that its directory shows.
StepsInOrder ==
    /\ \A k \in Kinds, h \in Contents : \A i \in 2 .. Length(k) :
         Exists(k, h, Order(k)[i]) => Exists(k, h, Order(k)[i - 1])
    /\ pc \in {"ready", "reset", "record", "respond"} => active = Observed(kind, hash)

\* The steps of one directory belong together, also when they were written by
\* several commands while PDFs, vector files and records changed: a whole step file
\* was computed from the whole step files that are on disk now.  The vector is the one
\* of the spatialized text, the published record has that vector and the recorded path,
\* the scores are the distances of the loaded candidates to that vector, and the
\* analysis is the best match of the scores.
Lineage ==
    \A k \in Kinds, h \in Contents :
      /\ Readable(k, h, "aligned") =>
           /\ Readable(k, h, "spatialized")
           /\ Value(k, h, "aligned") = WeightOf[Value(k, h, "spatialized")]
      /\ Readable(k, h, "published") =>
           /\ Readable(k, h, "identified") /\ Readable(k, h, "aligned")
           /\ Value(k, h, "published").path = Value(k, h, "identified")
           /\ Value(k, h, "published").weight = Value(k, h, "aligned")
      /\ Readable(k, h, "scored") =>
           /\ Readable(k, h, "aligned") /\ Readable(k, h, "vectors_loaded")
           /\ Value(k, h, "scored") =
                Scores(Value(k, h, "aligned"), Value(k, h, "vectors_loaded"))
      /\ Readable(k, h, "analysed") =>
           /\ Readable(k, h, "scored")
           /\ Value(k, h, "analysed") = BestMatch(Value(k, h, "scored"))

\* The filters of scored and analysed never lose the nearest candidate to a farther
\* one: a best match is within max_distance, and no suited candidate that was
\* loaded is nearer.
BestMatchNearest ==
    \A h \in Contents :
      Readable("analysis", h, "analysed") /\ Value("analysis", h, "analysed") # None =>
        LET loaded == Value("analysis", h, "vectors_loaded")
            far(c) == Distance(Value("analysis", h, "aligned"), loaded[c].weight)
            best == Value("analysis", h, "analysed")
        IN /\ far(best) <= MaxDistance
           /\ \A c \in DOMAIN loaded \ Unsuited : far(best) <= far(c)
=============================================================================
