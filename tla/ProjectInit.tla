------------------------------ MODULE ProjectInit ------------------------------
(***************************************************************************)
(* ontobdc init.  A process finds the project root from its environment    *)
(* and its working directory, loads the execution context and walks the    *)
(* chart of seven states.  Each state has a check and, when it fails, a    *)
(* hotfix; after each hotfix the contract observes the files anew, check   *)
(* by check.  Two of the files are repaired by replacing them, config.yaml *)
(* by reading it, completing it and writing it in place.                   *)
(*                                                                         *)
(* Several processes run at once, any of them can be killed or be refused  *)
(* a write, and the owner and other commands change the files meanwhile.   *)
(* A chart state is its place in CliInitProcessState: 0 is undefined and   *)
(* Last is brand_ready.                                                    *)
(***************************************************************************)
EXTENDS Naturals, Sequences, FiniteSets

CONSTANTS
    Procs,
    Dirs,
    Above,      \* each directory's path to the file system's root, itself first
    Foreign,    \* directories that hold a config.yaml of some other program
    Envs,       \* values of ONTOBDC_PROJECT_ROOT, None for unset
    BrandKeys,  \* the keys of the brand entry
    None,       \* no value
    MaxRuns,    \* bound: commands started
    MaxFaults,  \* bound: kills and refused writes
    MaxEdits    \* bound: changes by the owner and by other commands

ASSUME InitAssumption ==
    /\ Dirs # {} /\ Above \in [Dirs -> Seq(Dirs)]
    /\ \A d \in Dirs : Above[d] # <<>> /\ Head(Above[d]) = d
    /\ Foreign \subseteq Dirs /\ Envs \subseteq Dirs \cup {None}
    /\ None \notin Dirs \cup Procs /\ Dirs \cap {"no", "blank"} = {} /\ BrandKeys # {}
    /\ {MaxRuns, MaxFaults, MaxEdits} \subseteq Nat

Last == 6

Running == {"load", "reload", "observe", "perform", "hotfix", "truncate", "write",
            "recheck"}

VARIABLES
    disk,       \* what .__ontobdc__ of each directory holds
    pc, cwd, env,
    found,      \* the root that the configuration adapter discovered
    root,       \* the directory that init works on
    at,         \* the active chart state
    goal,       \* "initial" or "contract": what the running observation is for
    seen,       \* checks it has passed
    buffer,     \* what the process has read and will write
    outcome,    \* how the process's last command ended
    writer,     \* the last to change each directory's files
    lone, was,  \* the command that nothing has interfered with, the disk it started from
    runs, faults, edits

process == <<pc, cwd, env, found, root, at, goal, seen, buffer, outcome>>
history == <<writer, lone, was>>
vars == <<disk, process, history, runs, faults, edits>>

-----------------------------------------------------------------------------
(* The files.                                                              *)

Values == {"no", "default", "custom"}

\* path is directory.root.absolute_path, that of a project moved or cloned is of
\* another directory.
Configs == [kind : {"absent", "broken", "map"}, engine : Values,
            path : {"no", "blank"} \cup Dirs, brand : [BrandKeys -> Values], other : BOOLEAN]

\* storage.ttl: a fresh index has the storage itself, a used one containers too.
Indexes == {"absent", "broken", "empty", "fresh", "used"}

\* context.ttl: a bare one was saved by a command that found none and has another
\* individual; a used one has parameters.
Contexts == {"absent", "broken", "empty", "bare", "fresh", "used"}

Disks == [dir : BOOLEAN, config : Configs, index : Indexes, context : Contexts]

\* An empty file, which YAML reads as nothing and the code as {}.
EmptyConfig == [kind |-> "map", engine |-> "no", path |-> "no",
                brand |-> [k \in BrandKeys |-> "no"], other |-> FALSE]

NoDisk == [dir |-> FALSE, config |-> [EmptyConfig EXCEPT !.kind = "absent"],
           index |-> "absent", context |-> "absent"]

-----------------------------------------------------------------------------
(* The root.                                                               *)

\* Mutant: the search does not stop at the first hit.
NearestLast(d, ds) ==
    LET hits == {i \in 1 .. Len(Above[d]) : Above[d][i] \in ds}
    IN IF hits = {} THEN None
       ELSE Above[d][CHOOSE i \in hits : \A j \in hits : i >= j]

\* The directory of ds that is nearest to d.
Nearest(d, ds) ==
    LET hits == {i \in 1 .. Len(Above[d]) : Above[d][i] \in ds}
    IN IF hits = {} THEN None
       ELSE Above[d][CHOOSE i \in hits : \A j \in hits : i <= j]

Projects == {d \in Dirs : disk[d].config.kind # "absent"}

\* _get_root_dir: the environment, the nearest .__ontobdc__/config.yaml, and then
\* find_project_root, whose get_config_file(dir) is dir/config.yaml.
Root(d, e) ==
    CASE e # None -> e
      [] e = None /\ Nearest(d, Projects) # None -> Nearest(d, Projects)
      [] OTHER -> Nearest(d, Foreign)

\* Mutant: no fallback to the working directory.
InitRootFound(d, r) == r

\* CliContextAdapter.root_path and get_init_root_path: the path that is stored, of
\* whatever directory; the adapter fills in that of its own root when there is none, and
\* a blank one is no path.
InitRoot(d, r) ==
    IF r = None \/ disk[r].config.path = "blank" THEN d
    ELSE IF disk[r].config.path = "no" THEN r ELSE disk[r].config.path

-----------------------------------------------------------------------------
(* The checks.                                                             *)

\* has_valid_engine.
EngineValid(f) == f.config.kind = "map" /\ f.config.engine # "no"

\* is_root_set: the storage itself is in the index.
RootSet(f) == f.index \in {"fresh", "used"}

\* has_valid_context: the current context is in the file.
ContextValid(f) == f.context \in {"fresh", "used"}

\* has_valid_config_file: the adapter fills in a path that is missing, so that only
\* one that is no path fails.
ConfigFileValid(f) ==
    f.config.kind = "map" /\ f.config # EmptyConfig /\ f.config.path # "blank"

\* has_valid_brand.
BrandValid(f) == f.config.kind = "map" /\ \A k \in BrandKeys : f.config.brand[k] # "no"

\* One for each chart state after undefined, in the evaluator's order.
Checks(f) ==
    <<f.dir, EngineValid(f), RootSet(f), ContextValid(f), ConfigFileValid(f), BrandValid(f)>>

Ready(d) == \A i \in 1 .. Last : Checks(disk[d])[i]

-----------------------------------------------------------------------------
(* The hotfixes.                                                           *)

Or(value, default) == IF value = "no" THEN default ELSE value

\* The configuration that each hotfix makes of the one it read in directory d; no file
\* counts as an empty one.
EngineHotfix(c) == [c EXCEPT !.kind = "map", !.engine = Or(c.engine, "default")]

ConfigFileHotfix(c, d) ==
    [c EXCEPT !.kind = "map", !.path = d, !.engine = Or(c.engine, "default")]

\* Mutant: a brand that is there is taken as complete.
BrandHotfixWhole(c) ==
    [c EXCEPT !.kind = "map",
              !.brand = IF \E k \in BrandKeys : c.brand[k] # "no" THEN c.brand
                        ELSE [k \in BrandKeys |-> "default"]]

\* Mutant: the brand replaces the configuration.
BrandHotfixBare(c) ==
    [EmptyConfig EXCEPT !.brand = [k \in BrandKeys |-> Or(c.brand[k], "default")]]

BrandHotfix(c) ==
    [c EXCEPT !.kind = "map", !.brand = [k \in BrandKeys |-> Or(c.brand[k], "default")]]

Completed(state, c, d) ==
    CASE state = 2 -> EngineHotfix(c)
      [] state = 5 -> ConfigFileHotfix(c, d)
      [] OTHER -> BrandHotfix(c)

\* What the truncation leaves of the file that state's hotfix writes.
Truncated(state, f) ==
    CASE state = 3 -> [f EXCEPT !.index = "empty"]
      [] state = 4 -> [f EXCEPT !.context = "empty"]
      [] OTHER -> [f EXCEPT !.config = EmptyConfig]

\* What its write leaves; a file removed since it was opened stays removed.
Written(state, f, c) ==
    CASE ~f.dir -> f
      [] f.dir /\ state = 3 -> [f EXCEPT !.index = "fresh"]
      [] f.dir /\ state = 4 -> [f EXCEPT !.context = "fresh"]
      [] OTHER -> [f EXCEPT !.config = c]

-----------------------------------------------------------------------------
Init ==
    /\ disk = [d \in Dirs |-> NoDisk]
    /\ pc = [p \in Procs |-> "idle"]
    /\ cwd = [p \in Procs |-> CHOOSE d \in Dirs : TRUE]
    /\ env = [p \in Procs |-> None] /\ found = env /\ root = cwd
    /\ at = [p \in Procs |-> 0] /\ seen = at
    /\ goal = [p \in Procs |-> "initial"]
    /\ buffer = [p \in Procs |-> NoDisk]
    /\ outcome = [p \in Procs |-> "none"]
    /\ writer = [d \in Dirs |-> None]
    /\ lone = None /\ was = disk
    /\ runs = 0 /\ faults = 0 /\ edits = 0

Goto(p, step) == pc' = [pc EXCEPT ![p] = step]

Report(p, result) == Goto(p, "idle") /\ outcome' = [outcome EXCEPT ![p] = result]

Forget(p) ==
    /\ at' = [at EXCEPT ![p] = 0] /\ seen' = [seen EXCEPT ![p] = 0]
    /\ goal' = [goal EXCEPT ![p] = "initial"]
    /\ buffer' = [buffer EXCEPT ![p] = NoDisk]

\* The command ends with result, and the process with it.
End(p, result) == Report(p, result) /\ Forget(p)

\* p leaves directory d as f.
Put(p, d, f) ==
    /\ disk' = [disk EXCEPT ![d] = f]
    /\ writer' = [writer EXCEPT ![d] = p]

KeepFiles == UNCHANGED <<disk, writer>>
KeepHistory == UNCHANGED <<lone, was>>
KeepBounds == UNCHANGED <<runs, faults, edits>>

\* Something interferes with whatever runs.
Interfere == lone' = None /\ was' = [d \in Dirs |-> NoDisk]

\* The modules are imported and the configuration adapter made, which fails on a root
\* whose config.yaml is missing or does not parse.
Start(p, d, e) ==
    /\ pc[p] = "idle" /\ runs < MaxRuns
    /\ LET r == Root(d, e) IN
         /\ found' = [found EXCEPT ![p] = r]
         /\ root' = [root EXCEPT ![p] = InitRoot(d, r)]
         /\ IF r # None /\ disk[r].config.kind # "map"
              THEN Report(p, "failed")
              ELSE /\ Goto(p, IF r = None THEN "observe" ELSE "load")
                   /\ outcome' = [outcome EXCEPT ![p] = "none"]
    /\ cwd' = [cwd EXCEPT ![p] = d] /\ env' = [env EXCEPT ![p] = e]
    /\ writer' = [x \in Dirs |-> IF writer[x] = p THEN None ELSE writer[x]]
    /\ IF \A q \in Procs : pc[q] = "idle"
         THEN lone' = p /\ was' = disk
         ELSE Interfere
    /\ runs' = runs + 1
    /\ UNCHANGED <<disk, at, seen, goal, buffer, faults, edits>>

\* CliContextAdapter: context.ttl is parsed, with only a missing file forgiven, and
\* saved again when it has an individual.
Load(p) ==
    LET f == disk[found[p]] IN
    /\ pc[p] = "load"
    /\ \/ /\ f.context = "broken"
          /\ End(p, "failed") /\ KeepFiles
       \/ /\ f.context \in {"absent", "empty"}
          /\ Goto(p, "observe") /\ KeepFiles
          /\ UNCHANGED <<at, goal, seen, buffer, outcome>>
       \/ /\ f.context \in {"bare", "fresh", "used"}
          /\ Goto(p, "reload")
          /\ buffer' = [buffer EXCEPT ![p].context = f.context]
          /\ Put(p, found[p], [f EXCEPT !.context = "empty"])
          /\ UNCHANGED <<at, goal, seen, outcome>>
    /\ UNCHANGED <<cwd, env, found, root>> /\ KeepHistory /\ KeepBounds

Reload(p) ==
    LET f == disk[found[p]] IN
    /\ pc[p] = "reload"
    /\ Put(p, found[p], IF f.dir THEN [f EXCEPT !.context = buffer[p].context] ELSE f)
    /\ Goto(p, "observe")
    /\ buffer' = [buffer EXCEPT ![p] = NoDisk]
    /\ UNCHANGED <<cwd, env, found, root, at, goal, seen, outcome>>
    /\ KeepHistory /\ KeepBounds

\* Mutant: the contract takes the target's own check for the whole.
FailsAlone(p, state) ==
    IF goal[p] = "initial" THEN ~Checks(disk[root[p]])[state + 1]
    ELSE ~Checks(disk[root[p]])[at[p] + 1]

\* The check after state fails, so that the evaluator returns state.
Fails(p, state) == ~Checks(disk[root[p]])[state + 1]

\* The worker enters a state: it is final, or the transition to the next one is due.
Enter(p, state) ==
    IF state = Last THEN End(p, "ok")
    ELSE /\ Goto(p, "perform")
         /\ at' = [at EXCEPT ![p] = state] /\ seen' = [seen EXCEPT ![p] = 0]
         /\ UNCHANGED <<goal, buffer, outcome>>

\* evaluate, one check a step.  The first observation places the worker; the one that
\* follows a transition is its contract, which wants the target state or a later one.
Observe(p) ==
    /\ pc[p] = "observe"
    /\ LET state == seen[p]
           failing == Fails(p, state)
           decided == failing \/ state + 1 = Last
           result == IF failing THEN state ELSE Last
       IN \/ /\ ~decided
             /\ seen' = [seen EXCEPT ![p] = state + 1]
             /\ UNCHANGED <<pc, at, goal, buffer, outcome>>
          \/ decided /\ goal[p] = "initial" /\ Enter(p, result)
          \/ decided /\ goal[p] = "contract" /\ result > at[p] /\ Enter(p, at[p] + 1)
          \/ decided /\ goal[p] = "contract" /\ result <= at[p] /\ End(p, "failed")
    /\ UNCHANGED <<cwd, env, found, root>>
    /\ KeepFiles /\ KeepHistory /\ KeepBounds

Contract(p) ==
    /\ Goto(p, "observe")
    /\ goal' = [goal EXCEPT ![p] = "contract"]
    /\ UNCHANGED <<at, seen, buffer, outcome>>

\* ontobdc_directory_ready makes the directory; the other capabilities check first.
Perform(p) ==
    /\ pc[p] = "perform"
    /\ \/ /\ at[p] = 0
          /\ Put(p, root[p], [disk[root[p]] EXCEPT !.dir = TRUE])
          /\ Contract(p)
       \/ /\ at[p] > 0
          /\ Goto(p, IF Checks(disk[root[p]])[at[p] + 1] THEN "recheck" ELSE "hotfix")
          /\ KeepFiles /\ UNCHANGED <<at, goal, seen, buffer, outcome>>
    /\ UNCHANGED <<cwd, env, found, root>> /\ KeepHistory /\ KeepBounds

\* A hotfix makes the directory; those of config.yaml read it, which may not parse.
Hotfix(p) ==
    LET f == disk[root[p]]  target == at[p] + 1 IN
    /\ pc[p] = "hotfix"
    /\ Put(p, root[p], [f EXCEPT !.dir = TRUE])
    /\ \/ /\ target \notin {3, 4} /\ f.config.kind = "broken"
          /\ End(p, "failed")
       \/ /\ target \notin {3, 4} /\ f.config.kind # "broken"
          /\ Goto(p, "truncate")
          /\ buffer' = [buffer EXCEPT ![p].config = Completed(target, f.config, root[p])]
          /\ UNCHANGED <<at, goal, seen, outcome>>
       \/ /\ target \in {3, 4}
          /\ Goto(p, "truncate") /\ UNCHANGED <<at, goal, seen, buffer, outcome>>
    /\ UNCHANGED <<cwd, env, found, root>> /\ KeepHistory /\ KeepBounds

\* The file is opened for writing, which fails when the directory is gone.
Truncate(p) ==
    LET f == disk[root[p]] IN
    /\ pc[p] = "truncate"
    /\ \/ /\ f.dir
          /\ Put(p, root[p], Truncated(at[p] + 1, f))
          /\ Goto(p, "write") /\ UNCHANGED <<at, goal, seen, buffer, outcome>>
       \/ ~f.dir /\ End(p, "failed") /\ KeepFiles
    /\ UNCHANGED <<cwd, env, found, root>> /\ KeepHistory /\ KeepBounds

Write(p) ==
    /\ pc[p] = "write"
    /\ Put(p, root[p], Written(at[p] + 1, disk[root[p]], buffer[p].config))
    /\ Goto(p, "recheck")
    /\ buffer' = [buffer EXCEPT ![p] = NoDisk]
    /\ UNCHANGED <<cwd, env, found, root, at, goal, seen, outcome>>
    /\ KeepHistory /\ KeepBounds

\* The capability's second check, and the return to the worker.
Recheck(p) ==
    /\ pc[p] = "recheck"
    /\ IF Checks(disk[root[p]])[at[p] + 1] THEN Contract(p) ELSE End(p, "failed")
    /\ UNCHANGED <<cwd, env, found, root>>
    /\ KeepFiles /\ KeepHistory /\ KeepBounds

\* The process is killed.
Kill(p) ==
    /\ pc[p] \in Running /\ faults < MaxFaults
    /\ End(p, "killed") /\ Interfere
    /\ faults' = faults + 1
    /\ UNCHANGED <<cwd, env, found, root, runs, edits>> /\ KeepFiles

\* mkdir or open is refused: the hotfix returns 1 and the capability raises.
Refuse(p) ==
    /\ pc[p] \in {"hotfix", "truncate"} \/ (pc[p] = "perform" /\ at[p] = 0)
    /\ faults < MaxFaults
    /\ End(p, "failed") /\ Interfere
    /\ faults' = faults + 1
    /\ UNCHANGED <<cwd, env, found, root, runs, edits>> /\ KeepFiles

\* What the owner makes of config.yaml, one key at a time, or by a mistake.
EditedConfigs(c) ==
    {[c EXCEPT !.kind = "broken"]}
    \cup {[c EXCEPT !.engine = v] : v \in {"no", "custom"}}
    \cup {[c EXCEPT !.path = v] : v \in {"no", "blank"} \cup Dirs}
    \cup {[c EXCEPT !.other = TRUE]}
    \cup UNION {{[c EXCEPT !.brand[k] = v] : v \in {"no", "custom"}} : k \in BrandKeys}

\* The owner edits a file or removes the directory, and other commands register
\* containers, save parameters or are killed while they do.
Edit(d) ==
    LET f == disk[d] IN
    /\ f.dir /\ edits < MaxEdits
    /\ \/ /\ f.config.kind = "map"
          /\ \E c \in EditedConfigs(f.config) \ {f.config} :
               disk' = [disk EXCEPT ![d].config = c]
       \/ /\ f.index # "absent"
          /\ \E i \in {"broken", "empty", "used"} \ {f.index} :
               disk' = [disk EXCEPT ![d].index = i]
       \/ /\ f.config.kind = "map"
          /\ \E c \in {"broken", "empty", IF f.context \in {"fresh", "used"} THEN "used"
                                          ELSE "bare"} \ {f.context} :
               disk' = [disk EXCEPT ![d].context = c]
       \/ disk' = [disk EXCEPT ![d] = NoDisk]
    /\ writer' = [writer EXCEPT ![d] = None]
    /\ Interfere
    /\ edits' = edits + 1
    /\ UNCHANGED <<process, runs, faults>>

\* The project in d is cloned to directory e, or moved there.
Relocate(d, e) ==
    /\ disk[d].dir /\ d # e /\ edits < MaxEdits
    /\ \E left \in {disk[d], NoDisk} : disk' = [disk EXCEPT ![e] = disk[d], ![d] = left]
    /\ writer' = [writer EXCEPT ![d] = None, ![e] = None]
    /\ Interfere
    /\ edits' = edits + 1
    /\ UNCHANGED <<process, runs, faults>>

\* The bounds are used up and everyone has ended.
Done ==
    /\ runs = MaxRuns /\ \A p \in Procs : pc[p] = "idle"
    /\ UNCHANGED vars

Step(p) ==
    \/ Load(p) \/ Reload(p) \/ Observe(p) \/ Perform(p)
    \/ Hotfix(p) \/ Truncate(p) \/ Write(p) \/ Recheck(p)

Next ==
    \/ \E p \in Procs : Step(p) \/ Kill(p) \/ Refuse(p)
    \/ \E p \in Procs, d \in Dirs, e \in Envs : Start(p, d, e)
    \/ \E d \in Dirs : Edit(d) \/ \E e \in Dirs : Relocate(d, e)
    \/ Done

Spec == Init /\ [][Next]_vars

-----------------------------------------------------------------------------
(* Properties.                                                             *)

TypeOK ==
    /\ disk \in [Dirs -> Disks]
    /\ pc \in [Procs -> Running \cup {"idle"}]
    /\ cwd \in [Procs -> Dirs] /\ env \in [Procs -> Dirs \cup {None}]
    /\ found \in [Procs -> Dirs \cup {None}] /\ root \in [Procs -> Dirs]
    /\ at \in [Procs -> 0 .. Last] /\ seen \in [Procs -> 0 .. Last - 1]
    /\ goal \in [Procs -> {"initial", "contract"}]
    /\ buffer \in [Procs -> Disks]
    /\ outcome \in [Procs -> {"none", "ok", "failed", "killed"}]
    /\ writer \in [Dirs -> Procs \cup {None}]
    /\ lone \in Procs \cup {None} /\ was \in [Dirs -> Disks]
    /\ runs \in Nat /\ faults \in Nat /\ edits \in Nat

\* "Bootstrap initialization executed successfully." is true of the files: when no one
\* has written to the root after the command that reports it, the root passes every
\* check, whatever other init commands, kills and edits went before or between.
OkIsReady ==
    \A p \in Procs : outcome[p] = "ok" /\ writer[root[p]] = p => Ready(root[p])

\* The lone command and how it ended.
LoneEnded == lone # None /\ pc[lone] = "idle"

\* init repairs what killed and failed commands leave.  One that nothing interferes
\* with fails only when config.yaml or context.ttl of the root cannot be parsed, or
\* ONTOBDC_PROJECT_ROOT names a directory that is no project.
Repairs ==
    LoneEnded /\ outcome[lone] = "failed" =>
        LET r == found[lone] IN
        /\ r # None
        /\ \/ was[r].config.kind = "broken" \/ was[r].context = "broken"
           \/ env[lone] = r /\ was[r].config.kind = "absent"
           \/ was[root[lone]].config.kind = "broken"

\* Repair takes nothing away.  A command that nothing interferes with leaves the
\* owner's settings, a healthy index with its containers and a healthy context with its
\* parameters as it found them, and other directories alone.
NothingLost ==
    LoneEnded =>
        \A d \in Dirs :
            LET old == was[d]  new == disk[d] IN
            /\ d # root[lone] => new = old
            /\ old.config.kind = new.config.kind \/ old.config.kind = "absent"
            /\ old.config.engine # "no" => new.config.engine = old.config.engine
            /\ old.config.path \in Dirs => new.config.path = old.config.path
            /\ \A k \in BrandKeys :
                 old.config.brand[k] # "no" => new.config.brand[k] = old.config.brand[k]
            /\ new.config.other = old.config.other
            /\ old.index \in {"fresh", "used"} => new.index = old.index
            /\ old.context \in {"fresh", "used"} => new.context = old.context

\* A later command finds the project.  After a success that nothing interfered with, the
\* root is ready and another init from the same directory works on it again; the search
\* from there, which the other commands rely on, ends at that root as well, or at a
\* config.yaml whose stored path is that of the root, as a moved or cloned project has.
OkIsFound ==
    LoneEnded /\ outcome[lone] = "ok" /\ env[lone] = None =>
        LET r == Root(cwd[lone], None) IN
        /\ Ready(root[lone])
        /\ r # None /\ InitRoot(cwd[lone], r) = root[lone]
        /\ r = root[lone] \/ disk[r].config.path = root[lone]

\* What find_project_root's docstring says of it: without the environment's help, the
\* root that is discovered has a .__ontobdc__/config.yaml.
DiscoveredIsProject ==
    lone # None /\ env[lone] = None /\ found[lone] # None =>
        was[found[lone]].config.kind # "absent"
=============================================================================
