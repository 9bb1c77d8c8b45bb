------------------------- MODULE ContainerSelection -------------------------
(***************************************************************************)
(* Which container a command works on.  Every command of the CLI loads the *)
(* persisted context.ttl (CliContextAdapter), and then                     *)
(* CliParameterValidationOrchestrator.check copies the valued flags into   *)
(* it, runs ContainerIdStrategy and calls the command's own check, which   *)
(* may bind the selection again.  Every write to the context is saved, and *)
(* what one command leaves there the next one finds.                       *)
(*                                                                         *)
(* The commands are storage --create (of a container and of a dataset),    *)
(* storage --update, view, context --entity and context --import-from.  A  *)
(* selector is the identifier or the absolute path of a container.  The    *)
(* other options of a command are ones it supports.                        *)
(***************************************************************************)
EXTENDS Naturals, FiniteSets

CONSTANTS
    Dirs,           \* directories of the workspace
    Above,          \* each directory's ancestors, itself included
    Ids,            \* container identifiers
    None,           \* no value
    Broken,         \* a Turtle file that does not parse
    MaxCommands,    \* bound: commands started
    MaxCrashes      \* bound: commands killed

ASSUME SelectionAssumption ==
    /\ Above \in [Dirs -> SUBSET Dirs]
    /\ \A d \in Dirs : d \in Above[d]
    /\ \A d \in Dirs : \A a, b \in Above[d] : a \in Above[b] \/ b \in Above[a]
    /\ Ids \cap Dirs = {} /\ None \notin Ids \cup Dirs
    /\ Broken \notin Ids \cup Dirs \cup {None}
    /\ MaxCommands \in Nat /\ MaxCrashes \in Nat

VARIABLES
    index,      \* where storage.ttl says each container is
    onDisk,     \* the container of each directory's container.ttl
    file,       \* context.ttl
    mem,        \* the running command's context
    cmd,        \* the running command
    pc,         \* its stage
    commands, crashes

workspace == <<index, onDisk>>
vars == <<workspace, file, mem, cmd, pc, commands, crashes>>

Selectors == Ids \cup Dirs

Contexts == [container_id : Selectors \cup {None}, container_path : Dirs \cup {None},
             container : Selectors \cup {None}, dataset_path : Dirs \cup {None}]

NoContext == [container_id |-> None, container_path |-> None,
              container |-> None, dataset_path |-> None]

(* A command line: `arg` is the selector of a flag, or the path of a       *)
(* container to create; `cwd` is read when there is neither.               *)
Commands ==
    [kind : {"create"}, flag : {"none"}, arg : Dirs, cwd : {None}]
    \cup [kind : {"update", "view", "entity"}, flag : {"none"}, arg : {None}, cwd : Dirs]
    \cup [kind : {"update", "view", "entity", "dataset"},
          flag : {"--container-id", "--container"}, arg : Selectors, cwd : {None}]
    \cup [kind : {"import"}, flag : {"--container-id"}, arg : Selectors, cwd : {None}]

Match == [id : Ids, loc : Dirs]

Init ==
    /\ index \in [Ids -> Dirs \cup {None}]
    /\ onDisk \in [Dirs -> Ids \cup {None, Broken}]
    /\ file = NoContext
    /\ mem = NoContext
    /\ cmd = None
    /\ pc = "idle"
    /\ commands = 0 /\ crashes = 0

-----------------------------------------------------------------------------
(* ContainerIdStrategy                                                     *)

Depth(d) == Cardinality(Above[d])

Deepest(matches) == {m \in matches : \A n \in matches : Depth(n.loc) <= Depth(m.loc)}

FindById(s) ==
    IF s \in Ids /\ index[s] # None THEN {[id |-> s, loc |-> index[s]]} ELSE {}

\* The most specific registered container that holds a path.
FindByPath(s) ==
    IF s \in Dirs THEN Deepest({m \in Match : index[m.id] = m.loc /\ m.loc \in Above[s]}) ELSE {}

\* The nearest directory above d, or d, that has a container.ttl.
Nearest(d) ==
    {a \in Above[d] : onDisk[a] # None /\ \A b \in Above[d] : onDisk[b] # None => b \in Above[a]}

\* _find_from_current_container_from_root raises.
CwdRaises(d) == \E a \in Nearest(d) : onDisk[a] = Broken

\* _resolve_container_for_current_directory: the nearest container on disk,
\* unless a registered one is deeper.
FromCwd(d) ==
    LET found == {[id |-> onDisk[a], loc |-> a] : a \in Nearest(d)} IN
    {m \in FindByPath(d) : \A n \in found : Depth(m.loc) > Depth(n.loc)}
    \cup {n \in found : \A m \in FindByPath(d) : Depth(m.loc) <= Depth(n.loc)}

Bind(m, matches) ==
    {[m EXCEPT !.container_id = x.id, !.container_path = x.loc] : x \in matches}

Clear(m) == [m EXCEPT !.container_id = None, !.container_path = None]

\* Mutant of BindOrClear: an unmatched selector leaves the context as it was.
BindOrKeep(m, matches) == IF matches = {} THEN {m} ELSE Bind(m, matches)

BindOrClear(m, matches) == IF matches = {} THEN {Clear(m)} ELSE Bind(m, matches)

\* What a selector of flag --container denotes.
Denoted(s) == IF FindById(s) # {} THEN FindById(s) ELSE FindByPath(s)

\* ContainerIdStrategy.execute: the contexts it may leave for command c.
Resolve(m, c) ==
    IF c.flag = "--container-id"
       THEN IF m.container_id = None THEN {m} ELSE BindOrClear(m, FindById(m.container_id))
    ELSE IF c.flag = "--container"
       THEN IF m.container = None THEN {m} ELSE BindOrClear(m, Denoted(m.container))
    ELSE IF FromCwd(c.cwd) = {} THEN {m} ELSE Bind(m, FromCwd(c.cwd))

\* Resolve raises.
ResolveRaises(c) == c.flag = "none" /\ CwdRaises(c.cwd)

-----------------------------------------------------------------------------
(* The stages of a command                                                 *)

\* The command's context becomes m, is saved, and stage l follows.
SaveAndGoto(m, l) ==
    /\ mem' = m
    /\ file' = m
    /\ pc' = l
    /\ UNCHANGED <<workspace, cmd, commands, crashes>>

Goto(l) ==
    /\ pc' = l
    /\ UNCHANGED <<workspace, file, mem, cmd, commands, crashes>>

\* CliCommandRunAdapter.make: a context.ttl that does not parse fails the command.
Start(c) ==
    /\ pc \in {"idle", "run", "refused"}
    /\ commands < MaxCommands
    /\ commands' = commands + 1
    /\ cmd' = c
    /\ IF file = Broken THEN mem' = NoContext /\ pc' = "refused"
                        ELSE mem' = file /\ pc' = "explicit"
    /\ UNCHANGED <<workspace, file, crashes>>

\* apply_explicit_parameter_values
ApplyExplicit ==
    /\ pc = "explicit"
    /\ \/ cmd.flag = "none" /\ Goto("strategy")
       \/ /\ cmd.flag = "--container-id"
          /\ SaveAndGoto([mem EXCEPT !.container_id = cmd.arg], "strategy")
       \/ /\ cmd.flag = "--container"
          /\ SaveAndGoto([mem EXCEPT !.container = cmd.arg], "strategy")

\* The parameter strategies of the command; a container create declares none.
RunStrategy ==
    /\ pc = "strategy"
    /\ \/ cmd.kind = "create" /\ Goto("check")
       \/ cmd.kind # "create" /\ ResolveRaises(cmd) /\ Goto("refused")
       \/ /\ cmd.kind # "create"
          /\ ~ResolveRaises(cmd)
          /\ \E m \in Resolve(mem, cmd) :
                IF m = mem THEN Goto("check") ELSE SaveAndGoto(m, "check")

\* Mutant of CheckCreate: dataset_path is not deleted.
CheckCreateKeepsDataset ==
    /\ pc = "check" /\ cmd.kind = "create"
    /\ SaveAndGoto([mem EXCEPT !.container_path = cmd.arg], "run")

\* StorageCreateCommand.check
CheckCreate ==
    /\ pc = "check" /\ cmd.kind = "create"
    /\ SaveAndGoto([mem EXCEPT !.dataset_path = None, !.container_path = cmd.arg], "run")

\* StorageUpdateCommand.check resolves the identifier again.
CheckUpdate ==
    LET requested == IF cmd.flag = "none" THEN mem.container_id ELSE cmd.arg IN
    /\ pc = "check" /\ cmd.kind = "update"
    /\ \/ FindById(requested) = {} /\ Goto("refused")
       \/ \E x \in FindById(requested) :
             SaveAndGoto([container_id |-> x.id, container_path |-> x.loc,
                          container |-> None, dataset_path |-> None], "run")

\* DatasetCreateCommand.check drops what the context has and resolves again;
\* the dataset's path may be refused.
CheckDataset ==
    LET fresh == IF cmd.flag = "--container-id" THEN [NoContext EXCEPT !.container_id = cmd.arg]
                 ELSE [NoContext EXCEPT !.container = cmd.arg] IN
    /\ pc = "check" /\ cmd.kind = "dataset"
    /\ \E m \in Resolve(fresh, cmd) :
          \/ SaveAndGoto(m, "refused")
          \/ /\ m.container_id # None
             /\ SaveAndGoto([m EXCEPT !.dataset_path = m.container_path], "run")

\* Mutant of CheckView: the inherited selection is not dropped first.
CheckViewInherits ==
    /\ pc = "check" /\ cmd.kind = "view"
    /\ \E m \in Resolve(mem, cmd) :
          SaveAndGoto(m, IF m.container_path = None THEN "refused" ELSE "run")

\* ContainerViewCommand.check drops the selection and resolves again.
CheckView ==
    /\ pc = "check" /\ cmd.kind = "view"
    /\ \E m \in Resolve(Clear(mem), cmd) :
          SaveAndGoto(m, IF m.container_path = None THEN "refused" ELSE "run")

\* EntityCommand.check: the entity to instantiate may be unknown.
CheckEntity ==
    LET resolved == mem.container_id # None /\ mem.container_path # None IN
    /\ pc = "check" /\ cmd.kind = "entity"
    /\ \/ Goto("refused")
       \/ resolved /\ Goto("run")

\* DocumentImportCommand.check; it is refused as well when the entity or the file
\* to import cannot be resolved, before or after it has bound the container.
CheckImport ==
    /\ pc = "check" /\ cmd.kind = "import"
    /\ \/ Goto("refused")
       \/ \E x \in FindById(cmd.arg), l \in {"run", "refused"} :
             SaveAndGoto([mem EXCEPT !.container_id = x.id, !.container_path = x.loc], l)

\* Contexts that a command saves on its way: each parameter is still the old one,
\* is deleted already, or has its new value.
Midway ==
    LET new == IF cmd.kind = "create" \/ ResolveRaises(cmd) THEN {} ELSE Resolve(mem, cmd) IN
    {f \in Contexts : \A k \in DOMAIN f :
        f[k] \in {mem[k], None, cmd.arg} \cup {m[k] : m \in new}}

\* The process is killed: context.ttl is truncated, half written, or was saved
\* between two of the command's assignments.
Crash ==
    /\ pc \in {"explicit", "strategy", "check"}
    /\ crashes < MaxCrashes
    /\ crashes' = crashes + 1
    /\ pc' = "idle"
    /\ mem' = NoContext
    /\ cmd' = None
    /\ file' \in Midway \cup {NoContext, Broken}
    /\ UNCHANGED <<workspace, commands>>

\* What DirectoryReadyCapability creates once a create runs: the dataset's
\* directory when the context has one, else the container's.
DirectoryTarget == IF mem.dataset_path # None THEN mem.dataset_path ELSE mem.container_path

\* A container create that succeeds (module ContainerRegistry): the identifier is
\* the one the folder has, or a fresh one.
RunCreate ==
    /\ pc = "run" /\ cmd.kind = "create"
    /\ \E i \in Ids :
          /\ \/ i = onDisk[DirectoryTarget]
             \/ /\ onDisk[DirectoryTarget] \notin Ids
                /\ index[i] = None /\ \A d \in Dirs : onDisk[d] # i
          /\ onDisk' = [onDisk EXCEPT ![DirectoryTarget] = i]
          /\ index' = [index EXCEPT ![i] = DirectoryTarget]
    /\ pc' = "idle"
    /\ UNCHANGED <<file, mem, cmd, commands, crashes>>

Next ==
    \/ \E c \in Commands : Start(c)
    \/ ApplyExplicit \/ RunStrategy
    \/ CheckCreate \/ CheckUpdate \/ CheckDataset \/ CheckView \/ CheckEntity
    \/ CheckImport \/ RunCreate
    \/ Crash

Spec == Init /\ [][Next]_vars

-----------------------------------------------------------------------------
(* Properties                                                              *)

\* Every variable has a value of its kind.
TypeOK ==
    /\ index \in [Ids -> Dirs \cup {None}]
    /\ onDisk \in [Dirs -> Ids \cup {None, Broken}]
    /\ file \in Contexts \cup {Broken}
    /\ mem \in Contexts
    /\ cmd \in Commands \cup {None}
    /\ pc \in {"idle", "explicit", "strategy", "check", "run", "refused"}
    /\ commands \in 0..MaxCommands
    /\ crashes \in 0..MaxCrashes

Target == [id |-> mem.container_id, loc |-> mem.container_path]

Running(kinds) == pc = "run" /\ cmd.kind \in kinds

\* A command that was given a selector works on the container that the selector
\* denotes, whatever earlier or killed commands left in context.ttl.
SelectorObeyed ==
    Running({"update", "view", "entity", "dataset", "import"}) /\ cmd.flag # "none" =>
        Target \in IF cmd.flag = "--container-id" THEN FindById(cmd.arg) ELSE Denoted(cmd.arg)

\* view.py:102: the strategy is "only authoritative for the *current* CWD", so that a
\* context.ttl left by another command never decides which view is opened: without
\* a selector, view works on the container of the working directory; so does
\* context --entity when there is one.
CwdObeyed ==
    Running({"view", "entity"}) /\ cmd.flag = "none" =>
        Target \in FromCwd(cmd.cwd) \/ (cmd.kind = "entity" /\ FromCwd(cmd.cwd) = {})

\* directory_ready.py:45: a container create makes the directory it was given, and
\* not the one of a dataset that was created before; a dataset create makes its
\* dataset in the selected container.
DirectoryObeyed ==
    /\ Running({"create"}) => mem.dataset_path = None /\ DirectoryTarget = cmd.arg
    /\ Running({"dataset"}) => DirectoryTarget = mem.container_path
=============================================================================
