---------------------- MODULE ContainerSelectionProofs ----------------------
(***************************************************************************)
(* A command works on the container that its command line names, for every *)
(* directory tree, every workspace, every number of commands and of kills, *)
(* and whatever the commands before it left in context.ttl.                *)
(*                                                                         *)
(* None of the three properties speaks of the stages before "run", where   *)
(* the inherited context is replaced piece by piece.  Chosen says what has *)
(* been replaced at each stage, and Sound that the check stage is reached  *)
(* only with a working directory that the strategy could read: view        *)
(* resolves it again there, without catching the exception.                *)
(***************************************************************************)
EXTENDS ContainerSelection, TLAPS

\* The container that the command's selector denotes.
Selected(c) == IF c.flag = "--container-id" THEN FindById(c.arg) ELSE Denoted(c.arg)

\* A command is at work in every stage between its start and its end.
AtWork == pc # "idle" => cmd \in Commands

\* What the context already has of the command line.
Chosen ==
    /\ pc = "strategy" /\ cmd.flag = "--container-id" => mem.container_id = cmd.arg
    /\ pc \in {"strategy", "check"} /\ cmd.flag = "--container" => mem.container = cmd.arg
    /\ pc = "check" /\ cmd.kind = "entity" /\ mem.container_id # None =>
         IF cmd.flag = "none" THEN FromCwd(cmd.cwd) = {} \/ Target \in FromCwd(cmd.cwd)
                              ELSE Target \in Selected(cmd)

\* The working directory of a command in its check stage could be resolved.
Sound == pc = "check" /\ cmd.kind # "create" => ~ResolveRaises(cmd)

IInv ==
    /\ TypeOK
    /\ AtWork
    /\ Chosen
    /\ Sound
    /\ SelectorObeyed
    /\ CwdObeyed
    /\ DirectoryObeyed

-----------------------------------------------------------------------------
(* The context record                                                      *)

\* An empty context is one.
LEMMA EmptyContext ==
    /\ NoContext \in Contexts
    /\ NoContext.container_id = None /\ NoContext.container_path = None
    /\ NoContext.container = None /\ NoContext.dataset_path = None
  BY DEF NoContext, Contexts

\* A cleared context has no selection.
LEMMA ClearIsEmpty ==
    ASSUME NEW m \in Contexts
    PROVE  /\ Clear(m) \in Contexts
           /\ Clear(m).container_id = None /\ Clear(m).container_path = None
           /\ Clear(m).container = m.container
  BY DEF Clear, Contexts

\* A context that Bind returns has a match as its selection.
LEMMA BindIsMatch ==
    ASSUME NEW m \in Contexts, NEW matches \in SUBSET Match, NEW n \in Bind(m, matches)
    PROVE  /\ n \in Contexts
           /\ n.container = m.container
           /\ n.container_id # None /\ n.container_path # None
           /\ [id |-> n.container_id, loc |-> n.container_path] \in matches
  <1>1. PICK x \in matches : n = [m EXCEPT !.container_id = x.id, !.container_path = x.loc]
    BY DEF Bind
  <1>2. /\ x \in Match /\ x.id \in Ids /\ x.loc \in Dirs
        /\ x = [id |-> x.id, loc |-> x.loc]
    BY DEF Match
  <1>3. /\ x.id \in Selectors \cup {None} /\ x.id # None /\ x.loc # None
    BY <1>2, SelectionAssumption DEF Selectors
  <1>4. /\ n \in Contexts /\ n.container = m.container
        /\ n.container_id = x.id /\ n.container_path = x.loc
    BY <1>1, <1>2, <1>3 DEF Contexts
  <1> QED BY <1>2, <1>3, <1>4

-----------------------------------------------------------------------------
(* What the strategy resolves to                                           *)

\* Every lookup yields containers of the workspace.
LEMMA FoundAreMatches ==
    ASSUME TypeOK
    PROVE  /\ \A s : FindById(s) \subseteq Match
           /\ \A s : FindByPath(s) \subseteq Match
           /\ \A s : Denoted(s) \subseteq Match
           /\ \A d \in Dirs : ~CwdRaises(d) => FromCwd(d) \subseteq Match
  <1>1. \A s : FindById(s) \subseteq Match
    BY DEF FindById, Match, TypeOK
  <1>2. \A s : FindByPath(s) \subseteq Match
    BY DEF FindByPath, Deepest
  <1>3. \A s : Denoted(s) \subseteq Match
    BY <1>1, <1>2 DEF Denoted
  <1>4. ASSUME NEW d \in Dirs, ~CwdRaises(d)
        PROVE  FromCwd(d) \subseteq Match
    <2>1. \A a \in Nearest(d) : a \in Dirs /\ onDisk[a] \in Ids
      BY <1>4, SelectionAssumption DEF CwdRaises, Nearest, TypeOK
    <2>2. {[id |-> onDisk[a], loc |-> a] : a \in Nearest(d)} \subseteq Match
      BY <2>1 DEF Match
    <2> QED BY <1>2, <2>2 DEF FromCwd
  <1> QED BY <1>1, <1>2, <1>3, <1>4

\* A lookup depends on the workspace only.
LEMMA SameWorkspace ==
    ASSUME UNCHANGED workspace
    PROVE  /\ \A s : FindById(s)' = FindById(s)
           /\ \A s : Denoted(s)' = Denoted(s)
           /\ \A d : FromCwd(d)' = FromCwd(d)
           /\ \A c : ResolveRaises(c)' = ResolveRaises(c)
           /\ \A c : Selected(c)' = Selected(c)
  <1> index' = index /\ onDisk' = onDisk
    BY DEF workspace
  <1>1. \A s : FindById(s)' = FindById(s)
    BY DEF FindById
  <1>2. \A s : FindByPath(s)' = FindByPath(s)
    BY DEF FindByPath
  <1>3. \A s : Denoted(s)' = Denoted(s)
    BY <1>1, <1>2 DEF Denoted
  <1>4. \A d : Nearest(d)' = Nearest(d)
    BY DEF Nearest
  <1>5. \A d : FromCwd(d)' = FromCwd(d)
    BY <1>2, <1>4 DEF FromCwd
  <1>6. \A c : ResolveRaises(c)' = ResolveRaises(c)
    BY <1>4 DEF ResolveRaises, CwdRaises
  <1> QED BY <1>1, <1>3, <1>5, <1>6 DEF Selected

\* A resolved context either has what the command line denotes as its selection,
\* or it has no selection, or the command line names nothing and the working
\* directory is in no container.
LEMMA ResolveOutcome ==
    ASSUME TypeOK, NEW c \in Commands, c.kind # "create", ~ResolveRaises(c),
           NEW m \in Contexts, NEW n \in Resolve(m, c)
    PROVE  /\ n \in Contexts
           /\ n.container = m.container
           /\ \/ /\ c.flag = "--container-id" /\ m.container_id # None
                 /\ [id |-> n.container_id, loc |-> n.container_path] \in FindById(m.container_id)
              \/ /\ c.flag = "--container" /\ m.container # None
                 /\ [id |-> n.container_id, loc |-> n.container_path] \in Denoted(m.container)
              \/ /\ c.flag = "none"
                 /\ [id |-> n.container_id, loc |-> n.container_path] \in FromCwd(c.cwd)
              \/ /\ c.flag # "none"
                 /\ n.container_id = None /\ n.container_path = None
              \/ /\ c.flag = "--container" /\ m.container = None /\ n = m
              \/ /\ c.flag = "--container-id" /\ m.container_id = None /\ n = m
              \/ /\ c.flag = "none" /\ FromCwd(c.cwd) = {} /\ n = m
  <1>1. CASE c.flag = "--container-id"
    <2>1. CASE m.container_id = None
      BY <1>1, <2>1 DEF Resolve
    <2>2. CASE m.container_id # None
      <3>1. n \in BindOrClear(m, FindById(m.container_id))
        BY <1>1, <2>2 DEF Resolve
      <3>2. CASE n = Clear(m)
        BY <1>1, <3>2, ClearIsEmpty
      <3>3. CASE n \in Bind(m, FindById(m.container_id))
        <4>1. FindById(m.container_id) \in SUBSET Match
          BY FoundAreMatches
        <4> QED BY <1>1, <2>2, <3>3, <4>1, BindIsMatch
      <3> QED BY <3>1, <3>2, <3>3 DEF BindOrClear
    <2> QED BY <2>1, <2>2
  <1>2. CASE c.flag = "--container"
    <2>1. CASE m.container = None
      BY <1>2, <2>1 DEF Resolve
    <2>2. CASE m.container # None
      <3>1. n \in BindOrClear(m, Denoted(m.container))
        BY <1>2, <2>2 DEF Resolve
      <3>2. CASE n = Clear(m)
        BY <1>2, <3>2, ClearIsEmpty
      <3>3. CASE n \in Bind(m, Denoted(m.container))
        <4>1. Denoted(m.container) \in SUBSET Match
          BY FoundAreMatches
        <4> QED BY <1>2, <2>2, <3>3, <4>1, BindIsMatch
      <3> QED BY <3>1, <3>2, <3>3 DEF BindOrClear
    <2> QED BY <2>1, <2>2
  <1>3. CASE c.flag = "none"
    <2>1. c.cwd \in Dirs /\ ~CwdRaises(c.cwd)
      BY <1>3 DEF Commands, ResolveRaises
    <2>2. FromCwd(c.cwd) \in SUBSET Match
      BY <2>1, FoundAreMatches
    <2>3. CASE FromCwd(c.cwd) = {}
      BY <1>3, <2>3 DEF Resolve
    <2>4. CASE FromCwd(c.cwd) # {}
      <3>1. n \in Bind(m, FromCwd(c.cwd))
        BY <1>3, <2>4 DEF Resolve
      <3> QED BY <1>3, <2>2, <3>1, BindIsMatch
    <2> QED BY <2>3, <2>4
  <1> QED BY <1>1, <1>2, <1>3 DEF Commands

-----------------------------------------------------------------------------
(* The stages                                                              *)

\* Nothing is asked of a command that has not read its command line yet, that is
\* refused or that has ended.
LEMMA QuietStage ==
    ASSUME TypeOK', pc' \in {"idle", "explicit", "refused"}, pc' # "idle" => cmd' \in Commands
    PROVE  IInv'
  BY DEF IInv, AtWork, Chosen, Sound, SelectorObeyed, CwdObeyed, DirectoryObeyed, Running

\* A command that starts to run has all the properties when its context has what
\* its command line denotes.
LEMMA RunStage ==
    ASSUME TypeOK', UNCHANGED workspace, pc' = "run",
           NEW c \in Commands, cmd' = c,
           NEW n \in Contexts, mem' = n,
           c.kind # "create" /\ c.flag # "none" =>
             [id |-> n.container_id, loc |-> n.container_path] \in Selected(c),
           c.kind \in {"view", "entity"} /\ c.flag = "none" =>
             \/ [id |-> n.container_id, loc |-> n.container_path] \in FromCwd(c.cwd)
             \/ c.kind = "entity" /\ FromCwd(c.cwd) = {},
           c.kind = "create" => n.dataset_path = None /\ n.container_path = c.arg,
           c.kind = "dataset" => n.dataset_path = n.container_path
    PROVE  IInv'
  <1>1. /\ FindById(c.arg)' = FindById(c.arg)
        /\ Denoted(c.arg)' = Denoted(c.arg)
        /\ FromCwd(c.cwd)' = FromCwd(c.cwd)
    BY SameWorkspace
  <1>2. Target' = [id |-> n.container_id, loc |-> n.container_path]
    BY DEF Target
  <1>3. SelectorObeyed'
    BY <1>1, <1>2 DEF SelectorObeyed, Selected, Running
  <1>4. CwdObeyed'
    BY <1>1, <1>2 DEF CwdObeyed, Running
  <1>5. DirectoryObeyed'
    BY DEF DirectoryObeyed, Running, DirectoryTarget
  <1>6. AtWork' /\ Chosen' /\ Sound'
    BY DEF AtWork, Chosen, Sound
  <1> QED BY <1>3, <1>4, <1>5, <1>6 DEF IInv

\* A step of a command that saves a context is typed.
LEMMA SavedIsTyped ==
    ASSUME TypeOK, NEW n \in Contexts,
           NEW l \in {"explicit", "strategy", "check", "run", "refused"}, SaveAndGoto(n, l)
    PROVE  TypeOK' /\ mem' = n /\ pc' = l /\ cmd' = cmd /\ UNCHANGED workspace
  BY DEF TypeOK, SaveAndGoto, workspace

\* A step of a command that leaves the context alone is typed.
LEMMA GotoIsTyped ==
    ASSUME TypeOK, NEW l \in {"explicit", "strategy", "check", "run", "refused"}, Goto(l)
    PROVE  TypeOK' /\ mem' = mem /\ pc' = l /\ cmd' = cmd /\ UNCHANGED workspace
  BY DEF TypeOK, Goto, workspace

\* A context is found at every start, except a broken one.
LEMMA StartStep ==
    ASSUME IInv, NEW c \in Commands, Start(c)
    PROVE  IInv'
  <1>1. TypeOK'
    <2>1. commands' \in 0 .. MaxCommands
      BY SelectionAssumption DEF IInv, TypeOK, Start
    <2>2. mem' \in Contexts /\ pc' \in {"explicit", "refused"}
      BY EmptyContext DEF IInv, TypeOK, Start
    <2>3. UNCHANGED <<index, onDisk, file, crashes>> /\ cmd' = c
      BY DEF Start, workspace
    <2> QED BY <2>1, <2>2, <2>3 DEF IInv, TypeOK
  <1>2. pc' \in {"explicit", "refused"} /\ cmd' = c
    BY DEF Start
  <1> QED BY <1>1, <1>2, QuietStage

\* apply_explicit_parameter_values copies the selector into the context.
LEMMA ExplicitStep ==
    ASSUME IInv, ApplyExplicit
    PROVE  IInv'
  <1>1. PICK c \in Commands : c = cmd
    BY DEF IInv, AtWork, ApplyExplicit
  <1>2. TypeOK /\ mem \in Contexts
    BY DEF IInv, TypeOK
  <1>3. CASE cmd.flag = "none" /\ Goto("strategy")
    <2>1. TypeOK' /\ pc' = "strategy" /\ cmd' = cmd
      BY <1>2, <1>3, GotoIsTyped
    <2> QED BY <1>1, <1>3, <2>1
         DEF IInv, AtWork, Chosen, Sound, SelectorObeyed, CwdObeyed, DirectoryObeyed, Running
  <1>4. CASE cmd.flag = "--container-id" /\ SaveAndGoto([mem EXCEPT !.container_id = cmd.arg], "strategy")
    <2> DEFINE n == [mem EXCEPT !.container_id = cmd.arg]
    <2>1. c.arg \in Selectors
      BY <1>1, <1>4 DEF Commands
    <2>2. n \in Contexts /\ n.container_id = c.arg
      BY <1>1, <1>2, <2>1 DEF Contexts
    <2>3. SaveAndGoto(n, "strategy")
      BY <1>4
    <2> HIDE DEF n
    <2>4. TypeOK' /\ mem' = n /\ pc' = "strategy" /\ cmd' = cmd
      BY <1>2, <2>2, <2>3, SavedIsTyped
    <2> QED BY <1>1, <1>4, <2>2, <2>4
         DEF IInv, AtWork, Chosen, Sound, SelectorObeyed, CwdObeyed, DirectoryObeyed, Running
  <1>5. CASE cmd.flag = "--container" /\ SaveAndGoto([mem EXCEPT !.container = cmd.arg], "strategy")
    <2> DEFINE n == [mem EXCEPT !.container = cmd.arg]
    <2>1. c.arg \in Selectors
      BY <1>1, <1>5 DEF Commands
    <2>2. n \in Contexts /\ n.container = c.arg
      BY <1>1, <1>2, <2>1 DEF Contexts
    <2>3. SaveAndGoto(n, "strategy")
      BY <1>5
    <2> HIDE DEF n
    <2>4. TypeOK' /\ mem' = n /\ pc' = "strategy" /\ cmd' = cmd
      BY <1>2, <2>2, <2>3, SavedIsTyped
    <2> QED BY <1>1, <1>5, <2>2, <2>4
         DEF IInv, AtWork, Chosen, Sound, SelectorObeyed, CwdObeyed, DirectoryObeyed, Running
  <1> QED BY <1>3, <1>4, <1>5 DEF ApplyExplicit

\* ContainerIdStrategy leaves what the command line denotes, or nothing.
LEMMA StrategyStep ==
    ASSUME IInv, RunStrategy
    PROVE  IInv'
  <1>1. PICK c \in Commands : c = cmd
    BY DEF IInv, AtWork, RunStrategy
  <1>2. TypeOK /\ mem \in Contexts /\ pc = "strategy"
    BY DEF IInv, TypeOK, RunStrategy
  <1>3. CASE cmd.kind = "create" /\ Goto("check")
    <2>1. TypeOK' /\ pc' = "check" /\ cmd' = cmd
      BY <1>2, <1>3, GotoIsTyped
    <2>2. c.flag = "none"
      BY <1>1, <1>3 DEF Commands
    <2> QED BY <1>1, <1>3, <2>1, <2>2
         DEF IInv, AtWork, Chosen, Sound, SelectorObeyed, CwdObeyed, DirectoryObeyed, Running
  <1>4. CASE Goto("refused")
    <2>1. TypeOK' /\ pc' = "refused" /\ cmd' = cmd
      BY <1>2, <1>4, GotoIsTyped
    <2> QED BY <1>1, <2>1, QuietStage
  <1>5. ASSUME cmd.kind # "create", ~ResolveRaises(cmd), NEW n \in Resolve(mem, cmd),
               IF n = mem THEN Goto("check") ELSE SaveAndGoto(n, "check")
        PROVE  IInv'
    <2>1. PICK m \in Contexts : m = mem
      BY <1>2
    <2>2. n \in Resolve(m, c)
      BY <1>1, <1>5, <2>1
    <2>3. PICK k \in Contexts : k = n
      BY <1>1, <1>2, <1>5, <2>2, ResolveOutcome
    <2>4. /\ TypeOK' /\ mem' = n /\ pc' = "check" /\ cmd' = c /\ UNCHANGED workspace
      BY <1>1, <1>2, <1>5, <2>3, SavedIsTyped, GotoIsTyped
    <2>5. /\ c.flag = "--container-id" => m.container_id = c.arg
          /\ c.flag = "--container" => m.container = c.arg
      BY <1>1, <1>2, <2>1 DEF IInv, Chosen
    <2>6. c.flag # "none" => c.arg # None
      BY SelectionAssumption DEF Commands, Selectors
    <2>7. /\ FromCwd(c.cwd)' = FromCwd(c.cwd)
          /\ Selected(c)' = Selected(c)
          /\ ResolveRaises(c)' = ResolveRaises(c)
      BY <2>4, SameWorkspace
    <2>8. Target' = [id |-> n.container_id, loc |-> n.container_path]
      BY <2>4 DEF Target
    <2>9. Sound' /\ AtWork'
      BY <1>1, <1>5, <2>4, <2>7 DEF Sound, AtWork
    <2>10. Chosen'
      <3>1. n.container = m.container
        BY <1>1, <1>2, <1>5, <2>2, ResolveOutcome
      <3>2. n.container_id # None =>
              IF c.flag = "none" THEN FromCwd(c.cwd) = {} \/ Target' \in FromCwd(c.cwd)
                                 ELSE Target' \in Selected(c)
        BY <1>1, <1>2, <1>5, <2>2, <2>5, <2>6, <2>8, ResolveOutcome DEF Selected, Commands
      <3> QED BY <2>4, <2>5, <2>7, <3>1, <3>2 DEF Chosen
    <2> QED BY <2>4, <2>9, <2>10
         DEF IInv, SelectorObeyed, CwdObeyed, DirectoryObeyed, Running
  <1> QED BY <1>3, <1>4, <1>5 DEF RunStrategy

-----------------------------------------------------------------------------
(* The check of each command                                               *)

\* StorageCreateCommand.check takes the path of the command line and deletes the
\* dataset's.
LEMMA CreateStep ==
    ASSUME IInv, CheckCreate
    PROVE  IInv'
  <1> DEFINE n == [mem EXCEPT !.dataset_path = None, !.container_path = cmd.arg]
  <1>1. PICK c \in Commands : c = cmd
    BY DEF IInv, AtWork, CheckCreate
  <1>2. c.kind = "create" /\ c.arg \in Dirs
    BY <1>1 DEF Commands, CheckCreate
  <1>3. n \in Contexts /\ n.dataset_path = None /\ n.container_path = c.arg
    BY <1>1, <1>2 DEF IInv, TypeOK, Contexts
  <1>4. SaveAndGoto(n, "run") /\ TypeOK
    BY DEF CheckCreate, IInv
  <1> HIDE DEF n
  <1>5. TypeOK' /\ mem' = n /\ pc' = "run" /\ cmd' = c /\ UNCHANGED workspace
    BY <1>1, <1>3, <1>4, SavedIsTyped
  <1> QED BY <1>2, <1>3, <1>5, RunStage

\* StorageUpdateCommand.check binds the registered container of the identifier.
LEMMA UpdateStep ==
    ASSUME IInv, CheckUpdate
    PROVE  IInv'
  <1> DEFINE requested == IF cmd.flag = "none" THEN mem.container_id ELSE cmd.arg
  <1>1. PICK c \in Commands : c = cmd
    BY DEF IInv, AtWork, CheckUpdate
  <1>2. c.kind = "update" /\ TypeOK
    BY <1>1 DEF CheckUpdate, IInv
  <1>3. CASE Goto("refused")
    <2>1. TypeOK' /\ pc' = "refused" /\ cmd' = cmd
      BY <1>2, <1>3, GotoIsTyped
    <2> QED BY <1>1, <2>1, QuietStage
  <1>4. ASSUME NEW x \in FindById(requested),
               SaveAndGoto([container_id |-> x.id, container_path |-> x.loc,
                            container |-> None, dataset_path |-> None], "run")
        PROVE  IInv'
    <2> DEFINE n == [container_id |-> x.id, container_path |-> x.loc,
                     container |-> None, dataset_path |-> None]
    <2>1. x \in Match
      BY <1>2, FoundAreMatches
    <2>2. x.id \in Ids /\ x.loc \in Dirs /\ x = [id |-> x.id, loc |-> x.loc]
      BY <2>1 DEF Match
    <2>3. n \in Contexts /\ x = [id |-> n.container_id, loc |-> n.container_path]
      BY <2>2 DEF Contexts, Selectors
    <2>4. SaveAndGoto(n, "run")
      BY <1>4
    <2>5. c.flag # "none" => x \in Selected(c)
      BY <1>1, <1>4 DEF Selected, Denoted
    <2> HIDE DEF n
    <2>6. TypeOK' /\ mem' = n /\ pc' = "run" /\ cmd' = c /\ UNCHANGED workspace
      BY <1>1, <1>2, <2>3, <2>4, SavedIsTyped
    <2> QED BY <1>2, <2>3, <2>5, <2>6, RunStage
  <1> QED BY <1>3, <1>4 DEF CheckUpdate

\* DatasetCreateCommand.check resolves in an empty context.
LEMMA DatasetStep ==
    ASSUME IInv, CheckDataset
    PROVE  IInv'
  <1> DEFINE fresh == IF cmd.flag = "--container-id" THEN [NoContext EXCEPT !.container_id = cmd.arg]
                      ELSE [NoContext EXCEPT !.container = cmd.arg]
  <1>1. PICK c \in Commands : c = cmd
    BY DEF IInv, AtWork, CheckDataset
  <1>2. c.kind = "dataset" /\ TypeOK
    BY <1>1 DEF CheckDataset, IInv
  <1>3. /\ c.flag \in {"--container-id", "--container"}
        /\ c.arg \in Selectors /\ c.arg # None
    BY <1>2, SelectionAssumption DEF Commands, Selectors
  <1>4. /\ fresh \in Contexts
        /\ c.flag = "--container-id" => fresh.container_id = c.arg
        /\ c.flag = "--container" => fresh.container = c.arg
    BY <1>1, <1>3 DEF NoContext, Contexts
  <1>5. PICK f \in Contexts : f = fresh
    BY <1>4
  <1>6. ~ResolveRaises(c)
    BY <1>3 DEF ResolveRaises
  <1>7. PICK m \in Resolve(fresh, cmd) :
          \/ SaveAndGoto(m, "refused")
          \/ /\ m.container_id # None
             /\ SaveAndGoto([m EXCEPT !.dataset_path = m.container_path], "run")
    BY DEF CheckDataset
  <1>8. m \in Resolve(f, c)
    BY <1>1, <1>5, <1>7
  <1>9. m \in Contexts
    BY <1>2, <1>6, <1>8, ResolveOutcome
  <1>10. CASE SaveAndGoto(m, "refused")
    <2>1. TypeOK' /\ pc' = "refused" /\ cmd' = cmd
      BY <1>2, <1>9, <1>10, SavedIsTyped
    <2> QED BY <1>1, <2>1, QuietStage
  <1>11. CASE /\ m.container_id # None
              /\ SaveAndGoto([m EXCEPT !.dataset_path = m.container_path], "run")
    <2> DEFINE n == [m EXCEPT !.dataset_path = m.container_path]
    <2>1. /\ f.container_id = c.arg \/ c.flag # "--container-id"
          /\ f.container = c.arg \/ c.flag # "--container"
      BY <1>4, <1>5
    <2>2. [id |-> m.container_id, loc |-> m.container_path] \in Selected(c)
      BY <1>2, <1>3, <1>6, <1>8, <1>11, <2>1, ResolveOutcome DEF Selected
    <2>3. /\ n \in Contexts /\ n.dataset_path = n.container_path
          /\ n.container_id = m.container_id /\ n.container_path = m.container_path
      BY <1>9 DEF Contexts
    <2>4. SaveAndGoto(n, "run")
      BY <1>11
    <2> HIDE DEF n
    <2>5. TypeOK' /\ mem' = n /\ pc' = "run" /\ cmd' = c /\ UNCHANGED workspace
      BY <1>1, <1>2, <2>3, <2>4, SavedIsTyped
    <2> QED BY <1>2, <2>2, <2>3, <2>5, RunStage
  <1> QED BY <1>7, <1>10, <1>11

\* ContainerViewCommand.check resolves without the inherited selection.
LEMMA ViewStep ==
    ASSUME IInv, CheckView
    PROVE  IInv'
  <1>1. PICK c \in Commands : c = cmd
    BY DEF IInv, AtWork, CheckView
  <1>2. c.kind = "view" /\ TypeOK /\ pc = "check" /\ mem \in Contexts
    BY <1>1 DEF CheckView, IInv, TypeOK
  <1>3. PICK f \in Contexts : f = Clear(mem)
    BY <1>2, ClearIsEmpty
  <1>4. ~ResolveRaises(c)
    BY <1>1, <1>2 DEF IInv, Sound
  <1>5. PICK m \in Resolve(Clear(mem), cmd) :
          SaveAndGoto(m, IF m.container_path = None THEN "refused" ELSE "run")
    BY DEF CheckView
  <1>6. m \in Resolve(f, c)
    BY <1>1, <1>3, <1>5
  <1>7. m \in Contexts
    BY <1>2, <1>4, <1>6, ResolveOutcome
  <1>8. CASE m.container_path = None
    <2>1. TypeOK' /\ pc' = "refused" /\ cmd' = cmd
      BY <1>2, <1>5, <1>7, <1>8, SavedIsTyped
    <2> QED BY <1>1, <2>1, QuietStage
  <1>9. CASE m.container_path # None
    <2>1. TypeOK' /\ mem' = m /\ pc' = "run" /\ cmd' = c /\ UNCHANGED workspace
      BY <1>1, <1>2, <1>5, <1>7, <1>9, SavedIsTyped
    <2>2. /\ f.container_id = None /\ f.container_path = None
          /\ c.flag = "--container" => f.container = c.arg
      BY <1>1, <1>2, <1>3, ClearIsEmpty DEF IInv, Chosen
    <2>3. c.flag # "none" => [id |-> m.container_id, loc |-> m.container_path] \in Selected(c)
      BY <1>2, <1>4, <1>6, <1>9, <2>2, ResolveOutcome DEF Selected
    <2>4. c.flag = "none" => [id |-> m.container_id, loc |-> m.container_path] \in FromCwd(c.cwd)
      BY <1>2, <1>4, <1>6, <1>9, <2>2, ResolveOutcome
    <2> QED BY <1>2, <1>7, <2>1, <2>3, <2>4, RunStage
  <1> QED BY <1>8, <1>9

\* EntityCommand.check takes the selection of the strategy as it is.
LEMMA EntityStep ==
    ASSUME IInv, CheckEntity
    PROVE  IInv'
  <1>1. PICK c \in Commands : c = cmd
    BY DEF IInv, AtWork, CheckEntity
  <1>2. c.kind = "entity" /\ TypeOK /\ pc = "check"
    BY <1>1 DEF CheckEntity, IInv
  <1>3. CASE Goto("refused")
    <2>1. TypeOK' /\ pc' = "refused" /\ cmd' = cmd
      BY <1>2, <1>3, GotoIsTyped
    <2> QED BY <1>1, <2>1, QuietStage
  <1>4. CASE mem.container_id # None /\ Goto("run")
    <2>1. PICK m \in Contexts : m = mem
      BY <1>2 DEF TypeOK
    <2>2. TypeOK' /\ mem' = m /\ pc' = "run" /\ cmd' = c /\ UNCHANGED workspace
      BY <1>1, <1>2, <1>4, <2>1, GotoIsTyped
    <2>3. IF c.flag = "none"
          THEN \/ FromCwd(c.cwd) = {}
               \/ [id |-> m.container_id, loc |-> m.container_path] \in FromCwd(c.cwd)
          ELSE [id |-> m.container_id, loc |-> m.container_path] \in Selected(c)
      BY <1>1, <1>2, <1>4, <2>1 DEF IInv, Chosen, Target
    <2> QED BY <1>2, <2>2, <2>3, RunStage
  <1> QED BY <1>3, <1>4 DEF CheckEntity

\* DocumentImportCommand.check binds the registered container of the identifier.
LEMMA ImportStep ==
    ASSUME IInv, CheckImport
    PROVE  IInv'
  <1>1. PICK c \in Commands : c = cmd
    BY DEF IInv, AtWork, CheckImport
  <1>2. c.kind = "import" /\ TypeOK /\ mem \in Contexts
    BY <1>1 DEF CheckImport, IInv, TypeOK
  <1>3. CASE Goto("refused")
    <2>1. TypeOK' /\ pc' = "refused" /\ cmd' = cmd
      BY <1>2, <1>3, GotoIsTyped
    <2> QED BY <1>1, <2>1, QuietStage
  <1>4. ASSUME NEW x \in FindById(cmd.arg), NEW l \in {"run", "refused"},
               SaveAndGoto([mem EXCEPT !.container_id = x.id, !.container_path = x.loc], l)
        PROVE  IInv'
    <2> DEFINE n == [mem EXCEPT !.container_id = x.id, !.container_path = x.loc]
    <2>1. x \in Match
      BY <1>2, FoundAreMatches
    <2>2. x.id \in Ids /\ x.loc \in Dirs /\ x = [id |-> x.id, loc |-> x.loc]
      BY <2>1 DEF Match
    <2>3. n \in Contexts /\ x = [id |-> n.container_id, loc |-> n.container_path]
      BY <1>2, <2>2 DEF Contexts, Selectors
    <2>4. SaveAndGoto(n, l)
      BY <1>4
    <2>5. x \in Selected(c)
      BY <1>1, <1>2, <1>4 DEF Selected, Commands
    <2> HIDE DEF n
    <2>6. TypeOK' /\ mem' = n /\ pc' = l /\ cmd' = c /\ UNCHANGED workspace
      BY <1>1, <1>2, <2>3, <2>4, SavedIsTyped
    <2>7. CASE l = "run"
      BY <1>2, <2>3, <2>5, <2>6, <2>7, RunStage
    <2>8. CASE l = "refused"
      BY <2>6, <2>8, QuietStage
    <2> QED BY <2>7, <2>8
  <1> QED BY <1>3, <1>4 DEF CheckImport

\* A container create that runs registers the directory it was given.
LEMMA RunCreateStep ==
    ASSUME IInv, RunCreate
    PROVE  IInv'
  <1>1. PICK c \in Commands : c = cmd
    BY DEF IInv, AtWork, RunCreate
  <1>2. c.kind = "create" /\ c.arg \in Dirs
    BY <1>1 DEF Commands, RunCreate
  <1>3. DirectoryTarget \in Dirs
    BY <1>1, <1>2 DEF IInv, DirectoryObeyed, Running, RunCreate
  <1>4. /\ index' \in [Ids -> Dirs \cup {None}]
        /\ onDisk' \in [Dirs -> Ids \cup {None, Broken}]
    BY <1>3 DEF IInv, TypeOK, RunCreate
  <1>5. TypeOK' /\ pc' = "idle"
    BY <1>4 DEF IInv, TypeOK, RunCreate
  <1> QED BY <1>5, QuietStage

\* A killed command leaves a context.ttl of some earlier stage, or a broken one.
LEMMA CrashStep ==
    ASSUME IInv, Crash
    PROVE  IInv'
  <1>1. file' \in Contexts \cup {Broken} /\ mem' \in Contexts
    BY EmptyContext DEF Crash, Midway
  <1>2. crashes' \in 0 .. MaxCrashes
    BY SelectionAssumption DEF IInv, TypeOK, Crash
  <1>3. TypeOK' /\ pc' = "idle"
    BY <1>1, <1>2 DEF IInv, TypeOK, Crash, workspace
  <1> QED BY <1>3, QuietStage

-----------------------------------------------------------------------------
(* The theorems                                                            *)

\* The inductive invariant holds in every state of every behaviour.
THEOREM SelectionInvariant == Spec => []IInv
  <1>1. Init => IInv
    <2> SUFFICES ASSUME Init PROVE IInv
      OBVIOUS
    <2>1. TypeOK
      BY EmptyContext, SelectionAssumption DEF Init, TypeOK
    <2> QED BY <2>1
         DEF Init, IInv, AtWork, Chosen, Sound, SelectorObeyed, CwdObeyed, DirectoryObeyed, Running
  <1>2. IInv /\ [Next]_vars => IInv'
    <2> SUFFICES ASSUME IInv, [Next]_vars PROVE IInv'
      OBVIOUS
    <2>1. ASSUME NEW c \in Commands, Start(c) PROVE IInv'
      BY <2>1, StartStep
    <2>2. CASE ApplyExplicit
      BY <2>2, ExplicitStep
    <2>3. CASE RunStrategy
      BY <2>3, StrategyStep
    <2>4. CASE CheckCreate
      BY <2>4, CreateStep
    <2>5. CASE CheckUpdate
      BY <2>5, UpdateStep
    <2>6. CASE CheckDataset
      BY <2>6, DatasetStep
    <2>7. CASE CheckView
      BY <2>7, ViewStep
    <2>8. CASE CheckEntity
      BY <2>8, EntityStep
    <2>9. CASE CheckImport
      BY <2>9, ImportStep
    <2>10. CASE RunCreate
      BY <2>10, RunCreateStep
    <2>11. CASE Crash
      BY <2>11, CrashStep
    <2>12. CASE UNCHANGED vars
      <3>1. UNCHANGED <<index, onDisk, file, mem, cmd, pc, commands, crashes>>
        BY <2>12 DEF vars, workspace
      <3>2. UNCHANGED workspace
        BY <3>1 DEF workspace
      <3>3. CASE pc = "idle"
        <4>1. TypeOK'
          BY <3>1 DEF IInv, TypeOK
        <4> QED BY <3>1, <3>3, <4>1, QuietStage
      <3>4. CASE pc # "idle"
        <4>1. PICK c \in Commands : c = cmd
          BY <3>4 DEF IInv, AtWork
        <4>2. /\ FromCwd(c.cwd)' = FromCwd(c.cwd)
              /\ FindById(c.arg)' = FindById(c.arg)
              /\ Denoted(c.arg)' = Denoted(c.arg)
              /\ Selected(c)' = Selected(c)
              /\ ResolveRaises(c)' = ResolveRaises(c)
          BY <3>2, SameWorkspace
        <4>3. Target' = Target /\ cmd' = c
          BY <3>1, <4>1 DEF Target
        <4>4. TypeOK' /\ AtWork' /\ DirectoryObeyed'
          BY <3>1 DEF IInv, TypeOK, AtWork, DirectoryObeyed, Running, DirectoryTarget
        <4>5. Chosen' /\ Sound'
          BY <3>1, <4>1, <4>2, <4>3 DEF IInv, Chosen, Sound
        <4>6. SelectorObeyed' /\ CwdObeyed'
          BY <3>1, <4>1, <4>2, <4>3 DEF IInv, SelectorObeyed, CwdObeyed, Running
        <4> QED BY <4>4, <4>5, <4>6 DEF IInv
      <3> QED BY <3>3, <3>4
    <2> QED BY <2>1, <2>2, <2>3, <2>4, <2>5, <2>6, <2>7, <2>8, <2>9, <2>10, <2>11, <2>12
         DEF Next
  <1> QED BY <1>1, <1>2, PTL DEF Spec

\* A command that was given a selector works on the container that it denotes,
\* whatever context.ttl held when it started.
THEOREM SelectorsAreObeyed == Spec => []SelectorObeyed
  <1>1. IInv => SelectorObeyed
    BY DEF IInv
  <1> QED BY <1>1, SelectionInvariant, PTL

\* Without a selector, view works on the container of the working directory, and so
\* does context --entity when there is one.
THEOREM CwdIsObeyed == Spec => []CwdObeyed
  <1>1. IInv => CwdObeyed
    BY DEF IInv
  <1> QED BY <1>1, SelectionInvariant, PTL

\* A create makes its own directory, and not the one that an earlier create left in
\* the context.
THEOREM DirectoriesAreObeyed == Spec => []DirectoryObeyed
  <1>1. IInv => DirectoryObeyed
    BY DEF IInv
  <1> QED BY <1>1, SelectionInvariant, PTL
=============================================================================
