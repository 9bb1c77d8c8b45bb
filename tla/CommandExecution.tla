--------------------------- MODULE CommandExecution ---------------------------
(***************************************************************************)
(* The command line's entry point and the capabilities it executes.  main  *)
(* makes a logger, gives it the threshold of --log-level, publishes it     *)
(* through the process-wide broker, routes the arguments to one command,   *)
(* binds its parameters, runs it and renders one response.  Capabilities   *)
(* call each other through CapabilityExecutor, which resolves a logger of  *)
(* its own for every line it writes: the broker's, one that the embedding  *)
(* program left on an object in reach, or a new console logger.            *)
(*                                                                         *)
(* One process runs main and programmatic calls of capabilities in turn,   *)
(* as a downstream package does.  A level is its RFC 5424 priority.        *)
(***************************************************************************)
EXTENDS Naturals, Sequences, FiniteSets

CONSTANTS
    Capabilities,
    SideEffecting,  \* transformation and transaction capabilities
    Catching,       \* capabilities that catch the exceptions of those they call
    Commands,       \* command classes of the scope, in the loader's order
    Broken,         \* those whose module cannot be imported
    AwareParameter, \* those with a logger-aware parameter strategy (container_id)
    AwareCommand,   \* those that are logger-aware themselves
    Messages,       \* the <<capability, key, language>> with a text that is not blank
    Languages,      \* context languages, "en" among them
    Levels,         \* levels the user asks for
    None,           \* no value
    MaxDepth,       \* bound: nested executions
    MaxCalls,       \* bound: executions of a session
    MaxSessions     \* bound: sessions of the process

Error == 3
Warning == 4
Notice == 5
Info == 6
Debug == 7

ASSUME ExecutionAssumption ==
    /\ SideEffecting \subseteq Capabilities /\ Catching \subseteq Capabilities
    /\ None \notin Capabilities /\ "en" \in Languages
    /\ Levels \subseteq 0 .. Debug /\ None \notin 0 .. Debug
    /\ None \notin {"main", "error", "interrupt", "done", "failed", "interrupted"}
    /\ {MaxDepth, MaxCalls, MaxSessions} \subseteq Nat

\* Where the executor looks for a logger after the broker, in this order.
Channels == {"strategy", "owner", "context", "capability"}
Channel == [strategy |-> 1, owner |-> 2, context |-> 3, capability |-> 4]

Repositories == {"main"} \cup Channels

VARIABLES
    session,        \* "none", "main" or "program"
    pc,             \* its next step
    render,         \* "rich", "json" or "html"
    language,       \* the context's language
    requested,      \* the level of --log-level
    threshold,      \* the threshold stored in each logger
    broker,         \* the active log repository
    channels,       \* the channels an embedding program has filled
    accepts,        \* what each command class answers to the arguments
    command,        \* the command that runs
    level,          \* the context's parameter log_level
    file,           \* log_level in context.ttl
    frames,         \* the capabilities being executed, outermost first
    raising,        \* the exception on its way up
    lines,          \* the session's log
    exit,           \* how the last session ended
    calls, sessions

logging == <<threshold, broker, lines>>
request == <<session, render, language, requested, channels, accepts>>
work == <<frames, raising, calls>>
vars == <<pc, request, logging, command, level, file, work, exit, sessions>>

-----------------------------------------------------------------------------
(* Loggers.                                                                *)

\* LogLevelPolicy.should_log; json has the null repository, which writes nothing.
Shown(l) == render # "json" /\ l <= threshold.main

Line(event, cap, depth, l, repo, text, shown) ==
    [event |-> event, cap |-> cap, depth |-> depth, level |-> l,
     repo |-> repo, text |-> text, shown |-> shown]

\* main, the health check, the router and the loaders log through main's logger.
MainLine(event, l) == Line(event, None, 0, l, "main", None, Shown(l))

\* _lazy_get_logger: the broker, the first channel with a logger, a new console logger.
Repository ==
    CASE broker # None -> broker
      [] broker = None /\ channels # {} ->
           CHOOSE c \in channels : \A d \in channels : Channel[c] <= Channel[d]
      [] OTHER -> "fallback"

\* _extract_info_logger and _extract_debug_logger lower the threshold they find, for
\* good; the fallback lives for one line.
Forced(repo, l) == IF repo = "fallback" THEN threshold ELSE [threshold EXCEPT ![repo] = l]

\* The first text that is there, a built-in one otherwise.
Wording(cap, keys) ==
    LET there == {i \in DOMAIN keys : <<cap, keys[i][1], keys[i][2]>> \in Messages}
    IN IF there = {} THEN None
       ELSE keys[CHOOSE i \in there : \A j \in there : i <= j]

\* _log_capability_debug_entry.
EntryText(cap) ==
    Wording(cap, << <<"debug_entry", language>>, <<"debug_entry", "en">> >>)

\* _log_capability_success.
SuccessText(cap) == Wording(cap, << <<"info", language>>, <<"info", "en">> >>)

\* _log_capability_debug_exception: the exception's own key, then the general one.
ExceptionText(cap, x) ==
    Wording(cap, << <<x, language>>, <<x, "en">>,
                    <<"debug_exception", language>>, <<"debug_exception", "en">> >>)

\* Queries are silent; others write a line, whatever the threshold was.
Emit(event, cap, depth, l, text) ==
    /\ IF cap \in SideEffecting
         THEN /\ threshold' = Forced(Repository, l)
              /\ lines' = Append(lines, Line(event, cap, depth, l, Repository, text, TRUE))
         ELSE UNCHANGED <<threshold, lines>>
    /\ UNCHANGED broker

-----------------------------------------------------------------------------
(* The end of a session.                                                   *)

\* Mutant: the broker is not cleared.
CloseOpen(status) ==
    /\ exit' = status /\ pc' = "idle" /\ session' = "none"
    /\ frames' = <<>> /\ raising' = None
    /\ UNCHANGED broker

\* finally: clear_active_log_repository.
Close(status) ==
    /\ exit' = status /\ pc' = "idle" /\ session' = "none"
    /\ frames' = <<>> /\ raising' = None
    /\ broker' = None

\* main's own variables, and the loggers that a program left in reach, are gone.
Forget ==
    /\ render' = "rich" /\ language' = "en" /\ requested' = None /\ channels' = {}
    /\ accepts' = [i \in 1 .. Len(Commands) |-> "no"]

\* An exception before run(): the exception response, exit 1.
Fail(log) ==
    /\ Close("failed")
    /\ lines' = log
    /\ Forget /\ UNCHANGED <<threshold, calls>>

-----------------------------------------------------------------------------
(* main.                                                                   *)

Open(kind, first) ==
    /\ pc = "idle" /\ sessions < MaxSessions
    /\ sessions' = sessions + 1
    /\ session' = kind /\ pc' = first
    /\ lines' = <<>> /\ calls' = 0 /\ exit' = None /\ command' = None
    /\ frames' = <<>> /\ raising' = None
    /\ language' \in Languages

\* The logger, its threshold and then the broker, which refuses the null repository.
Main ==
    /\ Open("main", "health")
    /\ render' \in {"rich", "json", "html"}
    /\ requested' \in Levels \cup {None}
    /\ threshold' = [threshold EXCEPT !.main = IF requested' = None THEN Info ELSE requested']
    /\ broker' = IF render' = "json" THEN None ELSE "main"
    /\ accepts' \in [1 .. Len(Commands) -> {"yes", "no", "raises"}]
    /\ channels' = {}
    /\ UNCHANGED <<level, file>>

\* --log-level twice, without a value or with an unknown one.
BadLevel ==
    /\ pc = "idle" /\ sessions < MaxSessions
    /\ sessions' = sessions + 1
    /\ exit' = "failed" /\ broker' = None
    /\ UNCHANGED <<pc, request, threshold, lines, command, level, file, work>>

\* CliBootstrapHealthAdapter.check; without a project root, level 0 lets all pass.
HealthCheck ==
    /\ pc = "health"
    /\ \/ /\ lines' = Append(lines, MainLine("healthy", Info))
          /\ pc' = "route"
          /\ UNCHANGED <<request, threshold, broker, work, exit>>
       \/ /\ lines' = Append(lines, MainLine("no_root", Warning))
          /\ pc' = "route"
          /\ UNCHANGED <<request, threshold, broker, work, exit>>
       \/ Fail(Append(lines, MainLine("unhealthy", Error)))
    /\ UNCHANGED <<command, level, file, sessions>>

\* CommandLoader.get_all: a module that cannot be imported is warned of and left out.
Loaded == {i \in 1 .. Len(Commands) : Commands[i] \notin Broken}

\* make asks the classes in turn; one that raises ends the questions.
Raising == {i \in Loaded : accepts[i] = "raises"}

Candidates == {i \in Loaded : accepts[i] = "yes" /\ \A r \in Raising : i < r}

RouteLog ==
    LET warned == IF Loaded = 1 .. Len(Commands) THEN lines
                  ELSE Append(lines, MainLine("broken_module", Warning))
    IN IF Raising = {} THEN warned ELSE Append(warned, MainLine("accepts_raised", Error))

\* Mutant: the level is written to context.ttl.
WithLevelSaved(l) == level' = l /\ file' = l

\* The context is loaded, which purges a level that an older version saved; the level
\* of this command line is a transient parameter.
WithLevel(l) == level' = l /\ file' = None

Route ==
    /\ pc = "route"
    /\ IF Cardinality(Candidates) = 1
         THEN /\ command' = CHOOSE i \in Candidates : TRUE
              /\ WithLevel(requested)
              /\ lines' = RouteLog
              /\ pc' = "bind"
              /\ UNCHANGED <<request, threshold, broker, work, exit>>
         ELSE Fail(RouteLog) /\ UNCHANGED <<command, level, file>>
    /\ UNCHANGED sessions

\* configure_parameter_strategy makes a log strategy with the default level, which sets
\* it in the shared logger; main makes another one for a logger-aware command.
Configured ==
    CASE Commands[command] \in AwareCommand ->
           [threshold EXCEPT !.main = IF requested = None THEN Notice ELSE requested]
      [] Commands[command] \in AwareParameter -> [threshold EXCEPT !.main = Notice]
      [] OTHER -> threshold

\* The parameter strategies and the command's check.
Bind ==
    /\ pc = "bind"
    /\ \/ /\ threshold' = Configured
          /\ pc' = "run"
          /\ UNCHANGED <<request, broker, lines, work, exit>>
       \/ Fail(lines)
    /\ UNCHANGED <<command, level, file, sessions>>

-----------------------------------------------------------------------------
(* CapabilityExecutor.execute.                                             *)

Depth == Len(frames)
Top == frames[Depth]
Pop == SubSeq(frames, 1, Depth - 1)

Executor ==
    /\ pc = "run"
    /\ UNCHANGED <<pc, request, command, level, file, exit, sessions>>

Callable == raising = None /\ calls < MaxCalls /\ Depth < MaxDepth

\* resolve_inputs and check_inputs pass; the entry line comes before execute.
Call(c) ==
    /\ Executor /\ Callable
    /\ Emit("started", c, Depth + 1, Debug, EntryText(c))
    /\ frames' = Append(frames, c) /\ calls' = calls + 1
    /\ UNCHANGED raising

\* Mutant: the inputs are checked after the entry line.
RefuseLate(c) ==
    /\ Executor /\ Callable
    /\ Emit("started", c, Depth + 1, Debug, EntryText(c))
    /\ raising' = "error" /\ calls' = calls + 1
    /\ UNCHANGED frames

\* A resolver fails, an input is missing, has another type or fails its verification:
\* nothing is logged for this capability.
Refuse(c) ==
    /\ Executor /\ Callable
    /\ raising' = "error" /\ calls' = calls + 1
    /\ UNCHANGED <<logging, frames>>

Return ==
    /\ Executor /\ raising = None /\ frames # <<>>
    /\ Emit("done", Top, Depth, Info, SuccessText(Top))
    /\ frames' = Pop
    /\ UNCHANGED <<raising, calls>>

\* Mutant: the exception ends in the executor.
ExceptSwallows(x) ==
    /\ Executor /\ frames # <<>> /\ raising \in {None, x}
    /\ Emit("raised", Top, Depth, Debug, ExceptionText(Top, x))
    /\ frames' = Pop /\ raising' = None
    /\ UNCHANGED calls

\* execute raises, or does not catch what a capability it called has raised.
Except(x) ==
    /\ Executor /\ frames # <<>> /\ raising \in {None, x}
    /\ Emit("raised", Top, Depth, Debug, ExceptionText(Top, x))
    /\ frames' = Pop /\ raising' = x
    /\ UNCHANGED calls

\* Exceptions, not interrupts, are caught by the capabilities that go on without.
Catch ==
    /\ Executor /\ raising = "error" /\ frames # <<>> /\ Top \in Catching
    /\ raising' = None
    /\ UNCHANGED <<logging, frames, calls>>

\* The response of the command, or of its exception; an interrupt has none.
Finish ==
    /\ pc = "run" /\ frames = <<>>
    /\ Close(CASE raising = None -> "done"
               [] raising = "error" -> "failed"
               [] OTHER -> "interrupted")
    /\ Forget /\ UNCHANGED <<threshold, lines, calls, command, level, file, sessions>>

-----------------------------------------------------------------------------
(* A program executes capabilities itself, with loggers of its own.        *)
Program ==
    /\ Open("program", "run")
    /\ channels' \in SUBSET Channels
    /\ UNCHANGED <<render, requested, accepts, threshold, broker, level, file>>

-----------------------------------------------------------------------------
Init ==
    /\ session = "none" /\ pc = "idle" /\ render = "rich" /\ language = "en"
    /\ requested = None /\ threshold = [r \in Repositories |-> Notice]
    /\ broker = None /\ channels = {}
    /\ accepts = [i \in 1 .. Len(Commands) |-> "no"]
    /\ command = None /\ level = None
    /\ file \in Levels \cup {None}
    /\ frames = <<>> /\ raising = None /\ lines = <<>> /\ exit = None
    /\ calls = 0 /\ sessions = 0

Next ==
    \/ Main \/ BadLevel \/ HealthCheck \/ Route \/ Bind \/ Program
    \/ \E c \in Capabilities : Call(c) \/ Refuse(c)
    \/ \E x \in {"error", "interrupt"} : Except(x)
    \/ Return \/ Catch \/ Finish

Spec == Init /\ [][Next]_vars

-----------------------------------------------------------------------------
(* Properties.                                                             *)

Texts == {"debug_entry", "info", "error", "interrupt", "debug_exception"} \X Languages

LineType ==
    [event : {"healthy", "no_root", "unhealthy", "broken_module", "accepts_raised",
              "started", "done", "raised"},
     cap : Capabilities \cup {None}, depth : Nat, level : 0 .. Debug,
     repo : Repositories \cup {"fallback"}, text : Texts \cup {None}, shown : BOOLEAN]

\* Type invariant of the session, its loggers and its log.
TypeOK ==
    /\ session \in {"none", "main", "program"}
    /\ pc \in {"idle", "health", "route", "bind", "run"}
    /\ render \in {"rich", "json", "html"} /\ language \in Languages
    /\ requested \in Levels \cup {None}
    /\ threshold \in [Repositories -> 0 .. Debug]
    /\ broker \in {"main", None} /\ channels \subseteq Channels
    /\ accepts \in [1 .. Len(Commands) -> {"yes", "no", "raises"}]
    /\ command \in (1 .. Len(Commands)) \cup {None}
    /\ level \in Levels \cup {None} /\ file \in Levels \cup {None}
    /\ frames \in Seq(Capabilities) /\ raising \in {"error", "interrupt", None}
    /\ lines \in Seq(LineType)
    /\ exit \in {"done", "failed", "interrupted", None}
    /\ calls \in Nat /\ sessions \in Nat

Closed(i, j) ==
    /\ lines[j].event \in {"done", "raised"}
    /\ lines[j].cap = lines[i].cap /\ lines[j].depth = lines[i].depth
    /\ \A k \in (i + 1) .. (j - 1) : lines[k].depth > lines[i].depth

\* The log of the executor is bracketed: every started line of a capability is closed by
\* one line of the same execution, done or raised, with only deeper executions between,
\* or the capability is still being executed; and there is no closing line without it.
Balanced ==
    /\ \A i \in DOMAIN lines : lines[i].event = "started" =>
         \/ \E j \in (i + 1) .. Len(lines) : Closed(i, j)
         \/ /\ lines[i].depth <= Depth /\ frames[lines[i].depth] = lines[i].cap
            /\ \A k \in (i + 1) .. Len(lines) : lines[k].depth > lines[i].depth
    /\ \A j \in DOMAIN lines : lines[j].event \in {"done", "raised"} =>
         \E i \in 1 .. (j - 1) : lines[i].event = "started" /\ Closed(i, j)

\* No exception is lost: a session ends well only if no capability that the command
\* itself executed has raised, whatever was raised and caught further down.
FailureReported ==
    exit = "done" => \A i \in DOMAIN lines :
      ~(lines[i].event = "raised" /\ lines[i].depth = 1)

\* The broker holds a logger only while main runs: capabilities that a program executes
\* after a command, however that ended, never write to the command's logger.
BrokerScoped ==
    /\ broker # None => session = "main"
    /\ session = "program" => \A i \in DOMAIN lines : lines[i].repo # "main"

\* The level in the context of a command is its own: never that of an earlier command
\* or of a context.ttl that an older version left, and it is not saved.
LevelIsOwn ==
    (session = "main" /\ pc \in {"bind", "run"}) => level = requested /\ file = None
=============================================================================
