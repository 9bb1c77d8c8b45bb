------------------------ MODULE CommandExecutionProofs ------------------------
(***************************************************************************)
(* Theorems about the command line's entry point and the executor, for     *)
(* every set of capabilities and commands, every depth of nesting and any  *)
(* number of sessions.                                                     *)
(***************************************************************************)
EXTENDS CommandExecution, SequenceTheorems, FiniteSetTheorems, TLAPS

-----------------------------------------------------------------------------
(* The inductive invariant.                                                *)

ExecutorEvents == {"started", "done", "raised"}

\* A log without a line of the executor.
Quiet(log) == \A i \in DOMAIN log : log[i].event \notin ExecutorEvents

\* The stages of a session: capabilities are executed, and write lines, only once the
\* parameters are bound, and the broker belongs to main.
SessionInv ==
    /\ pc = "idle" <=> session = "none"
    /\ session = "program" => pc = "run"
    /\ pc # "run" => frames = <<>> /\ raising = None
    /\ exit # None => pc = "idle"
    /\ session # "main" => broker = None
    /\ pc \in {"health", "route", "bind"} => Quiet(lines)

\* An exception of an outermost execution is on its way to main.
FailureInv ==
    (pc = "run" /\ \E i \in DOMAIN lines : lines[i].event = "raised" /\ lines[i].depth = 1) =>
        raising # None /\ frames = <<>>

\* The lines that open an execution are those of capabilities with side effects.
StartedInv ==
    \A i \in DOMAIN lines : lines[i].event = "started" =>
        lines[i].depth >= 1 /\ lines[i].cap \in SideEffecting

\* Line i opens the execution at depth d, and only deeper ones have written since.
Opens(i, d) ==
    /\ lines[i].event = "started" /\ lines[i].cap = frames[d] /\ lines[i].depth = d
    /\ \A k \in (i + 1) .. Len(lines) : lines[k].depth > d

\* Every execution that is under way and writes lines has written its first.
FramesInv ==
    \A d \in 1 .. Depth : frames[d] \in SideEffecting => \E i \in DOMAIN lines : Opens(i, d)

LogInv == StartedInv /\ FramesInv /\ Balanced

IInv ==
    /\ TypeOK /\ SessionInv /\ LevelIsOwn /\ BrokerScoped
    /\ FailureInv /\ FailureReported /\ LogInv

-----------------------------------------------------------------------------
(* Loggers and texts.                                                      *)

\* A set of channels that is not empty has a first one.
LEMMA FirstChannel ==
    ASSUME NEW C \in SUBSET Channels, C # {}
    PROVE  \E c \in C : \A d \in C : Channel[c] <= Channel[d]
  <1>0. /\ Channel["strategy"] = 1 /\ Channel["owner"] = 2
        /\ Channel["context"] = 3 /\ Channel["capability"] = 4
    BY DEF Channel
  <1>1. \A d \in C : Channel[d] \in 1 .. 4 /\ (d # "strategy" => Channel[d] >= 2)
    BY <1>0 DEF Channels
  <1>2. CASE "strategy" \in C
    BY <1>0, <1>1, <1>2
  <1>3. CASE "strategy" \notin C /\ "owner" \in C
    BY <1>0, <1>1, <1>3
  <1>4. CASE "strategy" \notin C /\ "owner" \notin C /\ "context" \in C
    BY <1>0, <1>4 DEF Channels
  <1>5. CASE "strategy" \notin C /\ "owner" \notin C /\ "context" \notin C
    <2>1. \A d \in C : d = "capability"
      BY <1>5 DEF Channels
    <2> QED BY <1>0, <2>1
  <1> QED BY <1>2, <1>3, <1>4, <1>5

\* The search for a logger finds one, and main's only through the broker.
LEMMA RepositoryType ==
    ASSUME TypeOK
    PROVE  /\ Repository \in Repositories \cup {"fallback"}
           /\ broker = None => Repository # "main"
  <1>1. CASE broker # None
    BY <1>1 DEF TypeOK, Repository, Repositories
  <1>2. CASE broker = None /\ channels # {}
    <2> DEFINE c == CHOOSE c \in channels : \A d \in channels : Channel[c] <= Channel[d]
    <2>1. c \in channels
      BY <1>2, FirstChannel DEF TypeOK
    <2>2. Repository = c
      BY <1>2 DEF Repository
    <2> HIDE DEF c
    <2> QED BY <1>2, <2>1, <2>2 DEF TypeOK, Channels, Repositories
  <1>3. CASE broker = None /\ channels = {}
    BY <1>3 DEF Repository
  <1> QED BY <1>1, <1>2, <1>3

\* A text is one of the keys that were asked for, or none.
LEMMA WordingType ==
    ASSUME NEW cap, NEW keys \in Seq(Texts), Len(keys) <= 4
    PROVE  Wording(cap, keys) \in Texts \cup {None}
  <1> DEFINE there == {i \in DOMAIN keys : <<cap, keys[i][1], keys[i][2]>> \in Messages}
  <1>1. there \in SUBSET (1 .. 4)
    OBVIOUS
  <1>2. CASE there = {}
    BY <1>2 DEF Wording
  <1>3. CASE there # {}
    <2> DEFINE k == CHOOSE i \in there : \A j \in there : i <= j
    <2>1. \E i \in there : \A j \in there : i <= j
      <3> HIDE DEF there
      <3>1. CASE 1 \in there
        BY <1>1, <3>1
      <3>2. CASE 1 \notin there /\ 2 \in there
        BY <1>1, <3>2
      <3>3. CASE 1 \notin there /\ 2 \notin there /\ 3 \in there
        BY <1>1, <3>3
      <3>4. CASE 1 \notin there /\ 2 \notin there /\ 3 \notin there
        <4>1. \A j \in there : j = 4
          BY <1>1, <3>4
        <4> QED BY <1>3, <4>1
      <3> QED BY <3>1, <3>2, <3>3, <3>4
    <2>2. k \in there
      <3> HIDE DEF there
      <3> QED BY <2>1
    <2>3. Wording(cap, keys) = keys[k]
      BY <1>3 DEF Wording
    <2>4. k \in DOMAIN keys
      BY <2>2
    <2> HIDE DEF k
    <2> QED BY <2>3, <2>4
  <1> QED BY <1>2, <1>3

\* The three texts of the executor are texts.
LEMMA TextTypes ==
    ASSUME TypeOK, NEW cap, NEW x \in {"error", "interrupt"}
    PROVE  /\ EntryText(cap) \in Texts \cup {None}
           /\ SuccessText(cap) \in Texts \cup {None}
           /\ ExceptionText(cap, x) \in Texts \cup {None}
  <1>1. language \in Languages /\ "en" \in Languages
    BY ExecutionAssumption DEF TypeOK
  <1>2. /\ <<"debug_entry", language>> \in Texts /\ <<"debug_entry", "en">> \in Texts
        /\ <<"info", language>> \in Texts /\ <<"info", "en">> \in Texts
        /\ <<x, language>> \in Texts /\ <<x, "en">> \in Texts
        /\ <<"debug_exception", language>> \in Texts /\ <<"debug_exception", "en">> \in Texts
    BY <1>1 DEF Texts
  <1>3. EntryText(cap) \in Texts \cup {None}
    <2> DEFINE keys == << <<"debug_entry", language>>, <<"debug_entry", "en">> >>
    <2>1. keys \in Seq(Texts) /\ Len(keys) <= 4
      BY <1>2
    <2> QED BY <2>1, WordingType DEF EntryText
  <1>4. SuccessText(cap) \in Texts \cup {None}
    <2> DEFINE keys == << <<"info", language>>, <<"info", "en">> >>
    <2>1. keys \in Seq(Texts) /\ Len(keys) <= 4
      BY <1>2
    <2> QED BY <2>1, WordingType DEF SuccessText
  <1>5. ExceptionText(cap, x) \in Texts \cup {None}
    <2> DEFINE keys == << <<x, language>>, <<x, "en">>,
                          <<"debug_exception", language>>, <<"debug_exception", "en">> >>
    <2>1. keys \in Seq(Texts) /\ Len(keys) <= 4
      BY <1>2
    <2> QED BY <2>1, WordingType DEF ExceptionText
  <1> QED BY <1>3, <1>4, <1>5

\* What Emit does to the log and to the thresholds.
LEMMA EmitEffect ==
    ASSUME TypeOK, NEW e \in ExecutorEvents, NEW cap \in Capabilities, NEW d \in Nat,
           NEW l \in 0 .. Debug, NEW t \in Texts \cup {None}, Emit(e, cap, d, l, t)
    PROVE  /\ threshold' \in [Repositories -> 0 .. Debug] /\ broker' = broker
           /\ cap \notin SideEffecting => lines' = lines
           /\ cap \in SideEffecting =>
                \E n \in LineType :
                   /\ lines' = Append(lines, n)
                   /\ n.event = e /\ n.cap = cap /\ n.depth = d /\ n.repo = Repository
  <1>0. Repository \in Repositories \cup {"fallback"}
    BY RepositoryType
  <1>1. Forced(Repository, l) \in [Repositories -> 0 .. Debug]
    BY <1>0 DEF TypeOK, Forced
  <1>2. threshold' \in [Repositories -> 0 .. Debug] /\ broker' = broker
    BY <1>1 DEF Emit, TypeOK
  <1>3. cap \notin SideEffecting => lines' = lines
    BY DEF Emit
  <1>4. ASSUME cap \in SideEffecting
        PROVE  \E n \in LineType :
                   /\ lines' = Append(lines, n)
                   /\ n.event = e /\ n.cap = cap /\ n.depth = d /\ n.repo = Repository
    <2> DEFINE n == Line(e, cap, d, l, Repository, t, TRUE)
    <2>1. lines' = Append(lines, n)
      BY <1>4 DEF Emit
    <2>2. n \in LineType
      BY <1>0 DEF Line, LineType, ExecutorEvents
    <2>3. n.event = e /\ n.cap = cap /\ n.depth = d /\ n.repo = Repository
      BY DEF Line
    <2> QED BY <2>1, <2>2, <2>3
  <1> QED BY <1>2, <1>3, <1>4

-----------------------------------------------------------------------------
(* The log of the executor.                                                *)

\* The lines of the log are lines, and their depths are numbers.
LEMMA LinesTyped ==
    ASSUME TypeOK
    PROVE  \A i \in DOMAIN lines : lines[i] \in LineType /\ lines[i].depth \in Nat
  <1>1. \A i \in DOMAIN lines : lines[i] \in LineType
    BY DEF TypeOK
  <1>2. \A n \in LineType : n.depth \in Nat
    BY DEF LineType
  <1> QED BY <1>1, <1>2

\* The stack without its top.
LEMMA Popped ==
    ASSUME TypeOK, frames # <<>>
    PROVE  /\ Len(frames) \in Nat \ {0} /\ Top \in Capabilities
           /\ Pop \in Seq(Capabilities) /\ Len(Pop) = Len(frames) - 1
           /\ \A d \in 1 .. (Len(frames) - 1) : Pop[d] = frames[d]
  <1>0. frames \in Seq(Capabilities)
    BY DEF TypeOK
  <1>1. Len(frames) \in Nat \ {0}
    BY <1>0
  <1>2. Top \in Capabilities
    BY <1>0, <1>1 DEF Top, Depth
  <1>3. Pop \in Seq(Capabilities) /\ Len(Pop) = Len(frames) - 1
    <2> DEFINE m == Len(frames) - 1
    <2>1. m \in Int /\ \A i \in 1 .. m : frames[i] \in Capabilities
      BY <1>0, <1>1
    <2>2. Pop = SubSeq(frames, 1, m)
      BY DEF Pop, Depth
    <2>3. /\ SubSeq(frames, 1, m) \in Seq(Capabilities)
          /\ Len(SubSeq(frames, 1, m)) = IF 1 <= m THEN m - 1 + 1 ELSE 0
      BY <2>1, SubSeqProperties
    <2>4. (IF 1 <= m THEN m - 1 + 1 ELSE 0) = Len(frames) - 1
      BY <1>1
    <2> HIDE DEF m
    <2> QED BY <2>2, <2>3, <2>4
  <1>4. \A d \in 1 .. (Len(frames) - 1) : Pop[d] = frames[d]
    BY <1>0, <1>1 DEF Pop, Depth
  <1> QED BY <1>1, <1>2, <1>3, <1>4

\* A log without lines of the executor is bracketed.
LEMMA QuietLog ==
    ASSUME Quiet(lines)', frames' = <<>>
    PROVE  LogInv'
  <1>1. StartedInv'
    BY DEF StartedInv, Quiet, ExecutorEvents
  <1>2. FramesInv'
    BY DEF FramesInv, Depth
  <1>3. Balanced'
    BY DEF Balanced, Quiet, ExecutorEvents
  <1> QED BY <1>1, <1>2, <1>3 DEF LogInv

\* Without a line, only the end of a silent execution changes what is open.
LEMMA SameLog ==
    ASSUME LogInv, UNCHANGED <<lines, frames>>
    PROVE  LogInv'
  <1>1. StartedInv'
    BY DEF LogInv, StartedInv
  <1>2. FramesInv'
    BY DEF LogInv, FramesInv, Depth, Opens
  <1>3. Balanced'
    BY DEF LogInv, Balanced, Closed, Depth
  <1> QED BY <1>1, <1>2, <1>3 DEF LogInv

\* A silent execution begins.
LEMMA SilentStart ==
    ASSUME TypeOK, LogInv, NEW c \in Capabilities, c \notin SideEffecting,
           lines' = lines, frames' = Append(frames, c)
    PROVE  LogInv'
  <1> USE DEF LogInv
  <1>0. /\ frames \in Seq(Capabilities) /\ lines \in Seq(LineType)
        /\ Len(frames') = Len(frames) + 1 /\ frames'[Len(frames) + 1] = c
        /\ \A d \in 1 .. Len(frames) : frames'[d] = frames[d]
    BY DEF TypeOK
  <1>1. StartedInv'
    BY DEF StartedInv
  <1>2. FramesInv'
    <2> SUFFICES ASSUME NEW d \in 1 .. Len(frames'), frames'[d] \in SideEffecting
                 PROVE  \E i \in DOMAIN lines : Opens(i, d)'
      BY DEF FramesInv, Depth
    <2>1. d \in 1 .. Len(frames) /\ frames[d] \in SideEffecting
      BY <1>0
    <2>2. PICK i \in DOMAIN lines : Opens(i, d)
      BY <2>1 DEF FramesInv, Depth
    <2> QED BY <1>0, <2>1, <2>2 DEF Opens
  <1>3. Balanced'
    <2>1. \A i, j : Closed(i, j) <=> Closed(i, j)'
      BY DEF Closed
    <2>2. ASSUME NEW i \in DOMAIN lines, lines[i].event = "started",
                 ~ \E j \in (i + 1) .. Len(lines) : Closed(i, j)
          PROVE  /\ lines[i].depth <= Len(frames') /\ frames'[lines[i].depth] = lines[i].cap
                 /\ \A k \in (i + 1) .. Len(lines) : lines[k].depth > lines[i].depth
      <3>1. /\ lines[i].depth <= Len(frames) /\ frames[lines[i].depth] = lines[i].cap
            /\ \A k \in (i + 1) .. Len(lines) : lines[k].depth > lines[i].depth
        BY <2>2 DEF Balanced, Depth
      <3>2. lines[i].depth >= 1 /\ lines[i].depth \in Nat
        BY LinesTyped, <2>2 DEF StartedInv
      <3> QED BY <1>0, <3>1, <3>2
    <2> QED BY <2>1, <2>2 DEF Balanced, Depth
  <1> QED BY <1>1, <1>2, <1>3

\* A silent execution ends; it has opened no line.
LEMMA SilentEnd ==
    ASSUME TypeOK, LogInv, frames # <<>>, Top \notin SideEffecting,
           lines' = lines, frames' = Pop
    PROVE  LogInv'
  <1> USE DEF LogInv
  <1>0. /\ frames \in Seq(Capabilities) /\ lines \in Seq(LineType)
        /\ Len(frames) \in Nat \ {0} /\ Len(frames') = Len(frames) - 1
        /\ \A d \in 1 .. (Len(frames) - 1) : frames'[d] = frames[d]
    BY Popped DEF TypeOK
  <1>1. StartedInv'
    BY DEF StartedInv
  <1>2. FramesInv'
    <2> SUFFICES ASSUME NEW d \in 1 .. Len(frames'), frames'[d] \in SideEffecting
                 PROVE  \E i \in DOMAIN lines : Opens(i, d)'
      BY DEF FramesInv, Depth
    <2>1. d \in 1 .. Len(frames) /\ frames'[d] = frames[d]
      BY <1>0
    <2>2. PICK i \in DOMAIN lines : Opens(i, d)
      BY <2>1 DEF FramesInv, Depth
    <2> QED BY <1>0, <2>1, <2>2 DEF Opens
  <1>3. Balanced'
    <2>1. \A i, j : Closed(i, j) <=> Closed(i, j)'
      BY DEF Closed
    <2>2. ASSUME NEW i \in DOMAIN lines, lines[i].event = "started",
                 ~ \E j \in (i + 1) .. Len(lines) : Closed(i, j)
          PROVE  /\ lines[i].depth <= Len(frames') /\ frames'[lines[i].depth] = lines[i].cap
                 /\ \A k \in (i + 1) .. Len(lines) : lines[k].depth > lines[i].depth
      <3>1. /\ lines[i].depth <= Len(frames) /\ frames[lines[i].depth] = lines[i].cap
            /\ \A k \in (i + 1) .. Len(lines) : lines[k].depth > lines[i].depth
        BY <2>2 DEF Balanced, Depth
      <3>2. lines[i].depth >= 1 /\ lines[i].depth \in Nat /\ lines[i].cap \in SideEffecting
        BY LinesTyped, <2>2 DEF StartedInv
      <3>3. lines[i].depth # Len(frames)
        BY <3>1, <3>2 DEF Top, Depth
      <3> QED BY <1>0, <3>1, <3>2, <3>3
    <2> QED BY <2>1, <2>2 DEF Balanced, Depth
  <1> QED BY <1>1, <1>2, <1>3

\* A line more: the old ones stay where they are, and what is closed stays closed.
LEMMA Appended ==
    ASSUME TypeOK, NEW n \in LineType, lines' = Append(lines, n)
    PROVE  /\ Len(lines) \in Nat /\ Len(lines') = Len(lines) + 1
           /\ DOMAIN lines = 1 .. Len(lines) /\ DOMAIN lines' = 1 .. (Len(lines) + 1)
           /\ \A i \in 1 .. Len(lines) : lines'[i] = lines[i]
           /\ lines'[Len(lines) + 1] = n
           /\ \A i, j \in 1 .. Len(lines) : Closed(i, j) => Closed(i, j)'
  <1>1. /\ Len(lines) \in Nat /\ Len(lines') = Len(lines) + 1
        /\ DOMAIN lines = 1 .. Len(lines) /\ DOMAIN lines' = 1 .. (Len(lines) + 1)
        /\ \A i \in 1 .. Len(lines) : lines'[i] = lines[i]
        /\ lines'[Len(lines) + 1] = n
    BY DEF TypeOK
  <1>2. ASSUME NEW i \in 1 .. Len(lines), NEW j \in 1 .. Len(lines), Closed(i, j)
        PROVE  Closed(i, j)'
    <2>1. \A k \in (i + 1) .. (j - 1) : k \in 1 .. Len(lines)
      BY <1>1
    <2> QED BY <1>1, <1>2, <2>1 DEF Closed
  <1> QED BY <1>1, <1>2

\* An execution that writes lines begins one level deeper than all that are open.
LEMMA LoudStart ==
    ASSUME TypeOK, LogInv, NEW c \in Capabilities, c \in SideEffecting,
           frames' = Append(frames, c), NEW n \in LineType, lines' = Append(lines, n),
           n.event = "started", n.cap = c, n.depth = Depth + 1
    PROVE  LogInv'
  <1> USE DEF LogInv
  <1>0. /\ Len(frames) \in Nat /\ Len(frames') = Len(frames) + 1
        /\ frames'[Len(frames) + 1] = c /\ n.depth = Len(frames) + 1
        /\ \A d \in 1 .. Len(frames) : frames'[d] = frames[d]
    BY DEF TypeOK, Depth
  <1>l. /\ Len(lines) \in Nat /\ Len(lines') = Len(lines) + 1
        /\ DOMAIN lines = 1 .. Len(lines) /\ DOMAIN lines' = 1 .. (Len(lines) + 1)
        /\ \A i \in 1 .. Len(lines) : lines'[i] = lines[i]
        /\ lines'[Len(lines) + 1] = n
        /\ \A i, j \in 1 .. Len(lines) : Closed(i, j) => Closed(i, j)'
    BY Appended
  <1>m. PICK m \in Nat : m = Len(lines)
    BY <1>l
  <1>1. StartedInv'
    BY <1>0, <1>l DEF StartedInv
  <1>2. FramesInv'
    <2> SUFFICES ASSUME NEW d \in 1 .. Len(frames'), frames'[d] \in SideEffecting
                 PROVE  \E i \in DOMAIN lines' : Opens(i, d)'
      BY DEF FramesInv, Depth
    <2>1. CASE d = Len(frames) + 1
      <3>1. lines'[m + 1] = n /\ \A k \in (m + 2) .. Len(lines') : FALSE
        BY <1>l, <1>m
      <3>2. Opens(m + 1, d)'
        BY <1>0, <2>1, <3>1 DEF Opens
      <3> QED BY <1>l, <1>m, <3>2
    <2>2. CASE d \in 1 .. Len(frames)
      <3>1. PICK i \in DOMAIN lines : Opens(i, d)
        BY <1>0, <2>2 DEF FramesInv, Depth
      <3>2. \A k \in (i + 1) .. (Len(lines) + 1) : lines'[k].depth > d
        <4> TAKE k \in (i + 1) .. (Len(lines) + 1)
        <4>1. CASE k = Len(lines) + 1
          BY <1>0, <1>l, <2>2, <4>1
        <4>2. CASE k \in (i + 1) .. Len(lines)
          BY <1>l, <3>1, <4>2 DEF Opens
        <4> QED BY <1>l, <4>1, <4>2
      <3> QED BY <1>0, <1>l, <2>2, <3>1, <3>2 DEF Opens
    <2> QED BY <1>0, <2>1, <2>2
  <1>3. Balanced'
    <2>1. ASSUME NEW i \in DOMAIN lines', lines'[i].event = "started",
                 ~ \E j \in (i + 1) .. Len(lines') : Closed(i, j)'
          PROVE  /\ lines'[i].depth <= Len(frames') /\ frames'[lines'[i].depth] = lines'[i].cap
                 /\ \A k \in (i + 1) .. Len(lines') : lines'[k].depth > lines'[i].depth
      <3>1. CASE i = Len(lines) + 1
        <4>1. lines'[i] = n /\ \A k \in (i + 1) .. Len(lines') : FALSE
          BY <1>l, <3>1
        <4> QED BY <1>0, <4>1
      <3>2. CASE i \in 1 .. Len(lines)
        <4>1. lines'[i] = lines[i] /\ lines[i].depth \in Nat /\ lines[i].depth >= 1
          BY <1>l, <3>2, <2>1, LinesTyped DEF StartedInv
        <4>2. ~ \E j \in (i + 1) .. Len(lines) : Closed(i, j)
          BY <1>l, <2>1, <3>2
        <4>3. /\ lines[i].depth <= Len(frames) /\ frames[lines[i].depth] = lines[i].cap
              /\ \A k \in (i + 1) .. Len(lines) : lines[k].depth > lines[i].depth
          BY <1>l, <2>1, <3>2, <4>1, <4>2 DEF Balanced, Depth
        <4>4. \A k \in (i + 1) .. (Len(lines) + 1) : lines'[k].depth > lines'[i].depth
          <5> TAKE k \in (i + 1) .. (Len(lines) + 1)
          <5>1. CASE k = Len(lines) + 1
            BY <1>0, <1>l, <4>1, <4>3, <5>1
          <5>2. CASE k \in (i + 1) .. Len(lines)
            BY <1>l, <4>1, <4>3, <5>2
          <5> QED BY <1>l, <5>1, <5>2
        <4>5. lines[i].depth <= Len(frames') /\ frames'[lines[i].depth] = lines[i].cap
          BY <1>0, <4>1, <4>3
        <4> QED BY <1>l, <4>1, <4>4, <4>5
      <3>3. i = Len(lines) + 1 \/ i \in 1 .. Len(lines)
        BY <1>l
      <3> QED BY <3>1, <3>2, <3>3
    <2>2. ASSUME NEW j \in DOMAIN lines', lines'[j].event \in {"done", "raised"}
          PROVE  \E i \in 1 .. (j - 1) : lines'[i].event = "started" /\ Closed(i, j)'
      <3>1. j \in 1 .. Len(lines) /\ lines'[j] = lines[j]
        BY <1>l, <2>2
      <3>2. PICK i \in 1 .. (j - 1) : lines[i].event = "started" /\ Closed(i, j)
        BY <1>l, <2>2, <3>1 DEF Balanced
      <3> QED BY <1>l, <3>1, <3>2
    <2> QED BY <2>1, <2>2 DEF Balanced, Depth
  <1> QED BY <1>1, <1>2, <1>3

\* An execution that writes lines ends: its line closes the one that opened it, with only
\* deeper executions between, and every execution below it stays open.
LEMMA LoudEnd ==
    ASSUME TypeOK, LogInv, frames # <<>>, Top \in SideEffecting,
           frames' = Pop, NEW n \in LineType, lines' = Append(lines, n),
           n.event \in {"done", "raised"}, n.cap = Top, n.depth = Depth
    PROVE  LogInv'
  <1> USE DEF LogInv
  <1>0. /\ Len(frames) \in Nat \ {0} /\ Len(frames') = Len(frames) - 1
        /\ n.cap = frames[Len(frames)] /\ n.depth = Len(frames)
        /\ \A d \in 1 .. (Len(frames) - 1) : frames'[d] = frames[d]
    BY Popped DEF Depth, Top
  <1>l. /\ Len(lines) \in Nat /\ Len(lines') = Len(lines) + 1
        /\ DOMAIN lines = 1 .. Len(lines) /\ DOMAIN lines' = 1 .. (Len(lines) + 1)
        /\ \A i \in 1 .. Len(lines) : lines'[i] = lines[i]
        /\ lines'[Len(lines) + 1] = n
        /\ \A i, j \in 1 .. Len(lines) : Closed(i, j) => Closed(i, j)'
    BY Appended
  <1>m. PICK m \in Nat : m = Len(lines)
    BY <1>l
  <1>c. ASSUME NEW i \in 1 .. Len(lines), Opens(i, Len(frames))
        PROVE  Closed(i, m + 1)'
    <2>1. \A k \in (i + 1) .. Len(lines) : lines'[k] = lines[k]
      BY <1>l
    <2>2. /\ lines'[i].cap = n.cap /\ lines'[i].depth = n.depth
          /\ \A k \in (i + 1) .. Len(lines) : lines'[k].depth > lines'[i].depth
      BY <1>0, <1>l, <1>c, <2>1 DEF Opens
    <2>3. (m + 1) - 1 = Len(lines) /\ lines'[m + 1] = n
      BY <1>l, <1>m
    <2> QED BY <2>2, <2>3 DEF Closed
  <1>1. StartedInv'
    BY <1>0, <1>l DEF StartedInv
  <1>2. FramesInv'
    <2> SUFFICES ASSUME NEW d \in 1 .. Len(frames'), frames'[d] \in SideEffecting
                 PROVE  \E i \in DOMAIN lines' : Opens(i, d)'
      BY DEF FramesInv, Depth
    <2>1. d \in 1 .. (Len(frames) - 1) /\ d < n.depth
      BY <1>0
    <2>2. PICK i \in DOMAIN lines : Opens(i, d)
      BY <1>0, <2>1 DEF FramesInv, Depth
    <2>3. \A k \in (i + 1) .. (Len(lines) + 1) : lines'[k].depth > d
      <3> TAKE k \in (i + 1) .. (Len(lines) + 1)
      <3>1. CASE k = Len(lines) + 1
        BY <1>0, <1>l, <2>1, <3>1
      <3>2. CASE k \in (i + 1) .. Len(lines)
        BY <1>l, <2>2, <3>2 DEF Opens
      <3> QED BY <1>l, <3>1, <3>2
    <2> QED BY <1>0, <1>l, <2>1, <2>2, <2>3 DEF Opens
  <1>3. Balanced'
    <2>1. ASSUME NEW i \in DOMAIN lines', lines'[i].event = "started",
                 ~ \E j \in (i + 1) .. Len(lines') : Closed(i, j)'
          PROVE  /\ lines'[i].depth <= Len(frames') /\ frames'[lines'[i].depth] = lines'[i].cap
                 /\ \A k \in (i + 1) .. Len(lines') : lines'[k].depth > lines'[i].depth
      <3>1. i \in 1 .. Len(lines) /\ lines'[i] = lines[i]
        BY <1>l, <2>1
      <3>2. lines[i].depth \in Nat /\ lines[i].depth >= 1
        BY <1>l, <3>1, <2>1, LinesTyped DEF StartedInv
      <3>3. ~ \E j \in (i + 1) .. Len(lines) : Closed(i, j)
        BY <1>l, <2>1, <3>1
      <3>4. /\ lines[i].depth <= Len(frames) /\ frames[lines[i].depth] = lines[i].cap
            /\ \A k \in (i + 1) .. Len(lines) : lines[k].depth > lines[i].depth
        BY <1>l, <2>1, <3>1, <3>3 DEF Balanced, Depth
      <3>5. lines[i].depth # Len(frames)
        <4>1. ASSUME lines[i].depth = Len(frames)
              PROVE  Opens(i, Len(frames))
          BY <2>1, <3>1, <3>4, <4>1 DEF Opens
        <4> QED BY <1>l, <1>m, <1>c, <2>1, <3>1, <4>1
      <3>6. \A k \in (i + 1) .. (Len(lines) + 1) : lines'[k].depth > lines'[i].depth
        <4> TAKE k \in (i + 1) .. (Len(lines) + 1)
        <4>1. CASE k = Len(lines) + 1
          BY <1>0, <1>l, <3>1, <3>2, <3>4, <3>5, <4>1
        <4>2. CASE k \in (i + 1) .. Len(lines)
          BY <1>l, <3>1, <3>4, <4>2
        <4> QED BY <1>l, <4>1, <4>2
      <3>7. lines[i].depth <= Len(frames') /\ frames'[lines[i].depth] = lines[i].cap
        BY <1>0, <3>2, <3>4, <3>5
      <3> QED BY <1>l, <3>1, <3>6, <3>7
    <2>2. ASSUME NEW j \in DOMAIN lines', lines'[j].event \in {"done", "raised"}
          PROVE  \E i \in 1 .. (j - 1) : lines'[i].event = "started" /\ Closed(i, j)'
      <3>1. CASE j = Len(lines) + 1
        <4>1. PICK i \in DOMAIN lines : Opens(i, Len(frames))
          BY <1>0 DEF FramesInv, Depth, Top
        <4>2. lines'[i].event = "started" /\ i \in 1 .. (j - 1)
          BY <1>l, <3>1, <4>1 DEF Opens
        <4> QED BY <1>l, <1>m, <1>c, <3>1, <4>1, <4>2
      <3>2. CASE j \in 1 .. Len(lines)
        <4>1. lines'[j] = lines[j]
          BY <1>l, <3>2
        <4>2. PICK i \in 1 .. (j - 1) : lines[i].event = "started" /\ Closed(i, j)
          BY <1>l, <2>2, <3>2, <4>1 DEF Balanced
        <4> QED BY <1>l, <3>2, <4>2
      <3> QED BY <1>l, <3>1, <3>2
    <2> QED BY <2>1, <2>2 DEF Balanced, Depth
  <1> QED BY <1>1, <1>2, <1>3

-----------------------------------------------------------------------------
(* Steps before the command runs.                                          *)

\* A line of main's logger keeps a log quiet.
LEMMA QuietAppend ==
    ASSUME TypeOK, NEW log \in Seq(LineType), Quiet(log), NEW l \in 0 .. Debug,
           NEW e \in {"healthy", "no_root", "unhealthy", "broken_module", "accepts_raised"}
    PROVE  Append(log, MainLine(e, l)) \in Seq(LineType) /\ Quiet(Append(log, MainLine(e, l)))
  <1> DEFINE n == MainLine(e, l)
  <1>1. Shown(l) \in BOOLEAN
    BY DEF Shown
  <1>2. n \in LineType /\ n.event = e
    BY <1>1 DEF MainLine, Line, LineType, Repositories
  <1> HIDE DEF n
  <1>3. /\ Append(log, n) \in Seq(LineType) /\ DOMAIN Append(log, n) = 1 .. (Len(log) + 1)
        /\ Len(log) \in Nat /\ DOMAIN log = 1 .. Len(log)
        /\ Append(log, n)[Len(log) + 1] = n
        /\ \A i \in 1 .. Len(log) : Append(log, n)[i] = log[i]
    <2>1. /\ Append(log, n) \in Seq(LineType) /\ Len(Append(log, n)) = Len(log) + 1
          /\ Append(log, n)[Len(log) + 1] = n
          /\ \A i \in 1 .. Len(log) : Append(log, n)[i] = log[i]
      BY <1>2, AppendProperties
    <2>2. /\ Len(log) \in Nat /\ DOMAIN log = 1 .. Len(log)
          /\ DOMAIN Append(log, n) = 1 .. Len(Append(log, n))
      BY <2>1, LenProperties
    <2> QED BY <2>1, <2>2
  <1>4. Quiet(Append(log, n))
    <2>1. SUFFICES ASSUME NEW i \in 1 .. (Len(log) + 1)
                   PROVE  Append(log, n)[i].event \notin ExecutorEvents
      BY <1>3 DEF Quiet
    <2>2. CASE i = Len(log) + 1
      BY <1>2, <1>3, <2>2 DEF ExecutorEvents
    <2>3. CASE i \in 1 .. Len(log)
      BY <1>3, <2>3 DEF Quiet
    <2>4. i = Len(log) + 1 \/ i \in 1 .. Len(log)
      BY <1>3
    <2> QED BY <2>2, <2>3, <2>4
  <1> QED BY <1>3, <1>4 DEF n

\* A session that ends before the command runs.
LEMMA FailStep ==
    ASSUME IInv, pc # "idle", NEW log \in Seq(LineType), Quiet(log), Fail(log),
           command' \in (1 .. Len(Commands)) \cup {None}, UNCHANGED <<level, file, sessions>>
    PROVE  IInv'
  <1> USE DEF IInv, Fail, Close, Forget
  <1>1. TypeOK'
    <2>1. "en" \in Languages
      BY ExecutionAssumption
    <2>2. [i \in 1 .. Len(Commands) |-> "no"]
            \in [1 .. Len(Commands) -> {"yes", "no", "raises"}]
      OBVIOUS
    <2> QED BY <2>1, <2>2 DEF TypeOK
  <1>2. SessionInv'
    BY DEF SessionInv
  <1>3. LevelIsOwn' /\ BrokerScoped'
    BY DEF LevelIsOwn, BrokerScoped
  <1>4. FailureInv' /\ FailureReported'
    BY DEF FailureInv, FailureReported
  <1>5. LogInv'
    BY QuietLog DEF Quiet
  <1> QED BY <1>1, <1>2, <1>3, <1>4, <1>5

\* The next stage of a session of main, before the command runs.
LEMMA StageStep ==
    ASSUME IInv, pc \in {"health", "route", "bind"}, pc' \in {"route", "bind", "run"},
           pc' \in {"bind", "run"} => level' = requested /\ file' = None,
           level' \in Levels \cup {None}, file' \in Levels \cup {None},
           command' \in (1 .. Len(Commands)) \cup {None},
           threshold' \in [Repositories -> 0 .. Debug],
           lines' \in Seq(LineType), Quiet(lines)',
           UNCHANGED <<request, broker, work, exit, sessions>>
    PROVE  IInv'
  <1> USE DEF IInv, request, work
  <1>0. session = "main" /\ frames = <<>> /\ raising = None
    BY DEF SessionInv, TypeOK
  <1>1. TypeOK'
    BY DEF TypeOK
  <1>2. SessionInv'
    BY <1>0 DEF SessionInv
  <1>3. LevelIsOwn' /\ BrokerScoped'
    BY <1>0 DEF LevelIsOwn, BrokerScoped
  <1>4. FailureInv' /\ FailureReported'
    BY DEF FailureInv, FailureReported, Quiet, ExecutorEvents
  <1>5. LogInv'
    BY <1>0, QuietLog
  <1> QED BY <1>1, <1>2, <1>3, <1>4, <1>5

\* A session begins with an empty log.
LEMMA MainStep == ASSUME IInv, Main PROVE IInv'
  <1>1. threshold' \in [Repositories -> 0 .. Debug]
    BY ExecutionAssumption DEF IInv, Main, TypeOK, Info, Debug
  <1>2. TypeOK'
    <2>1. /\ session' = "main" /\ pc' = "health" /\ frames' = <<>> /\ raising' = None
          /\ lines' = <<>> /\ calls' = 0 /\ exit' = None /\ command' = None
          /\ sessions' \in Nat /\ level' \in Levels \cup {None} /\ file' \in Levels \cup {None}
      BY DEF IInv, Main, Open, TypeOK
    <2>2. /\ render' \in {"rich", "json", "html"} /\ requested' \in Levels \cup {None}
          /\ broker' \in {"main", None} /\ channels' = {} /\ language' \in Languages
          /\ accepts' \in [1 .. Len(Commands) -> {"yes", "no", "raises"}]
      BY DEF Main, Open
    <2> QED BY <1>1, <2>1, <2>2 DEF TypeOK
  <1>3. SessionInv'
    BY DEF Main, Open, SessionInv, Quiet
  <1>4. LevelIsOwn' /\ BrokerScoped'
    BY DEF Main, Open, LevelIsOwn, BrokerScoped
  <1>5. FailureInv' /\ FailureReported'
    BY ExecutionAssumption DEF Main, Open, FailureInv, FailureReported
  <1>6. LogInv'
    BY QuietLog DEF Main, Open, Quiet
  <1> QED BY <1>2, <1>3, <1>4, <1>5, <1>6 DEF IInv

\* A program's session finds no broker.
LEMMA ProgramStep == ASSUME IInv, Program PROVE IInv'
  <1> USE DEF IInv, Program, Open
  <1>0. broker = None
    BY DEF SessionInv
  <1>2. TypeOK'
    BY DEF TypeOK
  <1>3. SessionInv'
    BY <1>0 DEF SessionInv
  <1>4. LevelIsOwn' /\ BrokerScoped'
    BY <1>0 DEF LevelIsOwn, BrokerScoped
  <1>5. FailureInv' /\ FailureReported'
    BY ExecutionAssumption DEF FailureInv, FailureReported
  <1>6. LogInv'
    BY QuietLog DEF Quiet
  <1> QED BY <1>2, <1>3, <1>4, <1>5, <1>6

\* A refused command line leaves the last session's log, and is not done.
LEMMA BadLevelStep == ASSUME IInv, BadLevel PROVE IInv'
  <1> USE DEF IInv, BadLevel, request, work
  <1>0. session = "none"
    BY DEF SessionInv
  <1>1. TypeOK'
    BY DEF TypeOK
  <1>2. SessionInv'
    BY DEF SessionInv, Quiet
  <1>3. LevelIsOwn' /\ BrokerScoped'
    BY <1>0 DEF LevelIsOwn, BrokerScoped
  <1>4. FailureInv' /\ FailureReported'
    BY DEF FailureInv, FailureReported
  <1>5. LogInv'
    BY SameLog
  <1> QED BY <1>1, <1>2, <1>3, <1>4, <1>5

\* The health check writes one line of main.
LEMMA HealthCheckStep == ASSUME IInv, HealthCheck PROVE IInv'
  <1>0. /\ TypeOK /\ lines \in Seq(LineType) /\ Quiet(lines) /\ pc = "health"
        /\ command' = command /\ level' = level /\ file' = file
        /\ command \in (1 .. Len(Commands)) \cup {None} /\ threshold \in [Repositories -> 0 .. Debug]
        /\ level \in Levels \cup {None} /\ file \in Levels \cup {None}
    BY DEF IInv, TypeOK, SessionInv, HealthCheck
  <1>1. ASSUME NEW e \in {"healthy", "no_root", "unhealthy"}, NEW l \in {Info, Warning, Error}
        PROVE  Append(lines, MainLine(e, l)) \in Seq(LineType) /\ Quiet(Append(lines, MainLine(e, l)))
    <2>1. l \in 0 .. Debug
      BY <1>1 DEF Info, Warning, Error, Debug
    <2> QED BY <1>0, <2>1, QuietAppend
  <1>2. CASE Fail(Append(lines, MainLine("unhealthy", Error)))
    BY <1>0, <1>1, <1>2, FailStep DEF HealthCheck
  <1>3. CASE ~ Fail(Append(lines, MainLine("unhealthy", Error)))
    <2>1. /\ pc' = "route" /\ UNCHANGED <<request, threshold, broker, work, exit, sessions>>
          /\ \/ lines' = Append(lines, MainLine("healthy", Info))
             \/ lines' = Append(lines, MainLine("no_root", Warning))
      BY <1>3 DEF HealthCheck
    <2>2. lines' \in Seq(LineType) /\ Quiet(lines)'
      BY <1>1, <2>1 DEF Quiet
    <2> QED BY <1>0, <2>1, <2>2, StageStep
  <1> QED BY <1>2, <1>3

\* The router warns and reports through main's logger.
LEMMA RouteLogQuiet ==
    ASSUME IInv, pc = "route"
    PROVE  RouteLog \in Seq(LineType) /\ Quiet(RouteLog)
  <1> DEFINE warned == IF Loaded = 1 .. Len(Commands) THEN lines
                       ELSE Append(lines, MainLine("broken_module", Warning))
  <1>1. TypeOK /\ lines \in Seq(LineType) /\ Quiet(lines)
    BY DEF IInv, TypeOK, SessionInv
  <1>2. warned \in Seq(LineType) /\ Quiet(warned)
    <2>1. Warning \in 0 .. Debug
      BY DEF Warning, Debug
    <2>2. /\ Append(lines, MainLine("broken_module", Warning)) \in Seq(LineType)
          /\ Quiet(Append(lines, MainLine("broken_module", Warning)))
      BY <1>1, <2>1, QuietAppend
    <2> QED BY <1>1, <2>2
  <1>3. RouteLog = IF Raising = {} THEN warned
                   ELSE Append(warned, MainLine("accepts_raised", Error))
    BY DEF RouteLog
  <1> HIDE DEF warned
  <1>4. Error \in 0 .. Debug
    BY DEF Error, Debug
  <1>5. /\ Append(warned, MainLine("accepts_raised", Error)) \in Seq(LineType)
        /\ Quiet(Append(warned, MainLine("accepts_raised", Error)))
    BY <1>1, <1>2, <1>4, QuietAppend
  <1> QED BY <1>2, <1>3, <1>5

\* One command is found, with the level of this command line, or the session fails.
LEMMA RouteStep == ASSUME IInv, Route PROVE IInv'
  <1>0. /\ RouteLog \in Seq(LineType) /\ Quiet(RouteLog) /\ pc = "route"
        /\ command \in (1 .. Len(Commands)) \cup {None} /\ threshold \in [Repositories -> 0 .. Debug]
        /\ requested \in Levels \cup {None}
    BY RouteLogQuiet DEF IInv, TypeOK, Route
  <1>1. CASE Cardinality(Candidates) = 1
    <2>1. Candidates # {}
      BY <1>1, FS_EmptySet
    <2>2. command' \in 1 .. Len(Commands)
      BY <1>1, <2>1 DEF Route, Candidates, Loaded
    <2>3. level' = requested /\ file' = None /\ lines' = RouteLog /\ pc' = "bind"
          /\ UNCHANGED <<request, threshold, broker, work, exit, sessions>>
      BY <1>1 DEF Route, WithLevel
    <2>4. Quiet(lines)'
      BY <1>0, <2>3 DEF Quiet
    <2> QED BY <1>0, <2>2, <2>3, <2>4, StageStep
  <1>2. CASE Cardinality(Candidates) # 1
    BY <1>0, <1>2, FailStep DEF Route
  <1> QED BY <1>1, <1>2

\* The parameters are bound, or the session fails.
LEMMA BindStep == ASSUME IInv, Bind PROVE IInv'
  <1>0. /\ pc = "bind" /\ session = "main" /\ lines \in Seq(LineType) /\ Quiet(lines)
        /\ command' = command /\ level' = level /\ file' = file
        /\ command \in (1 .. Len(Commands)) \cup {None} /\ threshold \in [Repositories -> 0 .. Debug]
        /\ level = requested /\ file = None /\ requested \in Levels \cup {None}
        /\ UNCHANGED sessions
    BY DEF IInv, TypeOK, SessionInv, LevelIsOwn, Bind
  <1>1. CASE Fail(lines)
    BY <1>0, <1>1, FailStep
  <1>2. CASE ~ Fail(lines)
    <2>1. threshold' = Configured /\ pc' = "run" /\ UNCHANGED <<request, broker, lines, work, exit>>
      BY <1>2 DEF Bind
    <2>2. Configured \in [Repositories -> 0 .. Debug]
      BY <1>0, ExecutionAssumption DEF Configured, Notice, Debug
    <2>3. Quiet(lines)' /\ lines' \in Seq(LineType)
      BY <1>0, <2>1 DEF Quiet
    <2> QED BY <1>0, <2>1, <2>2, <2>3, StageStep
  <1> QED BY <1>1, <1>2

-----------------------------------------------------------------------------
(* Steps of the executor.                                                  *)

\* What a line of the executor leaves of the rest: its session goes on, and a program's
\* line is not written to main's logger.
LEMMA ExecutorStep ==
    ASSUME IInv, Executor, broker' = broker, threshold' \in [Repositories -> 0 .. Debug],
           lines' \in Seq(LineType), frames' \in Seq(Capabilities),
           raising' \in {"error", "interrupt", None}, calls' \in Nat,
           \/ lines' = lines
           \/ \E n \in LineType : lines' = Append(lines, n) /\ n.repo = Repository
    PROVE  /\ TypeOK' /\ SessionInv' /\ LevelIsOwn' /\ BrokerScoped' /\ FailureReported'
           /\ pc' = "run"
  <1> USE DEF IInv, Executor, request
  <1>1. TypeOK'
    BY DEF TypeOK
  <1>2. SessionInv'
    BY DEF SessionInv
  <1>3. LevelIsOwn'
    BY DEF LevelIsOwn
  <1>4. BrokerScoped'
    <2>1. broker' # None => session' = "main"
      BY DEF BrokerScoped
    <2>2. ASSUME session' = "program"
          PROVE  \A i \in DOMAIN lines' : lines'[i].repo # "main"
      <3>1. session = "program" /\ broker = None
        BY <2>2 DEF SessionInv
      <3>2. \A i \in DOMAIN lines : lines[i].repo # "main"
        BY <3>1 DEF BrokerScoped
      <3>3. CASE lines' = lines
        BY <3>2, <3>3
      <3>4. ASSUME NEW n \in LineType, lines' = Append(lines, n), n.repo = Repository
            PROVE  \A i \in DOMAIN lines' : lines'[i].repo # "main"
        <4>1. n.repo # "main"
          BY <3>1, <3>4, RepositoryType
        <4>2. /\ Len(lines) \in Nat /\ DOMAIN lines = 1 .. Len(lines)
              /\ DOMAIN lines' = 1 .. (Len(lines) + 1)
              /\ \A i \in 1 .. Len(lines) : lines'[i] = lines[i]
              /\ lines'[Len(lines) + 1] = n
          BY <3>4, Appended
        <4> QED BY <3>2, <4>1, <4>2
      <3> QED BY <3>3, <3>4
    <2> QED BY <2>1, <2>2 DEF BrokerScoped
  <1>5. FailureReported'
    BY ExecutionAssumption DEF SessionInv, FailureReported
  <1> QED BY <1>1, <1>2, <1>3, <1>4, <1>5

\* An outermost execution has raised.
Raised1(log) == \E i \in DOMAIN log : log[i].event = "raised" /\ log[i].depth = 1

\* Only a new line can say so for the first time.
LEMMA RaisedAppend ==
    ASSUME TypeOK, ~ Raised1(lines), NEW n \in LineType, lines' = Append(lines, n),
           Raised1(lines')
    PROVE  n.event = "raised" /\ n.depth = 1
  <1>1. /\ DOMAIN lines = 1 .. Len(lines) /\ DOMAIN lines' = 1 .. (Len(lines) + 1)
        /\ Len(lines) \in Nat /\ lines'[Len(lines) + 1] = n
        /\ \A i \in 1 .. Len(lines) : lines'[i] = lines[i]
    BY Appended
  <1> QED BY <1>1 DEF Raised1

\* A capability is called.
LEMMA CallStep == ASSUME IInv, NEW c \in Capabilities, Call(c) PROVE IInv'
  <1>0. /\ TypeOK /\ LogInv /\ Depth \in Nat /\ Debug \in 0 .. Debug
        /\ "started" \in ExecutorEvents /\ EntryText(c) \in Texts \cup {None}
    BY TextTypes DEF IInv, TypeOK, Depth, Debug, ExecutorEvents
  <1>1. /\ threshold' \in [Repositories -> 0 .. Debug] /\ broker' = broker
        /\ c \notin SideEffecting => lines' = lines
        /\ c \in SideEffecting =>
             \E n \in LineType :
                /\ lines' = Append(lines, n) /\ n.event = "started" /\ n.cap = c
                /\ n.depth = Depth + 1 /\ n.repo = Repository
    <2>1. Emit("started", c, Depth + 1, Debug, EntryText(c)) /\ Depth + 1 \in Nat
      BY <1>0 DEF Call
    <2> QED BY <1>0, <2>1, EmitEffect
  <1>2. /\ frames' = Append(frames, c) /\ frames' \in Seq(Capabilities) /\ calls' \in Nat
        /\ raising' = None /\ raising = None /\ Executor
    BY <1>0 DEF Call, Callable, TypeOK
  <1>3. ~ Raised1(lines)
    BY <1>2 DEF IInv, FailureInv, Raised1, Executor
  <1>4. CASE c \notin SideEffecting
    <2>1. LogInv'
      BY <1>0, <1>1, <1>2, <1>4, SilentStart
    <2>2. lines' = lines /\ lines' \in Seq(LineType)
      BY <1>0, <1>1, <1>4 DEF TypeOK
    <2>3. /\ TypeOK' /\ SessionInv' /\ LevelIsOwn' /\ BrokerScoped' /\ FailureReported'
      BY <1>1, <1>2, <2>2, ExecutorStep
    <2>4. FailureInv'
      BY <1>3, <2>2 DEF FailureInv, Raised1
    <2> QED BY <2>1, <2>3, <2>4 DEF IInv
  <1>5. CASE c \in SideEffecting
    <2>0. PICK n \in LineType :
             /\ lines' = Append(lines, n) /\ n.event = "started" /\ n.cap = c
             /\ n.depth = Depth + 1 /\ n.repo = Repository
      BY <1>1, <1>5
    <2>1. LogInv'
      BY <1>0, <1>2, <1>5, <2>0, LoudStart
    <2>2. lines' \in Seq(LineType)
      BY <1>0, <2>0 DEF TypeOK
    <2>3. /\ TypeOK' /\ SessionInv' /\ LevelIsOwn' /\ BrokerScoped' /\ FailureReported'
      BY <1>1, <1>2, <2>0, <2>2, ExecutorStep
    <2>4. FailureInv'
      BY <1>0, <1>3, <2>0, RaisedAppend DEF FailureInv, Raised1
    <2> QED BY <2>1, <2>3, <2>4 DEF IInv
  <1> QED BY <1>4, <1>5

\* A call is refused: its caller gets the exception, and no line is written.
LEMMA RefuseStep == ASSUME IInv, NEW c \in Capabilities, Refuse(c) PROVE IInv'
  <1>0. /\ TypeOK /\ LogInv /\ lines' = lines /\ frames' = frames /\ broker' = broker
        /\ raising' = "error" /\ raising = None /\ calls' \in Nat /\ Executor
        /\ lines' \in Seq(LineType) /\ frames' \in Seq(Capabilities)
        /\ threshold' \in [Repositories -> 0 .. Debug]
    BY DEF IInv, TypeOK, Refuse, Callable, logging
  <1>1. LogInv'
    BY <1>0, SameLog
  <1>2. /\ TypeOK' /\ SessionInv' /\ LevelIsOwn' /\ BrokerScoped' /\ FailureReported'
    BY <1>0, ExecutorStep
  <1>3. FailureInv'
    BY <1>0 DEF IInv, FailureInv, Executor
  <1> QED BY <1>1, <1>2, <1>3 DEF IInv

\* An exception is caught below the outermost execution.
LEMMA CatchStep == ASSUME IInv, Catch PROVE IInv'
  <1>0. /\ TypeOK /\ LogInv /\ lines' = lines /\ frames' = frames /\ broker' = broker
        /\ raising' = None /\ frames # <<>> /\ calls' \in Nat /\ Executor
        /\ lines' \in Seq(LineType) /\ frames' \in Seq(Capabilities)
        /\ threshold' \in [Repositories -> 0 .. Debug]
    BY DEF IInv, TypeOK, Catch, logging
  <1>1. LogInv'
    BY <1>0, SameLog
  <1>2. /\ TypeOK' /\ SessionInv' /\ LevelIsOwn' /\ BrokerScoped' /\ FailureReported'
    BY <1>0, ExecutorStep
  <1>3. FailureInv'
    BY <1>0 DEF IInv, FailureInv, Executor
  <1> QED BY <1>1, <1>2, <1>3 DEF IInv

\* An execution ends, with a result or with an exception.
LEMMA EndStep ==
    ASSUME IInv, Executor, frames # <<>>, NEW e \in {"done", "raised"},
           NEW l \in 0 .. Debug, NEW t \in Texts \cup {None},
           Emit(e, Top, Depth, l, t), frames' = Pop,
           raising' \in {"error", "interrupt", None}, e = "raised" => raising' # None,
           calls' = calls
    PROVE  IInv'
  <1>0. /\ TypeOK /\ LogInv /\ Depth \in Nat /\ Top \in Capabilities
        /\ e \in ExecutorEvents /\ frames' \in Seq(Capabilities) /\ calls' \in Nat
        /\ Len(frames') = Depth - 1 /\ pc = "run"
    BY Popped DEF IInv, TypeOK, Depth, ExecutorEvents, Executor
  <1>1. /\ threshold' \in [Repositories -> 0 .. Debug] /\ broker' = broker
        /\ Top \notin SideEffecting => lines' = lines
        /\ Top \in SideEffecting =>
             \E n \in LineType :
                /\ lines' = Append(lines, n) /\ n.event = e /\ n.cap = Top
                /\ n.depth = Depth /\ n.repo = Repository
    BY <1>0, EmitEffect
  <1>3. ~ Raised1(lines)
    BY <1>0 DEF IInv, FailureInv, Raised1
  <1>4. CASE Top \notin SideEffecting
    <2>1. LogInv'
      BY <1>0, <1>1, <1>4, SilentEnd
    <2>2. lines' = lines /\ lines' \in Seq(LineType)
      BY <1>0, <1>1, <1>4 DEF TypeOK
    <2>3. /\ TypeOK' /\ SessionInv' /\ LevelIsOwn' /\ BrokerScoped' /\ FailureReported'
      BY <1>0, <1>1, <2>2, ExecutorStep
    <2>4. FailureInv'
      BY <1>3, <2>2 DEF FailureInv, Raised1
    <2> QED BY <2>1, <2>3, <2>4 DEF IInv
  <1>5. CASE Top \in SideEffecting
    <2>0. PICK n \in LineType :
             /\ lines' = Append(lines, n) /\ n.event = e /\ n.cap = Top
             /\ n.depth = Depth /\ n.repo = Repository
      BY <1>1, <1>5
    <2>1. LogInv'
      BY <1>0, <1>5, <2>0, LoudEnd
    <2>2. lines' \in Seq(LineType)
      BY <1>0, <2>0 DEF TypeOK
    <2>3. /\ TypeOK' /\ SessionInv' /\ LevelIsOwn' /\ BrokerScoped' /\ FailureReported'
      BY <1>0, <1>1, <2>0, <2>2, ExecutorStep
    <2>4. FailureInv'
      <3>1. SUFFICES ASSUME Raised1(lines') PROVE raising' # None /\ frames' = <<>>
        BY DEF FailureInv, Raised1
      <3>2. e = "raised" /\ Depth = 1
        BY <1>0, <1>3, <2>0, <3>1, RaisedAppend
      <3>3. frames' = <<>>
        BY <1>0, <3>2, EmptySeq
      <3> QED BY <3>2, <3>3
    <2> QED BY <2>1, <2>3, <2>4 DEF IInv
  <1> QED BY <1>4, <1>5

\* A capability returns.
LEMMA ReturnStep == ASSUME IInv, Return PROVE IInv'
  <1>1. Info \in 0 .. Debug /\ SuccessText(Top) \in Texts \cup {None}
    BY TextTypes DEF IInv, Info, Debug
  <1>2. /\ Executor /\ frames # <<>> /\ Emit("done", Top, Depth, Info, SuccessText(Top))
        /\ frames' = Pop /\ raising' \in {"error", "interrupt", None} /\ calls' = calls
    BY DEF Return
  <1> QED BY <1>1, <1>2, EndStep

\* A capability raises, or lets an exception pass.
LEMMA ExceptStep == ASSUME IInv, NEW x \in {"error", "interrupt"}, Except(x) PROVE IInv'
  <1>1. Debug \in 0 .. Debug /\ ExceptionText(Top, x) \in Texts \cup {None}
    BY TextTypes DEF IInv, Debug
  <1>2. /\ Executor /\ frames # <<>> /\ Emit("raised", Top, Depth, Debug, ExceptionText(Top, x))
        /\ frames' = Pop /\ raising' \in {"error", "interrupt", None} /\ calls' = calls
        /\ raising' # None
    BY ExecutionAssumption DEF Except
  <1> QED BY <1>1, <1>2, EndStep

\* The session ends as its outermost execution did.
LEMMA FinishStep == ASSUME IInv, Finish PROVE IInv'
  <1>0. /\ pc = "run" /\ frames = <<>> /\ frames' = frames /\ lines' = lines /\ pc' = "idle"
        /\ session' = "none" /\ raising' = None /\ broker' = None
        /\ exit' = CASE raising = None -> "done"
                     [] raising = "error" -> "failed"
                     [] OTHER -> "interrupted"
    BY DEF Finish, Close
  <1>1. TypeOK'
    <2>1. "en" \in Languages
      BY ExecutionAssumption
    <2>2. [i \in 1 .. Len(Commands) |-> "no"]
            \in [1 .. Len(Commands) -> {"yes", "no", "raises"}]
      OBVIOUS
    <2>3. exit' \in {"done", "failed", "interrupted", None}
      BY <1>0
    <2> QED BY <1>0, <2>1, <2>2, <2>3 DEF IInv, TypeOK, Finish, Forget
  <1>2. SessionInv'
    BY <1>0 DEF SessionInv
  <1>3. LevelIsOwn' /\ BrokerScoped'
    BY <1>0 DEF LevelIsOwn, BrokerScoped
  <1>4. FailureInv'
    BY <1>0 DEF FailureInv
  <1>5. FailureReported'
    <2>1. exit' = "done" => raising = None
      BY <1>0
    <2> QED BY <1>0, <2>1 DEF IInv, FailureInv, FailureReported
  <1>6. LogInv'
    BY <1>0, SameLog DEF IInv
  <1> QED BY <1>1, <1>2, <1>3, <1>4, <1>5, <1>6 DEF IInv

-----------------------------------------------------------------------------
(* Theorems.                                                               *)

\* Init satisfies the inductive invariant.
LEMMA InitInv == ASSUME Init PROVE IInv
  <1> USE DEF Init
  <1>1. TypeOK
    <2>1. "en" \in Languages
      BY ExecutionAssumption
    <2>2. [i \in 1 .. Len(Commands) |-> "no"]
            \in [1 .. Len(Commands) -> {"yes", "no", "raises"}]
      OBVIOUS
    <2>3. threshold \in [Repositories -> 0 .. Debug]
      BY DEF Notice, Debug
    <2> QED BY <2>1, <2>2, <2>3 DEF TypeOK
  <1>2. SessionInv /\ LevelIsOwn /\ BrokerScoped
    BY DEF SessionInv, LevelIsOwn, BrokerScoped
  <1>3. FailureInv /\ FailureReported
    BY DEF FailureInv, FailureReported
  <1>4. StartedInv /\ FramesInv /\ Balanced
    BY DEF StartedInv, FramesInv, Depth, Balanced
  <1> QED BY <1>1, <1>2, <1>3, <1>4 DEF IInv, LogInv

\* Every step of the process preserves it.
LEMMA NextInv == ASSUME IInv, [Next]_vars PROVE IInv'
  <1>1. CASE UNCHANGED vars
    <2>0. /\ TypeOK' = TypeOK /\ SessionInv' = SessionInv /\ LevelIsOwn' = LevelIsOwn
          /\ BrokerScoped' = BrokerScoped /\ FailureInv' = FailureInv
          /\ FailureReported' = FailureReported /\ UNCHANGED <<lines, frames>>
      BY <1>1 DEF vars, request, logging, work, TypeOK, SessionInv, Quiet, LevelIsOwn,
                  BrokerScoped, FailureInv, FailureReported
    <2>1. LogInv'
      BY <2>0, SameLog DEF IInv
    <2> QED BY <2>0, <2>1 DEF IInv
  <1>2. CASE \E c \in Capabilities : Call(c) \/ Refuse(c)
    BY <1>2, CallStep, RefuseStep
  <1>3. CASE \E x \in {"error", "interrupt"} : Except(x)
    BY <1>3, ExceptStep
  <1>4. CASE Main \/ BadLevel \/ HealthCheck \/ Route \/ Bind \/ Program
    BY <1>4, MainStep, BadLevelStep, HealthCheckStep, RouteStep, BindStep, ProgramStep
  <1>5. CASE Return \/ Catch \/ Finish
    BY <1>5, ReturnStep, CatchStep, FinishStep
  <1> QED BY <1>1, <1>2, <1>3, <1>4, <1>5 DEF Next

\* The invariant holds in every reachable state.
THEOREM ExecutionInvariant == Spec => []IInv
  <1>1. Init => IInv
    BY InitInv
  <1>2. IInv /\ [Next]_vars => IInv'
    BY NextInv
  <1> QED BY <1>1, <1>2, PTL DEF Spec

\* The executor's log is bracketed, however deep capabilities call each other, whichever
\* of them raise, catch or are interrupted, and however often the process is used.
THEOREM LogBalanced == Spec => []Balanced
  <1>1. IInv => Balanced
    BY DEF IInv, LogInv
  <1> QED BY <1>1, ExecutionInvariant, PTL

\* A session whose command let an exception of a capability escape does not end well.
THEOREM FailuresReported == Spec => []FailureReported
  <1>1. IInv => FailureReported
    BY DEF IInv
  <1> QED BY <1>1, ExecutionInvariant, PTL

\* The broker never outlives main, and a program's lines never reach main's logger.
THEOREM BrokerIsScoped == Spec => []BrokerScoped
  <1>1. IInv => BrokerScoped
    BY DEF IInv
  <1> QED BY <1>1, ExecutionInvariant, PTL

\* A command sees the level of its own command line, and it is not saved.
THEOREM LevelsAreOwn == Spec => []LevelIsOwn
  <1>1. IInv => LevelIsOwn
    BY DEF IInv
  <1> QED BY <1>1, ExecutionInvariant, PTL
=============================================================================
