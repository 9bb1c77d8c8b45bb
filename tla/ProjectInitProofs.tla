--------------------------- MODULE ProjectInitProofs ---------------------------
(***************************************************************************)
(* Theorems about ontobdc init for every tree of directories and every     *)
(* number of processes: the types, that a reported success is true of the  *)
(* files, and of a command that nothing interferes with, that it loses     *)
(* nothing, fails only for a reason, and leaves a root that can be found.  *)
(***************************************************************************)
EXTENDS ProjectInit, WellFoundedInduction, TLAPS

-----------------------------------------------------------------------------
(* The files' types.                                                       *)

\* The file system before the first init is well-formed.
LEMMA NoDiskType == EmptyConfig \in Configs /\ NoDisk \in Disks
  BY DEF EmptyConfig, NoDisk, Configs, Disks, Values, Indexes, Contexts

\* Each config.yaml hotfix returns a configuration.
LEMMA CompletedType ==
    ASSUME NEW c \in Configs, NEW s, NEW d \in Dirs
    PROVE  Completed(s, c, d) \in Configs
  <1>1. EngineHotfix(c) \in Configs
    BY DEF EngineHotfix, Or, Configs, Values
  <1>2. ConfigFileHotfix(c, d) \in Configs
    BY DEF ConfigFileHotfix, Or, Configs, Values
  <1>3. BrandHotfix(c) \in Configs
    BY DEF BrandHotfix, Or, Configs, Values
  <1> QED BY <1>1, <1>2, <1>3 DEF Completed

\* Changing one file of a directory leaves a well-formed directory.
LEMMA FileType ==
    ASSUME NEW f \in Disks
    PROVE  /\ \A c \in Contexts : [f EXCEPT !.context = c] \in Disks
           /\ \A c \in Configs : [f EXCEPT !.config = c] \in Disks
           /\ [f EXCEPT !.dir = TRUE] \in Disks
           /\ f.context \in Contexts /\ f.config \in Configs
  BY DEF Disks

\* Opening and writing a file leave well-formed files.
LEMMA WrittenType ==
    ASSUME NEW f \in Disks, NEW c \in Configs, NEW s
    PROVE  Truncated(s, f) \in Disks /\ Written(s, f, c) \in Disks
  <1>1. Truncated(s, f) \in Disks
    BY NoDiskType DEF Truncated, Disks, Indexes, Contexts
  <1>2. Written(s, f, c) \in Disks
    BY DEF Written, Disks, Indexes, Contexts
  <1> QED BY <1>1, <1>2

\* What the owner makes of a configuration is a configuration.
LEMMA EditedType ==
    ASSUME NEW c \in Configs
    PROVE  EditedConfigs(c) \subseteq Configs
  <1>1. \A k \in BrandKeys, v \in {"no", "custom"} : [c EXCEPT !.brand[k] = v] \in Configs
    BY DEF Configs, Values
  <1>2. UNION {{[c EXCEPT !.brand[k] = v] : v \in {"no", "custom"}} : k \in BrandKeys}
            \subseteq Configs
    <2>1. \A k \in BrandKeys : {[c EXCEPT !.brand[k] = v] : v \in {"no", "custom"}} \subseteq Configs
      BY <1>1
    <2> DEFINE S(k) == {[c EXCEPT !.brand[k] = v] : v \in {"no", "custom"}}
    <2>2. \A k \in BrandKeys : S(k) \subseteq Configs
      BY <2>1
    <2>3. UNION {S(k) : k \in BrandKeys} \subseteq Configs
      <3> HIDE DEF S
      <3> QED BY <2>2, Zenon
    <2> QED BY <2>3
  <1>3. [c EXCEPT !.kind = "broken"] \in Configs /\ [c EXCEPT !.other = TRUE] \in Configs
    BY DEF Configs
  <1>4. /\ \A v \in {"no", "custom"} : [c EXCEPT !.engine = v] \in Configs
        /\ \A v \in {"no", "blank"} \cup Dirs : [c EXCEPT !.path = v] \in Configs
    BY DEF Configs, Values
  <1> QED BY <1>2, <1>3, <1>4 DEF EditedConfigs

-----------------------------------------------------------------------------
(* The root's type.                                                        *)

\* A nonempty set of numbers has a least one.
LEMMA LeastNumber ==
    ASSUME NEW T \in SUBSET Nat, T # {}
    PROVE  \E i \in T : \A j \in T : i <= j
  <1> DEFINE R == {ss \in Nat \X Nat : ss[1] < ss[2]}
  <1>1. IsWellFoundedOn(R, Nat)
    BY NatLessThanWellFounded DEF OpToRel
  <1>2. \E i \in T : \A j \in T : ~(<<j, i>> \in R)
    <2> HIDE DEF R
    <2> QED BY <1>1, WFMin
  <1>3. \A i, j \in Nat : ~(<<j, i>> \in R) => i <= j
    OBVIOUS
  <1>4. PICK i \in T : \A j \in T : ~(<<j, i>> \in R)
    BY <1>2
  <1>5. \A j \in T : i <= j
    <2> HIDE DEF R
    <2> QED BY <1>3, <1>4
  <1> QED BY <1>5

\* The search along a path ends at a directory of that path or at none.
LEMMA NearestType ==
    ASSUME NEW d \in Dirs, NEW ds
    PROVE  Nearest(d, ds) \in Dirs \cup {None}
  <1> DEFINE hits == {i \in 1 .. Len(Above[d]) : Above[d][i] \in ds}
  <1>1. Above[d] \in Seq(Dirs)
    BY InitAssumption
  <1>2. ASSUME hits # {}
        PROVE  \E i \in hits : \A j \in hits : i <= j
    <2>1. hits \in SUBSET Nat
      BY <1>1
    <2> HIDE DEF hits
    <2> QED BY <1>2, <2>1, LeastNumber
  <1>3. ASSUME hits # {}
        PROVE  (CHOOSE i \in hits : \A j \in hits : i <= j) \in 1 .. Len(Above[d])
    <2>1. (CHOOSE i \in hits : \A j \in hits : i <= j) \in hits
      <3> HIDE DEF hits
      <3> QED BY <1>2, <1>3
    <2> QED BY <2>1
  <1>4. CASE hits = {}
    BY <1>4 DEF Nearest
  <1>5. CASE hits # {}
    <2> DEFINE k == CHOOSE i \in hits : \A j \in hits : i <= j
    <2>1. Nearest(d, ds) = Above[d][k]
      BY <1>5 DEF Nearest
    <2>2. k \in 1 .. Len(Above[d])
      BY <1>3, <1>5
    <2> HIDE DEF k
    <2> QED BY <1>1, <2>1, <2>2
  <1> QED BY <1>4, <1>5

\* A command finds a directory or none as root, and init works on a directory.
LEMMA RootType ==
    ASSUME TypeOK, NEW d \in Dirs, NEW e \in Envs
    PROVE  /\ Root(d, e) \in Dirs \cup {None}
           /\ InitRoot(d, Root(d, e)) \in Dirs
  <1>1. Root(d, e) \in Dirs \cup {None}
    BY NearestType, InitAssumption DEF Root
  <1>2. \A r \in Dirs : disk[r].config.path \in {"no", "blank"} \cup Dirs
    BY DEF TypeOK, Disks, Configs
  <1> QED BY <1>1, <1>2 DEF InitRoot
-----------------------------------------------------------------------------
(* The invariant.                                                          *)

\* p counts checks only while it observes, has a root to load from, and has ended once
\* it reports a success.
CountInv(p) ==
    /\ pc[p] # "observe" => seen[p] = 0
    /\ pc[p] \in {"load", "reload"} => found[p] # None
    /\ outcome[p] = "ok" => pc[p] = "idle"

\* While p observes a root it was the last to write, the checks it has passed hold.
PassedHold(p) ==
    pc[p] = "observe" /\ writer[root[p]] = p =>
        \A i \in 1 .. seen[p] : Checks(disk[root[p]])[i]

\* The conjunct of OkIsReady for p.
OkReady(p) == outcome[p] = "ok" /\ writer[root[p]] = p => Ready(root[p])

Inv == TypeOK /\ \A p \in Procs : CountInv(p) /\ PassedHold(p) /\ OkReady(p)

\* A step of q leaves p's variables alone, and the files of p's root too, unless p is
\* no longer the last to have written them.
Apart(p) ==
    /\ pc'[p] = pc[p] /\ seen'[p] = seen[p] /\ root'[p] = root[p]
    /\ outcome'[p] = outcome[p] /\ found'[p] = found[p]
    /\ writer'[root[p]] = p => writer[root[p]] = p /\ disk'[root[p]] = disk[root[p]]

\* A step that leaves p alone keeps what the invariant says of p.
LEMMA ApartKeeps ==
    ASSUME Inv, NEW p \in Procs, Apart(p)
    PROVE  CountInv(p)' /\ PassedHold(p)' /\ OkReady(p)'
  <1>1. CountInv(p) /\ PassedHold(p) /\ OkReady(p)
    BY DEF Inv
  <1>2. CountInv(p)'
    BY <1>1 DEF CountInv, Apart
  <1>3. PassedHold(p)'
    BY <1>1 DEF PassedHold, Apart
  <1>4. OkReady(p)'
    BY <1>1 DEF OkReady, Ready, Apart
  <1> QED BY <1>2, <1>3, <1>4
-----------------------------------------------------------------------------
(* One lemma for each step of a process.                                   *)

\* A step of q keeps the types, leaves the others alone and keeps what the invariant
\* says of q.
Kept(q) ==
    /\ TypeOK' /\ \A p \in Procs \ {q} : Apart(p)
    /\ CountInv(q)' /\ PassedHold(q)' /\ OkReady(q)'

\* CliContextAdapter's load.
LEMMA LoadKeeps ==
    ASSUME Inv, NEW q \in Procs, Load(q)
    PROVE  Kept(q)
  <1> USE DEF Goto, Report, Forget, End, Put, KeepFiles, KeepHistory, KeepBounds, Contract
  <1>0. TypeOK /\ CountInv(q) /\ PassedHold(q) /\ OkReady(q)
    BY DEF Inv
  <1>a. found[q] \in Dirs /\ disk[found[q]] \in Disks
    BY <1>0 DEF TypeOK, CountInv, Load
  <1>b. [disk[found[q]] EXCEPT !.context = "empty"] \in Disks
    BY <1>a, FileType DEF Contexts
  <1>c. [buffer[q] EXCEPT !.context = disk[found[q]].context] \in Disks
    BY <1>0, <1>a, FileType DEF TypeOK
  <1>1. TypeOK'
    BY <1>0, <1>a, <1>b, <1>c, NoDiskType DEF TypeOK, Load, Running, Last
  <1>2. \A p \in Procs \ {q} : Apart(p)
    BY <1>0 DEF TypeOK, Load, Disks, Contexts, Running, Apart
  <1>3. CountInv(q)' /\ PassedHold(q)' /\ OkReady(q)'
    BY <1>0 DEF TypeOK, Load, Disks, Contexts, Running, CountInv, PassedHold, OkReady
  <1> QED BY <1>1, <1>2, <1>3 DEF Kept

\* The save that follows the load.
LEMMA ReloadKeeps ==
    ASSUME Inv, NEW q \in Procs, Reload(q)
    PROVE  Kept(q)
  <1> USE DEF Goto, Report, Forget, End, Put, KeepFiles, KeepHistory, KeepBounds, Contract
  <1>0. TypeOK /\ CountInv(q) /\ PassedHold(q) /\ OkReady(q)
    BY DEF Inv
  <1>a. found[q] \in Dirs /\ disk[found[q]] \in Disks
    BY <1>0 DEF TypeOK, CountInv, Reload
  <1>b. [disk[found[q]] EXCEPT !.context = buffer[q].context] \in Disks
    BY <1>0, <1>a, FileType DEF TypeOK
  <1>1. TypeOK'
    BY <1>0, <1>a, <1>b, NoDiskType DEF TypeOK, Reload, Running, Last
  <1>2. \A p \in Procs \ {q} : Apart(p)
    BY <1>0 DEF TypeOK, Reload, Disks, Contexts, Running, Apart
  <1>3. CountInv(q)' /\ PassedHold(q)' /\ OkReady(q)'
    BY <1>0 DEF TypeOK, Reload, Disks, Contexts, Running, CountInv, PassedHold, OkReady
  <1> QED BY <1>1, <1>2, <1>3 DEF Kept

\* The start of a transition.
LEMMA PerformKeeps ==
    ASSUME Inv, NEW q \in Procs, Perform(q)
    PROVE  Kept(q)
  <1> USE DEF Goto, Report, Forget, End, Put, KeepFiles, KeepHistory, KeepBounds, Contract
  <1>0. TypeOK /\ CountInv(q) /\ PassedHold(q) /\ OkReady(q)
    BY DEF Inv
  <1>a. [disk[root[q]] EXCEPT !.dir = TRUE] \in Disks
    BY <1>0, FileType DEF TypeOK
  <1>1. TypeOK'
    <2>1. CASE at[q] = 0
      <3>1. /\ disk' = [disk EXCEPT ![root[q]] = [disk[root[q]] EXCEPT !.dir = TRUE]]
            /\ writer' = [writer EXCEPT ![root[q]] = q]
            /\ pc' = [pc EXCEPT ![q] = "observe"] /\ goal' = [goal EXCEPT ![q] = "contract"]
            /\ UNCHANGED <<cwd, env, found, root, at, seen, buffer, outcome, lone, was, runs,
                           faults, edits>>
        BY <2>1 DEF Perform
      <3> QED BY <1>0, <1>a, <3>1 DEF TypeOK, Running
    <2>2. CASE at[q] > 0
      <3>1. \E step \in {"recheck", "hotfix"} : Goto(q, step)
        BY <1>0, <2>2 DEF TypeOK, Perform
      <3>2. UNCHANGED <<disk, cwd, env, found, root, at, goal, seen, buffer, outcome, writer,
                        lone, was, runs, faults, edits>>
        BY <1>0, <2>2 DEF TypeOK, Perform
      <3> QED BY <1>0, <3>1, <3>2 DEF TypeOK, Running
    <2> QED BY <1>0, <2>1, <2>2 DEF TypeOK
  <1>2. \A p \in Procs \ {q} : Apart(p)
    BY <1>0 DEF TypeOK, Perform, Disks, Running, Apart
  <1>3. CountInv(q)' /\ PassedHold(q)' /\ OkReady(q)'
    BY <1>0 DEF TypeOK, Perform, Disks, Running, CountInv, PassedHold, OkReady
  <1> QED BY <1>1, <1>2, <1>3 DEF Kept

\* A hotfix up to the opening of its file.
LEMMA HotfixKeeps ==
    ASSUME Inv, NEW q \in Procs, Hotfix(q)
    PROVE  Kept(q)
  <1> USE DEF Goto, Report, Forget, End, Put, KeepFiles, KeepHistory, KeepBounds, Contract
  <1>0. TypeOK /\ CountInv(q) /\ PassedHold(q) /\ OkReady(q)
    BY DEF Inv
  <1>a. root[q] \in Dirs /\ disk[root[q]] \in Disks
    BY <1>0 DEF TypeOK
  <1>b. [disk[root[q]] EXCEPT !.dir = TRUE] \in Disks
    BY <1>a, FileType
  <1>c. [buffer[q] EXCEPT !.config = Completed(at[q] + 1, disk[root[q]].config, root[q])] \in Disks
    BY <1>0, <1>a, FileType, CompletedType DEF TypeOK
  <1>1. TypeOK'
    BY <1>0, <1>a, <1>b, <1>c, NoDiskType DEF TypeOK, Hotfix, Running, Last
  <1>2. \A p \in Procs \ {q} : Apart(p)
    BY <1>0 DEF TypeOK, Hotfix, Disks, Running, Apart
  <1>3. CountInv(q)' /\ PassedHold(q)' /\ OkReady(q)'
    BY <1>0 DEF TypeOK, Hotfix, Disks, Running, CountInv, PassedHold, OkReady
  <1> QED BY <1>1, <1>2, <1>3 DEF Kept

\* The opening of a file.
LEMMA TruncateKeeps ==
    ASSUME Inv, NEW q \in Procs, Truncate(q)
    PROVE  Kept(q)
  <1> USE DEF Goto, Report, Forget, End, Put, KeepFiles, KeepHistory, KeepBounds, Contract
  <1>0. TypeOK /\ CountInv(q) /\ PassedHold(q) /\ OkReady(q)
    BY DEF Inv
  <1>a. root[q] \in Dirs /\ disk[root[q]] \in Disks
    BY <1>0 DEF TypeOK
  <1>b. Truncated(at[q] + 1, disk[root[q]]) \in Disks
    BY <1>a, WrittenType, NoDiskType
  <1>1. TypeOK'
    BY <1>0, <1>a, <1>b, NoDiskType DEF TypeOK, Truncate, Running, Last
  <1>2. \A p \in Procs \ {q} : Apart(p)
    BY <1>0 DEF TypeOK, Truncate, Running, Apart
  <1>3. CountInv(q)' /\ PassedHold(q)' /\ OkReady(q)'
    BY <1>0 DEF TypeOK, Truncate, Running, CountInv, PassedHold, OkReady
  <1> QED BY <1>1, <1>2, <1>3 DEF Kept

\* The write of a file.
LEMMA WriteKeeps ==
    ASSUME Inv, NEW q \in Procs, Write(q)
    PROVE  Kept(q)
  <1> USE DEF Goto, Report, Forget, End, Put, KeepFiles, KeepHistory, KeepBounds, Contract
  <1>0. TypeOK /\ CountInv(q) /\ PassedHold(q) /\ OkReady(q)
    BY DEF Inv
  <1>a. root[q] \in Dirs /\ disk[root[q]] \in Disks /\ buffer[q].config \in Configs
    BY <1>0, FileType DEF TypeOK
  <1>b. Written(at[q] + 1, disk[root[q]], buffer[q].config) \in Disks
    BY <1>a, WrittenType
  <1>1. TypeOK'
    BY <1>0, <1>a, <1>b, NoDiskType DEF TypeOK, Write, Running, Last
  <1>2. \A p \in Procs \ {q} : Apart(p)
    BY <1>0 DEF TypeOK, Write, Running, Apart
  <1>3. CountInv(q)' /\ PassedHold(q)' /\ OkReady(q)'
    BY <1>0 DEF TypeOK, Write, Running, CountInv, PassedHold, OkReady
  <1> QED BY <1>1, <1>2, <1>3 DEF Kept

\* A capability's second check.
LEMMA RecheckKeeps ==
    ASSUME Inv, NEW q \in Procs, Recheck(q)
    PROVE  Kept(q)
  <1> USE DEF Goto, Report, Forget, End, Put, KeepFiles, KeepHistory, KeepBounds, Contract
  <1>0. TypeOK /\ CountInv(q) /\ PassedHold(q) /\ OkReady(q)
    BY DEF Inv
  <1>1. TypeOK'
    BY <1>0, NoDiskType DEF TypeOK, Recheck, Running, Last
  <1>2. \A p \in Procs \ {q} : Apart(p)
    BY <1>0 DEF TypeOK, Recheck, Running, Apart
  <1>3. CountInv(q)' /\ PassedHold(q)' /\ OkReady(q)'
    BY <1>0 DEF TypeOK, Recheck, Running, CountInv, PassedHold, OkReady
  <1> QED BY <1>1, <1>2, <1>3 DEF Kept

\* A kill, or a write that is refused.
LEMMA KillKeeps ==
    ASSUME Inv, NEW q \in Procs, Kill(q) \/ Refuse(q)
    PROVE  Kept(q)
  <1> USE DEF Goto, Report, Forget, End, Put, KeepFiles, KeepHistory, KeepBounds, Contract
  <1>0. TypeOK /\ CountInv(q) /\ PassedHold(q) /\ OkReady(q)
    BY DEF Inv
  <1>1. TypeOK'
    BY <1>0, NoDiskType DEF TypeOK, Kill, Refuse, Interfere, Running, Last
  <1>2. \A p \in Procs \ {q} : Apart(p)
    BY <1>0 DEF TypeOK, Kill, Refuse, Interfere, Running, Apart
  <1>3. CountInv(q)' /\ PassedHold(q)' /\ OkReady(q)'
    BY <1>0 DEF TypeOK, Kill, Refuse, Interfere, Running, CountInv, PassedHold, OkReady
  <1> QED BY <1>1, <1>2, <1>3 DEF Kept
\* The start of a command.
LEMMA StartKeeps ==
    ASSUME Inv, NEW q \in Procs, NEW d \in Dirs, NEW e \in Envs, Start(q, d, e)
    PROVE  Kept(q)
  <1> USE DEF Goto, Report, Interfere
  <1>0. TypeOK /\ CountInv(q) /\ PassedHold(q) /\ OkReady(q)
    BY DEF Inv
  <1>a. Root(d, e) \in Dirs \cup {None} /\ InitRoot(d, Root(d, e)) \in Dirs
    BY <1>0, RootType
  <1>b. e \in Dirs \cup {None} /\ [x \in Dirs |-> NoDisk] \in [Dirs -> Disks]
    BY InitAssumption, NoDiskType
  <1>1. TypeOK'
    BY <1>0, <1>a, <1>b DEF TypeOK, Start, Running
  <1>2. \A p \in Procs \ {q} : Apart(p)
    BY <1>0, InitAssumption DEF TypeOK, Start, Apart
  <1>3. CountInv(q)' /\ PassedHold(q)' /\ OkReady(q)'
    BY <1>0 DEF TypeOK, Start, CountInv, PassedHold, OkReady
  <1> QED BY <1>1, <1>2, <1>3 DEF Kept

\* One check of an observation.  The last one ends the command with a success only
\* after all the others.
LEMMA ObserveKeeps ==
    ASSUME Inv, NEW q \in Procs, Observe(q)
    PROVE  Kept(q)
  <1> USE DEF Goto, Report, Forget, End, KeepFiles, KeepHistory, KeepBounds
  <1>0. TypeOK /\ CountInv(q) /\ PassedHold(q) /\ OkReady(q)
    BY DEF Inv
  <1>a. /\ pc[q] = "observe"
        /\ UNCHANGED <<cwd, env, found, root, disk, writer, lone, was, runs, faults, edits>>
    BY DEF Observe
  <1>b. \/ /\ ~Fails(q, seen[q]) /\ seen[q] + 1 # Last
           /\ seen' = [seen EXCEPT ![q] = seen[q] + 1]
           /\ UNCHANGED <<pc, at, goal, buffer, outcome>>
        \/ \E s \in 0 .. Last - 1 : Enter(q, s)
        \/ ~Fails(q, seen[q]) /\ seen[q] + 1 = Last /\ Enter(q, Last)
        \/ End(q, "failed")
    BY <1>0 DEF TypeOK, Observe, Last
  <1>1. CASE /\ ~Fails(q, seen[q]) /\ seen[q] + 1 # Last
             /\ seen' = [seen EXCEPT ![q] = seen[q] + 1]
             /\ UNCHANGED <<pc, at, goal, buffer, outcome>>
    <2>1. TypeOK'
      BY <1>0, <1>a, <1>1 DEF TypeOK, Last
    <2>2. \A p \in Procs \ {q} : Apart(p)
      BY <1>0, <1>a, <1>1 DEF TypeOK, Apart
    <2>3. CountInv(q)' /\ PassedHold(q)' /\ OkReady(q)'
      BY <1>0, <1>a, <1>1 DEF TypeOK, Fails, CountInv, PassedHold, OkReady
    <2> QED BY <2>1, <2>2, <2>3 DEF Kept
  <1>2. ASSUME NEW s \in 0 .. Last - 1, Enter(q, s)
        PROVE  Kept(q)
    <2>1. TypeOK'
      BY <1>0, <1>a, <1>2 DEF TypeOK, Enter, Last, Running
    <2>2. \A p \in Procs \ {q} : Apart(p)
      BY <1>0, <1>a, <1>2 DEF TypeOK, Apart, Enter, Last
    <2>3. CountInv(q)' /\ PassedHold(q)' /\ OkReady(q)'
      BY <1>0, <1>a, <1>2 DEF TypeOK, Enter, Last, CountInv, PassedHold, OkReady
    <2> QED BY <2>1, <2>2, <2>3 DEF Kept
  <1>3. CASE ~Fails(q, seen[q]) /\ seen[q] + 1 = Last /\ Enter(q, Last)
    <2>1. TypeOK'
      BY <1>0, <1>a, <1>3, NoDiskType DEF TypeOK, Enter, Last
    <2>2. \A p \in Procs \ {q} : Apart(p)
      BY <1>0, <1>a, <1>3 DEF TypeOK, Apart, Enter
    <2>3. CountInv(q)' /\ PassedHold(q)'
      BY <1>0, <1>a, <1>3 DEF TypeOK, Enter, CountInv, PassedHold
    <2>4. OkReady(q)'
      BY <1>0, <1>a, <1>3 DEF TypeOK, Fails, PassedHold, OkReady, Ready, Last
    <2> QED BY <2>1, <2>2, <2>3, <2>4 DEF Kept
  <1>4. CASE End(q, "failed")
    <2>1. TypeOK'
      BY <1>0, <1>a, <1>4, NoDiskType DEF TypeOK, Last
    <2>2. \A p \in Procs \ {q} : Apart(p)
      BY <1>0, <1>a, <1>4 DEF TypeOK, Apart
    <2>3. CountInv(q)' /\ PassedHold(q)' /\ OkReady(q)'
      BY <1>0, <1>a, <1>4 DEF TypeOK, CountInv, PassedHold, OkReady
    <2> QED BY <2>1, <2>2, <2>3 DEF Kept
  <1> QED BY <1>b, <1>1, <1>2, <1>3, <1>4

\* A change by the owner or by another command.
LEMMA EditKeeps ==
    ASSUME Inv, NEW d \in Dirs, Edit(d)
    PROVE  TypeOK' /\ \A p \in Procs : Apart(p)
  <1>0. TypeOK
    BY DEF Inv
  <1>1. PICK f \in Disks : disk' = [disk EXCEPT ![d] = f]
    <2> DEFINE g == disk[d]
    <2>1. g \in Disks /\ g.config \in Configs
      BY <1>0, FileType DEF TypeOK
    <2>2. /\ \A c \in EditedConfigs(g.config) : [g EXCEPT !.config = c] \in Disks
          /\ \A i \in {"broken", "empty", "used"} : [g EXCEPT !.index = i] \in Disks
          /\ \A c \in {"broken", "empty", "used", "bare"} : [g EXCEPT !.context = c] \in Disks
      <3>1. \A c \in EditedConfigs(g.config) : c \in Configs
        BY <2>1, EditedType
      <3>2. \A c \in Configs : [g EXCEPT !.config = c] \in Disks
        BY <2>1, FileType
      <3>3. \A i \in {"broken", "empty", "used"} : [g EXCEPT !.index = i] \in Disks
        BY <2>1 DEF Disks, Indexes
      <3>4. \A c \in {"broken", "empty", "used", "bare"} : [g EXCEPT !.context = c] \in Disks
        BY <2>1, FileType DEF Contexts
      <3> QED BY <3>1, <3>2, <3>3, <3>4
    <2>3. \/ \E c \in EditedConfigs(g.config) : disk' = [disk EXCEPT ![d] = [g EXCEPT !.config = c]]
          \/ \E i \in {"broken", "empty", "used"} : disk' = [disk EXCEPT ![d] = [g EXCEPT !.index = i]]
          \/ \E c \in {"broken", "empty", "used", "bare"} :
               disk' = [disk EXCEPT ![d] = [g EXCEPT !.context = c]]
          \/ disk' = [disk EXCEPT ![d] = NoDisk]
      BY <1>0 DEF TypeOK, Edit
    <2> QED BY <2>2, <2>3, NoDiskType
  <1>2. /\ writer' = [writer EXCEPT ![d] = None] /\ lone' = None
        /\ was' = [x \in Dirs |-> NoDisk] /\ edits' = edits + 1
        /\ UNCHANGED <<process, runs, faults>>
    BY DEF Edit, Interfere
  <1>3. TypeOK'
    BY <1>0, <1>1, <1>2, NoDiskType DEF TypeOK, process
  <1>4. \A p \in Procs : Apart(p)
    BY <1>0, <1>1, <1>2, InitAssumption DEF TypeOK, process, Apart
  <1> QED BY <1>3, <1>4

\* A project that is moved or cloned.
LEMMA RelocateKeeps ==
    ASSUME Inv, NEW d \in Dirs, NEW e \in Dirs, Relocate(d, e)
    PROVE  TypeOK' /\ \A p \in Procs : Apart(p)
  <1>0. TypeOK /\ d # e
    BY DEF Inv, Relocate
  <1>1. PICK f \in Disks : disk' = [disk EXCEPT ![e] = disk[d], ![d] = f]
    BY <1>0, NoDiskType DEF TypeOK, Relocate
  <1>2. /\ writer' = [writer EXCEPT ![d] = None, ![e] = None] /\ lone' = None
        /\ was' = [x \in Dirs |-> NoDisk] /\ edits' = edits + 1
        /\ UNCHANGED <<process, runs, faults>>
    BY DEF Relocate, Interfere
  <1>3. /\ disk' \in [Dirs -> Disks] /\ writer' \in [Dirs -> Procs \cup {None}]
        /\ writer'[d] = None /\ writer'[e] = None
        /\ \A x \in Dirs \ {d, e} : disk'[x] = disk[x] /\ writer'[x] = writer[x]
    <2>1. disk' \in [Dirs -> Disks] /\ \A x \in Dirs \ {d, e} : disk'[x] = disk[x]
      BY <1>0, <1>1 DEF TypeOK
    <2>2. /\ writer' \in [Dirs -> Procs \cup {None}] /\ writer'[d] = None /\ writer'[e] = None
          /\ \A x \in Dirs \ {d, e} : writer'[x] = writer[x]
      BY <1>0, <1>2 DEF TypeOK
    <2> QED BY <2>1, <2>2
  <1>4. TypeOK'
    BY <1>0, <1>2, <1>3, NoDiskType DEF TypeOK, process
  <1>5. ASSUME NEW p \in Procs
        PROVE  Apart(p)
    <2>1. root[p] \in Dirs /\ p # None
      BY <1>0, InitAssumption DEF TypeOK
    <2>2. UNCHANGED <<pc, seen, root, outcome, found>>
      BY <1>2 DEF process
    <2>3. writer'[root[p]] = p => writer[root[p]] = p /\ disk'[root[p]] = disk[root[p]]
      BY <1>3, <2>1
    <2> QED BY <2>2, <2>3 DEF Apart
  <1> QED BY <1>4, <1>5

-----------------------------------------------------------------------------
(* The theorems.                                                           *)

\* The invariant holds at first and is kept by every step.
LEMMA InvHolds == Spec => []Inv
  <1>1. Init => Inv
    <2> SUFFICES ASSUME Init PROVE Inv
      OBVIOUS
    <2>1. (CHOOSE d \in Dirs : TRUE) \in Dirs
      BY InitAssumption
    <2>2. TypeOK
      BY <2>1, NoDiskType DEF Init, TypeOK, Running, Last
    <2>3. \A p \in Procs : CountInv(p) /\ PassedHold(p) /\ OkReady(p)
      BY DEF Init, CountInv, PassedHold, OkReady
    <2> QED BY <2>2, <2>3 DEF Inv
  <1>2. Inv /\ [Next]_vars => Inv'
    <2> SUFFICES ASSUME Inv, [Next]_vars PROVE Inv'
      OBVIOUS
    <2>1. ASSUME NEW q \in Procs, Kept(q)
          PROVE  Inv'
      BY <2>1, ApartKeeps DEF Kept, Inv
    <2>2. ASSUME NEW q \in Procs, Step(q) \/ Kill(q) \/ Refuse(q)
          PROVE  Inv'
      <3>1. Kept(q)
        BY <2>2, LoadKeeps, ReloadKeeps, ObserveKeeps, PerformKeeps, HotfixKeeps,
           TruncateKeeps, WriteKeeps, RecheckKeeps, KillKeeps DEF Step
      <3> QED BY <3>1, <2>1
    <2>3. ASSUME NEW q \in Procs, NEW d \in Dirs, NEW e \in Envs, Start(q, d, e)
          PROVE  Inv'
      BY <2>1, <2>3, StartKeeps
    <2>4. ASSUME NEW d \in Dirs, Edit(d)
          PROVE  Inv'
      BY <2>4, EditKeeps, ApartKeeps DEF Inv
    <2>5. ASSUME NEW d \in Dirs, NEW e \in Dirs, Relocate(d, e)
          PROVE  Inv'
      BY <2>5, RelocateKeeps, ApartKeeps DEF Inv
    <2>6. CASE UNCHANGED vars
      <3>1. TypeOK'
        BY <2>6 DEF Inv, TypeOK, vars, process, history
      <3>2. \A p \in Procs : Apart(p)
        BY <2>6 DEF Apart, vars, process, history
      <3> QED BY <3>1, <3>2, ApartKeeps DEF Inv
    <2> QED BY <2>2, <2>3, <2>4, <2>5, <2>6 DEF Next, Done
  <1> QED BY <1>1, <1>2, PTL DEF Spec

\* TypeOK for every tree of directories and every number of processes.
THEOREM TypeCorrect == Spec => []TypeOK
  <1>1. Inv => TypeOK
    BY DEF Inv
  <1> QED BY <1>1, InvHolds, PTL

\* OkIsReady: init's success is true of the files it wrote last, for every number of
\* init commands, kills, refused writes and edits.  It rests on PassedHold: a file that
\* no one else has written since keeps the checks that the observation has passed.
THEOREM SuccessIsTrue == Spec => []OkIsReady
  <1>1. Inv => OkIsReady
    BY DEF Inv, OkReady, OkIsReady
  <1> QED BY <1>1, InvHolds, PTL
-----------------------------------------------------------------------------
(* A command that nothing interferes with: what it keeps, when it fails,   *)
(* and what it leaves for the next one.                                    *)

ProjectsOf(files) == {d \in Dirs : files[d].config.kind # "absent"}

\* A config.yaml that is not there has no path.
Plain(f) == f.config.kind = "absent" => f.config.path = "no"

\* What NothingLost wants of the root d; and its configuration is not made worse.
Preserved(d, old, new) ==
    /\ old.config.kind = new.config.kind \/ old.config.kind = "absent"
    /\ new.config.kind \in {old.config.kind, "map"}
    /\ old.config.engine # "no" => new.config.engine = old.config.engine
    /\ old.config.path \in Dirs => new.config.path = old.config.path
    /\ new.config.path \in {old.config.path, d}
    /\ \A k \in BrandKeys :
         old.config.brand[k] # "no" => new.config.brand[k] = old.config.brand[k]
    /\ new.config.other = old.config.other
    /\ old.index \in {"fresh", "used"} => new.index = old.index
    /\ old.context \in {"fresh", "used"} => new.context = old.context

\* What d is once p has written the file that it has truncated.
Settled(p, d) ==
    CASE pc[p] = "reload" /\ d = found[p] -> [disk[d] EXCEPT !.context = buffer[p].context]
      [] pc[p] = "write" /\ d = root[p] -> Written(at[p] + 1, disk[d], buffer[p].config)
      [] OTHER -> disk[d]

\* The checks that p has passed, or made good, up to where it is.
Known(p) ==
    CASE pc[p] = "observe" /\ goal[p] = "initial" -> seen[p]
      [] pc[p] = "observe" /\ goal[p] = "contract" -> at[p] + 1
      [] pc[p] \in {"write", "recheck"} -> at[p] + 1
      [] pc[p] \in {"perform", "hotfix", "truncate"} -> at[p]
      [] pc[p] = "idle" /\ outcome[p] = "ok" -> Last
      [] OTHER -> 0

\* Holds of everyone: there is nothing in a directory that is not there, brand_ready is
\* no state to stay in, and only an observation that follows a transition is a contract.
Everyone ==
    /\ \A d \in Dirs : (disk[d].dir \/ disk[d] = NoDisk) /\ Plain(disk[d]) /\ Plain(was[d])
    /\ \A p \in Procs : /\ Plain(buffer[p]) /\ at[p] < Last
                        /\ pc[p] \in {"idle", "load", "reload"} => goal[p] = "initial"

\* What p relies on where it is.
Stage(p) ==
    /\ pc[p] = "load" => disk = was
    /\ pc[p] = "reload" => disk[found[p]].dir
    /\ pc[p] \in {"hotfix", "truncate"} => at[p] > 0 /\ ~Checks(disk[root[p]])[at[p] + 1]
    /\ pc[p] \in {"truncate", "write"} => disk[root[p]].dir
    /\ pc[p] = "truncate" /\ at[p] \notin {2, 3} =>
         /\ disk[root[p]].config.kind # "broken"
         /\ buffer[p].config = Completed(at[p] + 1, disk[root[p]].config, root[p])

\* x is the nearest project's root, or d itself, and its own path is not that of another.
OwnRoot(d, x, files) ==
    /\ \/ x = d
       \/ x = Nearest(d, ProjectsOf(files)) /\ x \in ProjectsOf(files)
    /\ files[x].config.path \in {"no", "blank", x}

\* The nearest project is another, with x as its path.
StoredRoot(d, x, files) ==
    LET r == Nearest(d, ProjectsOf(files)) IN
    r \in ProjectsOf(files) /\ r # x /\ files[r].config.path = x

\* How the root was found.
Placed(p) ==
    /\ found[p] = None => was[root[p]].config.kind = "absent"
    /\ env[p] = None /\ (pc[p] # "idle" \/ outcome[p] = "ok") =>
         OwnRoot(cwd[p], root[p], was) \/ StoredRoot(cwd[p], root[p], was)

\* Only the root differs from what the command started from, and nothing is lost there.
Intact(p) ==
    /\ \A d \in Dirs \ {root[p]} : Settled(p, d) = was[d]
    /\ Preserved(root[p], was[root[p]], Settled(p, root[p]))

Passed(p) == \A i \in 1 .. Known(p) : Checks(Settled(p, root[p]))[i]

\* The reasons of Repairs, and a root that another program's config.yaml gave.
Excused(p) ==
    /\ found[p] # None
    /\ \/ was[found[p]].config.kind = "broken" \/ was[found[p]].context = "broken"
       \/ env[p] = found[p] /\ was[found[p]].config.kind = "absent"
       \/ was[root[p]].config.kind = "broken"
       \/ found[p] \in Foreign

Ended(p) ==
    /\ pc[p] # "idle" => outcome[p] = "none"
    /\ pc[p] = "idle" /\ outcome[p] = "failed" => Excused(p)

Undisturbed(p) ==
    /\ \A q \in Procs \ {p} : pc[q] = "idle"
    /\ Stage(p) /\ Placed(p) /\ Intact(p) /\ Passed(p) /\ Ended(p)

LoneInv == Everyone /\ \A p \in Procs : lone = p => Undisturbed(p)

-----------------------------------------------------------------------------
(* The search for the root.                                                *)

\* The least of a set of numbers is the one that CHOOSE finds.
LEMMA ChosenLeast ==
    ASSUME NEW d \in Dirs, NEW ds,
           NEW i \in 1 .. Len(Above[d]), Above[d][i] \in ds
    PROVE  LET hits == {j \in 1 .. Len(Above[d]) : Above[d][j] \in ds}
               k == CHOOSE j \in hits : \A m \in hits : j <= m
           IN  k \in hits /\ k <= i /\ Nearest(d, ds) = Above[d][k]
  <1> DEFINE hits == {j \in 1 .. Len(Above[d]) : Above[d][j] \in ds}
             k == CHOOSE j \in hits : \A m \in hits : j <= m
  <1>1. i \in hits /\ hits \in SUBSET Nat
    BY InitAssumption
  <1>2. k \in hits /\ \A m \in hits : k <= m
    <2> HIDE DEF hits
    <2>1. \E j \in hits : \A m \in hits : j <= m
      BY <1>1, LeastNumber
    <2> QED BY <2>1
  <1>3. Nearest(d, ds) = Above[d][k]
    BY <1>1 DEF Nearest
  <1> QED BY <1>1, <1>2, <1>3

\* The search ends on the path and in the set that it looks for, at the directory
\* itself when that is in the set, and at none only when no directory of the path is.
LEMMA NearestIs ==
    ASSUME NEW d \in Dirs, NEW ds
    PROVE  /\ Nearest(d, ds) # None =>
                /\ Nearest(d, ds) \in ds
                /\ \E i \in 1 .. Len(Above[d]) : Above[d][i] = Nearest(d, ds)
           /\ d \in ds => Nearest(d, ds) = d
           /\ Nearest(d, ds) = None => \A i \in 1 .. Len(Above[d]) : Above[d][i] \notin ds
  <1>0. Above[d] \in Seq(Dirs) /\ Above[d] # <<>> /\ Above[d][1] = d
    BY InitAssumption
  <1>1. 1 \in 1 .. Len(Above[d])
    BY <1>0
  <1> DEFINE hits == {j \in 1 .. Len(Above[d]) : Above[d][j] \in ds}
             k == CHOOSE j \in hits : \A m \in hits : j <= m
  <1>2. ASSUME NEW i \in 1 .. Len(Above[d]), Above[d][i] \in ds
        PROVE  k \in hits /\ k <= i /\ Nearest(d, ds) = Above[d][k]
    BY <1>2, ChosenLeast
  <1>3. ASSUME Nearest(d, ds) # None
        PROVE  /\ Nearest(d, ds) \in ds
               /\ \E i \in 1 .. Len(Above[d]) : Above[d][i] = Nearest(d, ds)
    <2>1. PICK i \in 1 .. Len(Above[d]) : Above[d][i] \in ds
      BY <1>3 DEF Nearest
    <2>2. k \in hits /\ Nearest(d, ds) = Above[d][k]
      BY <1>2, <2>1
    <2> HIDE DEF k
    <2> QED BY <2>2
  <1>4. ASSUME d \in ds PROVE Nearest(d, ds) = d
    <2>1. Above[d][1] \in ds
      BY <1>0, <1>4
    <2>2. k \in hits /\ k <= 1 /\ Nearest(d, ds) = Above[d][k]
      BY <1>1, <1>2, <2>1
    <2>3. k = 1
      BY <1>0, <2>2
    <2> QED BY <1>0, <2>2, <2>3
  <1>5. ASSUME NEW i \in 1 .. Len(Above[d]), Above[d][i] \in ds
        PROVE  Nearest(d, ds) # None
    <2>1. PICK m \in 1 .. Len(Above[d]) : Nearest(d, ds) = Above[d][m]
      <3>1. k \in hits /\ Nearest(d, ds) = Above[d][k]
        BY <1>2, <1>5
      <3> HIDE DEF k
      <3> QED BY <3>1
    <2>2. Above[d][m] \in Dirs
      BY <1>0
    <2> QED BY <2>1, <2>2, InitAssumption
  <1> QED BY <1>3, <1>4, <1>5

\* One directory more, and the search ends there or where it did.
LEMMA NearestWithOne ==
    ASSUME NEW d \in Dirs, NEW ds, NEW x, Nearest(d, ds) # None
    PROVE  Nearest(d, ds \cup {x}) \in {Nearest(d, ds), x}
  <1> DEFINE hits == {j \in 1 .. Len(Above[d]) : Above[d][j] \in ds}
             k == CHOOSE j \in hits : \A m \in hits : j <= m
             more == {j \in 1 .. Len(Above[d]) : Above[d][j] \in ds \cup {x}}
             l == CHOOSE j \in more : \A m \in more : j <= m
  <1>0. Len(Above[d]) \in Nat
    BY InitAssumption
  <1>1. PICK i \in 1 .. Len(Above[d]) : Above[d][i] \in ds
    BY NearestIs
  <1>2. k \in hits /\ Nearest(d, ds) = Above[d][k]
    BY <1>1, ChosenLeast
  <1>3. k \in 1 .. Len(Above[d]) /\ Above[d][k] \in ds
    BY <1>2
  <1>4. l \in more /\ Nearest(d, ds \cup {x}) = Above[d][l] /\ l <= k
    <2>1. Above[d][k] \in ds \cup {x}
      BY <1>3
    <2> HIDE DEF k
    <2> QED BY <1>3, <2>1, ChosenLeast
  <1>5. l \in 1 .. Len(Above[d]) /\ (Above[d][l] \in ds \/ Above[d][l] = x)
    BY <1>4
  <1>6. CASE Above[d][l] \in ds
    <2>1. k <= l
      <3> HIDE DEF l
      <3> QED BY <1>5, <1>6, ChosenLeast
    <2>2. k = l
      <3> HIDE DEF k, l
      <3> QED BY <1>0, <1>3, <1>4, <1>5, <2>1
    <2> HIDE DEF k, l
    <2> QED BY <1>2, <1>4, <2>2
  <1>7. CASE Above[d][l] = x
    <2> HIDE DEF l
    <2> QED BY <1>4, <1>7
  <1> QED BY <1>5, <1>6, <1>7

-----------------------------------------------------------------------------
(* What the hotfixes do to a directory.                                    *)

\* Nothing is lost where nothing changes, nor in two steps that lose nothing.
LEMMA PreservedSame ==
    ASSUME NEW d, NEW f
    PROVE  Preserved(d, f, f)
  BY DEF Preserved

LEMMA PreservedTwice ==
    ASSUME NEW d, NEW f \in Disks, NEW g \in Disks, NEW h \in Disks,
           Preserved(d, f, g), Preserved(d, g, h)
    PROVE  Preserved(d, f, h)
  BY DEF Preserved, Disks, Configs

\* The checks by name.
LEMMA CheckNames ==
    ASSUME NEW f
    PROVE  /\ (Checks(f)[1] <=> f.dir)
           /\ (Checks(f)[2] <=> EngineValid(f))
           /\ (Checks(f)[3] <=> RootSet(f))
           /\ (Checks(f)[4] <=> ContextValid(f))
           /\ (Checks(f)[5] <=> ConfigFileValid(f))
           /\ (Checks(f)[6] <=> BrandValid(f))
  BY DEF Checks

\* Making the directory loses nothing and undoes no check.
LEMMA MadeDirectory ==
    ASSUME NEW d, NEW f \in Disks
    PROVE  LET g == [f EXCEPT !.dir = TRUE] IN
           /\ Preserved(d, f, g) /\ Checks(g)[1]
           /\ \A i \in 1 .. Last : Checks(f)[i] => Checks(g)[i]
           /\ \A i \in 2 .. Last : Checks(g)[i] => Checks(f)[i]
  <1> DEFINE g == [f EXCEPT !.dir = TRUE]
  <1>1. g.dir /\ g.config = f.config /\ g.index = f.index /\ g.context = f.context
    BY DEF Disks
  <1>2. Preserved(d, f, g)
    BY <1>1 DEF Preserved
  <1>3. /\ EngineValid(g) = EngineValid(f) /\ RootSet(g) = RootSet(f)
        /\ ContextValid(g) = ContextValid(f) /\ ConfigFileValid(g) = ConfigFileValid(f)
        /\ BrandValid(g) = BrandValid(f)
    BY <1>1 DEF EngineValid, RootSet, ContextValid, ConfigFileValid, BrandValid
  <1> HIDE DEF g
  <1>4. Checks(g)[1]
    BY <1>1 DEF Checks
  <1>5. \A i \in 1 .. Last : Checks(f)[i] => Checks(g)[i]
    <2>1. \A i \in 2 .. Last : Checks(f)[i] => Checks(g)[i]
      BY <1>3 DEF Checks, Last
    <2> QED BY <1>4, <2>1 DEF Last
  <1>6. \A i \in 2 .. Last : Checks(g)[i] => Checks(f)[i]
    BY <1>1, <1>3 DEF Checks, Last
  <1> QED BY <1>2, <1>4, <1>5, <1>6 DEF g
\* The hotfix of the state after s, from the opening of its file to its write, makes that
\* state's check good, undoes none before it and loses nothing: an index or a context is
\* replaced only when its check has failed, and a configuration is completed.
LEMMA HotfixWorks ==
    ASSUME NEW d \in Dirs, NEW f \in Disks, NEW s \in 1 .. 5, NEW c \in Configs,
           f.dir, Plain(f), ~Checks(f)[s + 1],
           s \notin {2, 3} => f.config.kind # "broken" /\ c = Completed(s + 1, f.config, d)
    PROVE  LET g == Written(s + 1, Truncated(s + 1, f), c) IN
           /\ Preserved(d, f, g)
           /\ (\A i \in 1 .. s : Checks(f)[i]) => \A i \in 1 .. s + 1 : Checks(g)[i]
  <1> DEFINE g == Written(s + 1, Truncated(s + 1, f), c)
  <1>0. f.config \in Configs
    BY FileType
  <1>1. CASE s = 2
    <2>0. Truncated(s + 1, f) = [f EXCEPT !.index = "empty"]
      BY <1>1 DEF Truncated
    <2>a. [f EXCEPT !.index = "empty"].dir
      BY DEF Disks
    <2>1. g = [f EXCEPT !.index = "fresh"]
      BY <1>1, <2>0, <2>a DEF Written, Disks
    <2>2. g.dir = f.dir /\ g.config = f.config /\ g.index = "fresh" /\ g.context = f.context
      BY <2>1 DEF Disks
    <2> HIDE DEF g
    <2>3. ~RootSet(f)
      BY <1>1, CheckNames
    <2>4. Preserved(d, f, g)
      BY <2>2, <2>3 DEF Preserved, RootSet
    <2>5. ASSUME \A i \in 1 .. 2 : Checks(f)[i]
          PROVE  \A i \in 1 .. 3 : Checks(g)[i]
      <3>1. g.dir /\ EngineValid(g) /\ RootSet(g)
        BY <2>2, <2>5, CheckNames DEF EngineValid, RootSet
      <3> QED BY <3>1, CheckNames
    <2> QED BY <1>1, <2>4, <2>5 DEF g
  <1>2. CASE s = 3
    <2>0. Truncated(s + 1, f) = [f EXCEPT !.context = "empty"]
      BY <1>2 DEF Truncated
    <2>a. [f EXCEPT !.context = "empty"].dir
      BY DEF Disks
    <2>1. g = [f EXCEPT !.context = "fresh"]
      BY <1>2, <2>0, <2>a DEF Written, Disks
    <2>2. g.dir = f.dir /\ g.config = f.config /\ g.index = f.index /\ g.context = "fresh"
      BY <2>1 DEF Disks
    <2> HIDE DEF g
    <2>3. ~ContextValid(f)
      BY <1>2, CheckNames
    <2>4. Preserved(d, f, g)
      BY <2>2, <2>3 DEF Preserved, ContextValid
    <2>5. ASSUME \A i \in 1 .. 3 : Checks(f)[i]
          PROVE  \A i \in 1 .. 4 : Checks(g)[i]
      <3>1. g.dir /\ EngineValid(g) /\ RootSet(g) /\ ContextValid(g)
        BY <2>2, <2>5, CheckNames DEF EngineValid, RootSet, ContextValid
      <3> QED BY <3>1, CheckNames
    <2> QED BY <1>2, <2>4, <2>5 DEF g
  <1>3. CASE s \in {1, 4, 5}
    <2>0. Truncated(s + 1, f) = [f EXCEPT !.config = EmptyConfig]
      BY <1>3 DEF Truncated
    <2>a. [f EXCEPT !.config = EmptyConfig].dir
      BY DEF Disks
    <2>1. g = [f EXCEPT !.config = c]
      BY <1>3, <2>0, <2>a DEF Written, Disks
    <2>2. g.dir = f.dir /\ g.config = c /\ g.index = f.index /\ g.context = f.context
      BY <2>1 DEF Disks
    <2> HIDE DEF g
    <2>3. f.config \in Configs /\ f.config.kind \in {"absent", "map"}
      BY <1>0, <1>3 DEF Configs
    <2>b. /\ s = 1 => c = EngineHotfix(f.config)
          /\ s = 4 => c = ConfigFileHotfix(f.config, d)
          /\ s = 5 => c = BrandHotfix(f.config)
      BY <1>3 DEF Completed
    <2>4. /\ c.kind = "map" /\ c.other = f.config.other
          /\ f.config.engine # "no" => c.engine = f.config.engine
          /\ f.config.path \in Dirs => c.path = f.config.path
          /\ c.path \in {f.config.path, d}
          /\ \A k \in BrandKeys :
               f.config.brand[k] # "no" => c.brand[k] = f.config.brand[k]
      <3>1. CASE s = 1
        BY <3>1, <2>3, <2>b DEF EngineHotfix, Or, Configs
      <3>2. CASE s = 4
        <4>1. ~ConfigFileValid(f)
          BY <3>2, CheckNames
        <4>2. f.config.path \in {"no", "blank"}
          BY <2>3, <4>1 DEF ConfigFileValid, Plain, EmptyConfig
        <4>3. f.config.path \notin Dirs
          BY <4>2, InitAssumption
        <4> QED BY <3>2, <2>3, <2>b, <4>3 DEF ConfigFileHotfix, Or, Configs
      <3>3. CASE s = 5
        <4>1. /\ c.kind = "map" /\ c.other = f.config.other /\ c.path = f.config.path
              /\ c.engine = f.config.engine
          BY <3>3, <2>3, <2>b DEF BrandHotfix, Configs
        <4>2. c.brand = [k \in BrandKeys |-> Or(f.config.brand[k], "default")]
          BY <3>3, <2>3, <2>b DEF BrandHotfix, Configs
        <4> QED BY <4>1, <4>2 DEF Or
      <3> QED BY <1>3, <3>1, <3>2, <3>3
    <2>5. Preserved(d, f, g)
      BY <2>2, <2>3, <2>4 DEF Preserved
    <2>6. ASSUME s = 1, \A i \in 1 .. 1 : Checks(f)[i]
          PROVE  \A i \in 1 .. 2 : Checks(g)[i]
      <3>1. g.dir /\ EngineValid(g)
        BY <2>2, <2>3, <2>6, <2>b, CheckNames DEF EngineValid, EngineHotfix, Or, Configs
      <3> QED BY <3>1, CheckNames
    <2>7. ASSUME s = 4, \A i \in 1 .. 4 : Checks(f)[i]
          PROVE  \A i \in 1 .. 5 : Checks(g)[i]
      <3>1. EngineValid(f) /\ RootSet(f) /\ ContextValid(f)
        BY <2>7, CheckNames
      <3>2. g.dir /\ EngineValid(g) /\ RootSet(g) /\ ContextValid(g)
        BY <2>2, <2>4, <3>1 DEF EngineValid, RootSet, ContextValid
      <3>3. c.path = d /\ d \notin {"no", "blank"}
        BY <2>3, <2>7, <2>b, InitAssumption DEF ConfigFileHotfix, Configs
      <3>4. ConfigFileValid(g)
        BY <2>2, <2>4, <3>3 DEF ConfigFileValid, EmptyConfig
      <3> QED BY <3>2, <3>4, CheckNames
    <2>8. ASSUME s = 5, \A i \in 1 .. 5 : Checks(f)[i]
          PROVE  \A i \in 1 .. 6 : Checks(g)[i]
      <3>1. EngineValid(f) /\ RootSet(f) /\ ContextValid(f) /\ ConfigFileValid(f)
        BY <2>8, CheckNames
      <3>2. g.dir /\ EngineValid(g) /\ RootSet(g) /\ ContextValid(g)
        BY <2>2, <2>4, <3>1 DEF EngineValid, RootSet, ContextValid
      <3>3. \A k \in BrandKeys : c.brand[k] # "no"
        <4>1. c.brand = [k \in BrandKeys |-> Or(f.config.brand[k], "default")]
          BY <2>3, <2>8, <2>b DEF BrandHotfix, Configs
        <4> QED BY <4>1 DEF Or
      <3>4. c # EmptyConfig
        BY <3>3, InitAssumption DEF EmptyConfig
      <3>5. c.path # "blank"
        BY <2>4, <3>1, InitAssumption DEF ConfigFileValid
      <3>6. ConfigFileValid(g) /\ BrandValid(g)
        BY <2>2, <2>4, <3>3, <3>4, <3>5 DEF ConfigFileValid, BrandValid
      <3> QED BY <3>2, <3>6, CheckNames
    <2> QED BY <1>3, <2>5, <2>6, <2>7, <2>8 DEF g
  <1> QED BY <1>1, <1>2, <1>3
-----------------------------------------------------------------------------
(* One lemma for each step of the lone command.                            *)

\* What a step of p finds, and that it changes no one else.
Working(p) ==
    /\ Inv /\ LoneInv /\ lone = p /\ p \in Procs
    /\ pc[p] # "idle"

\* What the step must leave.
Going(p) ==
    /\ Stage(p)' /\ Placed(p)' /\ Intact(p)' /\ Passed(p)' /\ Ended(p)'

\* CliContextAdapter's load: the context it truncates is the one that it will save.
LEMMA LoadGoes ==
    ASSUME NEW p, Working(p), Load(p)
    PROVE  Going(p)
  <1> USE DEF Goto, Report, Forget, End, Put, KeepFiles, KeepHistory, KeepBounds
  <1>0. TypeOK /\ CountInv(p) /\ Everyone /\ Undisturbed(p) /\ p \in Procs
    BY DEF Working, Inv, LoneInv
  <1>a. /\ pc[p] = "load" /\ disk = was /\ goal[p] = "initial"
        /\ found[p] \in Dirs /\ disk[found[p]] \in Disks /\ seen[p] = 0
        /\ UNCHANGED <<cwd, env, found, root, lone, was>>
    BY <1>0 DEF TypeOK, CountInv, Everyone, Undisturbed, Stage, Load
  <1>b. \A d \in Dirs : Settled(p, d) = disk[d]
    BY <1>a DEF Settled
  <1>1. CASE disk[found[p]].context = "broken"
    <2>1. /\ pc' = [pc EXCEPT ![p] = "idle"] /\ outcome' = [outcome EXCEPT ![p] = "failed"]
          /\ disk' = disk
      BY <1>1 DEF Load
    <2>2. Stage(p)'
      BY <1>0, <2>1 DEF TypeOK, Stage
    <2>3. Placed(p)'
      BY <1>0, <1>a, <2>1 DEF TypeOK, Undisturbed, Placed
    <2>4. Intact(p)'
      BY <1>0, <1>a, <1>b, <2>1, PreservedSame DEF TypeOK, Intact, Settled
    <2>5. Passed(p)'
      BY <1>0, <2>1 DEF TypeOK, Passed, Known
    <2>6. Ended(p)'
      BY <1>0, <1>1, <1>a, <2>1, InitAssumption DEF TypeOK, Ended, Excused
    <2> QED BY <2>2, <2>3, <2>4, <2>5, <2>6 DEF Going
  <1>2. CASE disk[found[p]].context \in {"absent", "empty"}
    <2>1. pc' = [pc EXCEPT ![p] = "observe"] /\ UNCHANGED <<disk, at, goal, seen, buffer, outcome>>
      BY <1>2 DEF Load
    <2>2. Stage(p)'
      BY <1>0, <2>1 DEF TypeOK, Undisturbed, Stage, Last
    <2>3. Placed(p)'
      BY <1>0, <1>a, <2>1 DEF TypeOK, Undisturbed, Placed
    <2>4. Intact(p)'
      BY <1>0, <1>a, <1>b, <2>1, PreservedSame DEF TypeOK, Intact, Settled
    <2>5. Passed(p)'
      BY <1>0, <1>a, <2>1 DEF TypeOK, Passed, Known
    <2>6. Ended(p)'
      BY <1>0, <1>a, <2>1 DEF TypeOK, Undisturbed, Ended
    <2> QED BY <2>2, <2>3, <2>4, <2>5, <2>6 DEF Going
  <1>3. CASE disk[found[p]].context \in {"bare", "fresh", "used"}
    <2> DEFINE f == disk[found[p]]
    <2>1. /\ pc' = [pc EXCEPT ![p] = "reload"] /\ UNCHANGED <<at, goal, seen, outcome>>
          /\ buffer' = [buffer EXCEPT ![p].context = f.context]
          /\ disk' = [disk EXCEPT ![found[p]] = [f EXCEPT !.context = "empty"]]
      BY <1>3 DEF Load
    <2>a. f.dir
      BY <1>0, <1>3, <1>a DEF Everyone, NoDisk
    <2>b. buffer'[p].context = f.context
      BY <1>0, <2>1 DEF TypeOK, Disks
    <2>c. [[f EXCEPT !.context = "empty"] EXCEPT !.context = f.context] = f
      BY <1>a DEF Disks
    <2>2. Stage(p)'
      BY <1>0, <1>a, <2>1, <2>a DEF TypeOK, Stage, Disks
    <2>3. Placed(p)'
      BY <1>0, <1>a, <2>1 DEF TypeOK, Undisturbed, Placed
    <2>d. \A d \in Dirs : Settled(p, d)' = was[d]
      BY <1>0, <1>a, <2>1, <2>b, <2>c DEF TypeOK, Settled
    <2>4. Intact(p)'
      BY <1>0, <1>a, <2>d, PreservedSame DEF TypeOK, Intact
    <2>5. Passed(p)'
      BY <1>0, <2>1 DEF TypeOK, Passed, Known
    <2>6. Ended(p)'
      BY <1>0, <1>a, <2>1 DEF TypeOK, Undisturbed, Ended
    <2> QED BY <2>2, <2>3, <2>4, <2>5, <2>6 DEF Going
  <1> QED BY <1>1, <1>2, <1>3 DEF Load

\* The save that follows: the context is back.
LEMMA ReloadGoes ==
    ASSUME NEW p, Working(p), Reload(p)
    PROVE  Going(p)
  <1> USE DEF Goto, Put, KeepHistory, KeepBounds
  <1>0. TypeOK /\ CountInv(p) /\ Everyone /\ Undisturbed(p) /\ p \in Procs
    BY DEF Working, Inv, LoneInv
  <1>a. /\ pc[p] = "reload" /\ disk[found[p]].dir /\ goal[p] = "initial"
        /\ found[p] \in Dirs /\ disk[found[p]] \in Disks /\ seen[p] = 0
        /\ UNCHANGED <<cwd, env, found, root, lone, was, at, goal, seen, outcome>>
    BY <1>0 DEF TypeOK, CountInv, Everyone, Undisturbed, Stage, Reload
  <1>1. /\ pc' = [pc EXCEPT ![p] = "observe"]
        /\ disk' = [disk EXCEPT ![found[p]] =
                      [disk[found[p]] EXCEPT !.context = buffer[p].context]]
    BY <1>a DEF Reload
  <1>2. \A d \in Dirs : Settled(p, d)' = Settled(p, d)
    BY <1>0, <1>1, <1>a DEF TypeOK, Settled
  <1>3. Intact(p)'
    BY <1>0, <1>2, <1>a DEF TypeOK, Undisturbed, Intact
  <1>4. Stage(p)' /\ Placed(p)' /\ Ended(p)'
    BY <1>0, <1>1, <1>a DEF TypeOK, Undisturbed, Stage, Placed, Ended, Last
  <1>5. Passed(p)'
    BY <1>0, <1>1, <1>a DEF TypeOK, Passed, Known
  <1> QED BY <1>3, <1>4, <1>5 DEF Going
\* A step of p that leaves the files alone, with no write pending before or after it,
\* keeps them intact.
LEMMA SameFiles ==
    ASSUME NEW p, Working(p), UNCHANGED <<disk, was, root>>,
           {pc[p], pc'[p]} \cap {"reload", "write"} = {}
    PROVE  /\ Intact(p)'
           /\ Settled(p, root[p]) = disk[root[p]] /\ Settled(p, root[p])' = disk[root[p]]
  <1>0. TypeOK /\ Undisturbed(p) /\ p \in Procs
    BY DEF Working, Inv, LoneInv
  <1>1. \A d \in Dirs : Settled(p, d) = disk[d] /\ Settled(p, d)' = disk[d]
    BY <1>0 DEF TypeOK, Settled
  <1> QED BY <1>0, <1>1 DEF TypeOK, Undisturbed, Intact

\* One check of an observation.  The contract that follows a transition cannot fail: the
\* checks up to the target's hold, so that the first that fails is a later one.
LEMMA ObserveGoes ==
    ASSUME NEW p, Working(p), Observe(p)
    PROVE  Going(p)
  <1> USE DEF Goto, Report, Forget, End, KeepFiles, KeepHistory, KeepBounds
  <1>0. TypeOK /\ CountInv(p) /\ Everyone /\ Undisturbed(p) /\ p \in Procs
    BY DEF Working, Inv, LoneInv
  <1>a. /\ pc[p] = "observe" /\ at[p] \in 0 .. Last - 1 /\ seen[p] \in 0 .. Last - 1
        /\ goal[p] \in {"initial", "contract"}
        /\ UNCHANGED <<cwd, env, found, root, lone, was, disk>>
    BY <1>0 DEF TypeOK, Everyone, Observe, Last
  <1>b. /\ goal[p] = "initial" => \A i \in 1 .. seen[p] : Checks(disk[root[p]])[i]
        /\ goal[p] = "contract" => \A i \in 1 .. at[p] + 1 : Checks(disk[root[p]])[i]
    BY <1>0, <1>a DEF TypeOK, Undisturbed, Passed, Known, Settled
  <1>c. Placed(p) /\ Ended(p)
    BY <1>0 DEF Undisturbed
  <1>1. CASE /\ ~Fails(p, seen[p]) /\ seen[p] + 1 # Last
             /\ seen' = [seen EXCEPT ![p] = seen[p] + 1]
             /\ UNCHANGED <<pc, at, goal, buffer, outcome>>
    <2>1. Stage(p)' /\ Placed(p)' /\ Ended(p)'
      BY <1>0, <1>1, <1>a DEF TypeOK, Undisturbed, Stage, Placed, Ended, Excused
    <2>2. Intact(p)' /\ Settled(p, root[p])' = disk[root[p]]
      BY <1>1, <1>a, SameFiles
    <2>3. Known(p)' = IF goal[p] = "initial" THEN seen[p] + 1 ELSE at[p] + 1
      BY <1>0, <1>1, <1>a DEF TypeOK, Known
    <2>4. \A i \in 1 .. Known(p)' : Checks(disk[root[p]])[i]
      BY <1>1, <1>a, <1>b, <2>3 DEF Fails
    <2>5. Passed(p)'
      BY <1>a, <2>2, <2>4 DEF Passed
    <2> QED BY <2>1, <2>2, <2>5 DEF Going
  <1>2. ASSUME NEW s \in 0 .. Last - 1, Enter(p, s), \A i \in 1 .. s : Checks(disk[root[p]])[i]
        PROVE  Going(p)
    <2>0. /\ pc' = [pc EXCEPT ![p] = "perform"] /\ at' = [at EXCEPT ![p] = s]
          /\ UNCHANGED <<goal, buffer, outcome>>
      BY <1>2 DEF Enter, Last
    <2>p. pc'[p] = "perform" /\ at'[p] = s
      BY <1>0, <2>0 DEF TypeOK
    <2>1. Stage(p)' /\ Placed(p)' /\ Ended(p)'
      BY <1>0, <1>a, <1>c, <2>0, <2>p DEF TypeOK, Stage, Placed, Ended
    <2>2. Intact(p)' /\ Settled(p, root[p])' = disk[root[p]]
      BY <1>a, <2>p, SameFiles
    <2>3. Known(p)' = s
      BY <2>p DEF Known
    <2>4. Passed(p)'
      BY <1>2, <1>a, <2>2, <2>3 DEF Passed
    <2> QED BY <2>1, <2>2, <2>4 DEF Going
  <1>3. ASSUME Enter(p, Last), \A i \in 1 .. Last : Checks(disk[root[p]])[i]
        PROVE  Going(p)
    <2>0. pc' = [pc EXCEPT ![p] = "idle"] /\ outcome' = [outcome EXCEPT ![p] = "ok"]
      BY <1>3 DEF Enter
    <2>p. pc'[p] = "idle" /\ outcome'[p] = "ok"
      BY <1>0, <2>0 DEF TypeOK
    <2>1. Stage(p)' /\ Placed(p)' /\ Ended(p)'
      BY <1>a, <1>c, <2>p DEF Stage, Placed, Ended
    <2>2. Intact(p)' /\ Settled(p, root[p])' = disk[root[p]]
      BY <1>a, <2>p, SameFiles
    <2>3. Known(p)' = Last
      BY <2>p DEF Known
    <2>4. Passed(p)'
      BY <1>3, <1>a, <2>2, <2>3 DEF Passed
    <2> QED BY <2>1, <2>2, <2>4 DEF Going
  <1>4. \/ /\ ~Fails(p, seen[p]) /\ seen[p] + 1 # Last
           /\ seen' = [seen EXCEPT ![p] = seen[p] + 1]
           /\ UNCHANGED <<pc, at, goal, buffer, outcome>>
        \/ goal[p] = "initial" /\ Fails(p, seen[p]) /\ Enter(p, seen[p])
        \/ goal[p] = "initial" /\ ~Fails(p, seen[p]) /\ seen[p] + 1 = Last /\ Enter(p, Last)
        \/ goal[p] = "contract" /\ Enter(p, at[p] + 1)
        \/ goal[p] = "contract" /\ Fails(p, seen[p]) /\ seen[p] <= at[p]
    BY <1>a DEF Observe, Last
  <1>5. ASSUME goal[p] = "initial", Fails(p, seen[p]), Enter(p, seen[p])
        PROVE  Going(p)
    BY <1>2, <1>5, <1>a, <1>b
  <1>6. ASSUME goal[p] = "initial", ~Fails(p, seen[p]), seen[p] + 1 = Last, Enter(p, Last)
        PROVE  Going(p)
    <2>1. \A i \in 1 .. Last : Checks(disk[root[p]])[i]
      BY <1>6, <1>a, <1>b DEF Fails
    <2> QED BY <1>3, <1>6, <2>1
  <1>7. ASSUME goal[p] = "contract", Enter(p, at[p] + 1)
        PROVE  Going(p)
    <2>1. CASE at[p] + 1 = Last
      BY <1>3, <1>7, <1>b, <2>1
    <2>2. CASE at[p] + 1 # Last
      <3>1. at[p] + 1 \in 0 .. Last - 1
        BY <1>a, <2>2 DEF Last
      <3> QED BY <1>2, <1>7, <1>b, <3>1
    <2> QED BY <2>1, <2>2
  <1>8. ~(goal[p] = "contract" /\ Fails(p, seen[p]) /\ seen[p] <= at[p])
    BY <1>a, <1>b DEF Fails, Last
  <1> QED BY <1>1, <1>4, <1>5, <1>6, <1>7, <1>8

\* The start of a transition.
LEMMA PerformGoes ==
    ASSUME NEW p, Working(p), Perform(p)
    PROVE  Going(p)
  <1> USE DEF Goto, Put, KeepFiles, KeepHistory, KeepBounds, Contract
  <1>0. TypeOK /\ CountInv(p) /\ Everyone /\ Undisturbed(p) /\ p \in Procs
    BY DEF Working, Inv, LoneInv
  <1>a. /\ pc[p] = "perform" /\ at[p] \in 0 .. Last - 1
        /\ root[p] \in Dirs /\ disk[root[p]] \in Disks
        /\ UNCHANGED <<cwd, env, found, root, lone, was, at, seen, buffer, outcome>>
    BY <1>0 DEF TypeOK, Everyone, Perform, Last
  <1>b. \A i \in 1 .. at[p] : Checks(disk[root[p]])[i]
    BY <1>0, <1>a DEF TypeOK, Undisturbed, Passed, Known, Settled
  <1>c. Placed(p) /\ Ended(p)
    BY <1>0 DEF Undisturbed
  <1>1. CASE at[p] = 0
    <2> DEFINE g == [disk[root[p]] EXCEPT !.dir = TRUE]
    <2>0. /\ disk' = [disk EXCEPT ![root[p]] = g]
          /\ pc' = [pc EXCEPT ![p] = "observe"] /\ goal' = [goal EXCEPT ![p] = "contract"]
      BY <1>1 DEF Perform
    <2>g. Preserved(root[p], disk[root[p]], g) /\ Checks(g)[1] /\ g \in Disks
      BY <1>a, MadeDirectory, FileType
    <2> HIDE DEF g
    <2>p. pc'[p] = "observe" /\ goal'[p] = "contract"
      BY <1>0, <2>0 DEF TypeOK
    <2>1. Stage(p)' /\ Placed(p)' /\ Ended(p)'
      BY <1>a, <1>c, <2>p DEF Stage, Placed, Ended
    <2>2. /\ \A d \in Dirs : Settled(p, d) = disk[d] /\ Settled(p, d)' = disk'[d]
          /\ disk'[root[p]] = g /\ \A d \in Dirs \ {root[p]} : disk'[d] = disk[d]
      BY <1>0, <1>a, <2>0, <2>p DEF TypeOK, Settled
    <2>3. Preserved(root[p], was[root[p]], g)
      <3>1. Preserved(root[p], was[root[p]], disk[root[p]]) /\ was[root[p]] \in Disks
        BY <1>0, <1>a, <2>2 DEF TypeOK, Undisturbed, Intact
      <3> QED BY <1>a, <2>g, <3>1, PreservedTwice
    <2>4. Intact(p)'
      BY <1>0, <1>a, <2>2, <2>3 DEF Undisturbed, Intact
    <2>5. Known(p)' = 1
      BY <1>1, <1>a, <2>p DEF Known
    <2>6. Passed(p)'
      BY <1>a, <2>2, <2>5, <2>g DEF Passed
    <2> QED BY <2>1, <2>4, <2>6 DEF Going
  <1>2. CASE at[p] > 0
    <2>0. /\ pc' = [pc EXCEPT ![p] =
                      IF Checks(disk[root[p]])[at[p] + 1] THEN "recheck" ELSE "hotfix"]
          /\ UNCHANGED <<disk, goal>>
      BY <1>2, <1>a DEF Perform
    <2>p. pc'[p] = IF Checks(disk[root[p]])[at[p] + 1] THEN "recheck" ELSE "hotfix"
      BY <1>0, <2>0 DEF TypeOK
    <2>1. Stage(p)' /\ Placed(p)' /\ Ended(p)'
      BY <1>2, <1>a, <1>c, <2>0, <2>p DEF Stage, Placed, Ended
    <2>2. Intact(p)' /\ Settled(p, root[p])' = disk[root[p]]
      BY <1>a, <2>0, <2>p, SameFiles
    <2>3. Known(p)' = IF Checks(disk[root[p]])[at[p] + 1] THEN at[p] + 1 ELSE at[p]
      BY <1>a, <2>p DEF Known
    <2>4. \A i \in 1 .. Known(p)' : Checks(disk[root[p]])[i]
      BY <1>a, <1>b, <2>3
    <2>5. Passed(p)'
      BY <1>a, <2>2, <2>4 DEF Passed
    <2> QED BY <2>1, <2>2, <2>5 DEF Going
  <1> QED BY <1>1, <1>2, <1>a
\* A hotfix up to the opening of its file.  It fails only on a configuration that was
\* broken when the command started.
LEMMA HotfixGoes ==
    ASSUME NEW p, Working(p), Hotfix(p)
    PROVE  Going(p)
  <1> USE DEF Goto, Report, Forget, End, Put, KeepHistory, KeepBounds
  <1>0. TypeOK /\ CountInv(p) /\ Everyone /\ Undisturbed(p) /\ p \in Procs
    BY DEF Working, Inv, LoneInv
  <1> DEFINE f == disk[root[p]]
             g == [f EXCEPT !.dir = TRUE]
  <1>a. /\ pc[p] = "hotfix" /\ at[p] \in 1 .. Last - 1 /\ ~Checks(f)[at[p] + 1]
        /\ root[p] \in Dirs /\ f \in Disks
        /\ disk' = [disk EXCEPT ![root[p]] = g]
        /\ UNCHANGED <<cwd, env, found, root, lone, was>>
    BY <1>0 DEF TypeOK, Everyone, Undisturbed, Stage, Hotfix, Last
  <1>b. \A i \in 1 .. at[p] : Checks(f)[i]
    BY <1>0, <1>a DEF TypeOK, Undisturbed, Passed, Known, Settled
  <1>c. Placed(p) /\ Ended(p)
    BY <1>0 DEF Undisturbed
  <1>d. /\ Preserved(root[p], f, g) /\ g \in Disks
        /\ \A i \in 1 .. Last : Checks(f)[i] => Checks(g)[i]
        /\ \A i \in 2 .. Last : Checks(g)[i] => Checks(f)[i]
    BY <1>a, MadeDirectory, FileType
  <1>e. g.dir /\ g.config = f.config
    BY <1>a DEF Disks
  <1>f. Preserved(root[p], was[root[p]], f) /\ was[root[p]] \in Disks
    BY <1>0, <1>a DEF TypeOK, Undisturbed, Intact, Settled
  <1> HIDE DEF f, g
  <1>g. disk'[root[p]] = g /\ \A d \in Dirs \ {root[p]} : disk'[d] = disk[d]
    BY <1>0, <1>a DEF TypeOK
  <1>1. ASSUME pc'[p] \in {"idle", "truncate"}
        PROVE  Intact(p)' /\ \A d \in Dirs : Settled(p, d)' = disk'[d]
    <2>1. \A d \in Dirs : Settled(p, d) = disk[d] /\ Settled(p, d)' = disk'[d]
      BY <1>1, <1>a DEF Settled
    <2>2. Preserved(root[p], was[root[p]], g)
      BY <1>a, <1>d, <1>f, PreservedTwice
    <2> QED BY <1>0, <1>a, <1>g, <2>1, <2>2 DEF Undisturbed, Intact
  <1>2. ASSUME f.config.kind = "broken", End(p, "failed")
        PROVE  Going(p)
    <2>p. pc'[p] = "idle" /\ outcome'[p] = "failed"
      BY <1>0, <1>2 DEF TypeOK
    <2>1. was[root[p]].config.kind = "broken"
      BY <1>2, <1>f DEF Preserved
    <2>2. Excused(p)'
      BY <1>a, <1>c, <2>1 DEF Placed, Excused
    <2>3. Stage(p)' /\ Placed(p)' /\ Ended(p)'
      BY <1>a, <1>c, <2>2, <2>p DEF Stage, Placed, Ended
    <2>4. Passed(p)'
      BY <2>p DEF Passed, Known
    <2> QED BY <1>1, <2>3, <2>4, <2>p DEF Going
  <1>3. ASSUME /\ pc' = [pc EXCEPT ![p] = "truncate"] /\ UNCHANGED <<at, goal, seen, outcome>>
               /\ at[p] \notin {2, 3} => /\ f.config.kind # "broken"
                                         /\ buffer'[p].config = Completed(at[p] + 1, f.config, root[p])
        PROVE  Going(p)
    <2>p. pc'[p] = "truncate" /\ at'[p] = at[p] /\ outcome'[p] = outcome[p]
      BY <1>0, <1>3 DEF TypeOK
    <2>1. Intact(p)' /\ Settled(p, root[p])' = g
      BY <1>1, <1>a, <1>g, <2>p
    <2>2. at[p] > 0 /\ ~Checks(g)[at[p] + 1]
      BY <1>a, <1>d DEF Last
    <2>3. Stage(p)'
      BY <1>3, <1>a, <1>e, <1>g, <2>2, <2>p DEF Stage
    <2>4. Placed(p)' /\ Ended(p)'
      BY <1>a, <1>c, <2>p DEF Placed, Ended
    <2>5. Known(p)' = at[p]
      BY <2>p DEF Known
    <2>6. \A i \in 1 .. at[p] : Checks(g)[i]
      BY <1>a, <1>b, <1>d DEF Last
    <2>7. Passed(p)'
      BY <1>a, <2>1, <2>5, <2>6 DEF Passed
    <2> QED BY <2>1, <2>3, <2>4, <2>7 DEF Going
  <1>4. \/ f.config.kind = "broken" /\ End(p, "failed")
        \/ /\ at[p] \notin {2, 3} /\ f.config.kind # "broken"
           /\ pc' = [pc EXCEPT ![p] = "truncate"] /\ UNCHANGED <<at, goal, seen, outcome>>
           /\ buffer' = [buffer EXCEPT ![p].config = Completed(at[p] + 1, f.config, root[p])]
        \/ /\ at[p] \in {2, 3}
           /\ pc' = [pc EXCEPT ![p] = "truncate"] /\ UNCHANGED <<at, goal, seen, outcome>>
    BY <1>a DEF Hotfix, f, Last
  <1>5. ASSUME buffer' = [buffer EXCEPT ![p].config = Completed(at[p] + 1, f.config, root[p])]
        PROVE  buffer'[p].config = Completed(at[p] + 1, f.config, root[p])
    BY <1>0, <1>5 DEF TypeOK, Disks
  <1> QED BY <1>2, <1>3, <1>4, <1>5

\* The opening of a file: what the write will leave has the target's check good and has
\* lost nothing.
LEMMA TruncateGoes ==
    ASSUME NEW p, Working(p), Truncate(p)
    PROVE  Going(p)
  <1> USE DEF Goto, Put, KeepHistory, KeepBounds
  <1>0. TypeOK /\ CountInv(p) /\ Everyone /\ Undisturbed(p) /\ p \in Procs
    BY DEF Working, Inv, LoneInv
  <1> DEFINE f == disk[root[p]]
             s == at[p]
             c == buffer[p].config
             g == Written(s + 1, Truncated(s + 1, f), c)
  <1>a. /\ pc[p] = "truncate" /\ s \in 1 .. 5 /\ ~Checks(f)[s + 1] /\ f.dir
        /\ s \notin {2, 3} => f.config.kind # "broken" /\ c = Completed(s + 1, f.config, root[p])
        /\ root[p] \in Dirs /\ f \in Disks /\ c \in Configs /\ Plain(f)
    <2>1. root[p] \in Dirs /\ f \in Disks /\ c \in Configs /\ Plain(f)
      BY <1>0, FileType DEF TypeOK, Everyone
    <2>2. pc[p] = "truncate" /\ s \in 1 .. 5
      BY <1>0 DEF TypeOK, Everyone, Undisturbed, Stage, Truncate, Last
    <2> QED BY <1>0, <2>1, <2>2 DEF Undisturbed, Stage
  <1>b. /\ disk' = [disk EXCEPT ![root[p]] = Truncated(s + 1, f)]
        /\ pc' = [pc EXCEPT ![p] = "write"]
        /\ UNCHANGED <<cwd, env, found, root, lone, was, at, goal, seen, buffer, outcome>>
    BY <1>a DEF Truncate
  <1>c. Placed(p) /\ Ended(p)
    BY <1>0 DEF Undisturbed
  <1>d. \A i \in 1 .. s : Checks(f)[i]
    BY <1>0, <1>a DEF TypeOK, Undisturbed, Passed, Known, Settled
  <1>e. /\ Preserved(root[p], f, g) /\ \A i \in 1 .. s + 1 : Checks(g)[i]
        /\ Truncated(s + 1, f) \in Disks /\ g \in Disks
    BY <1>a, <1>d, HotfixWorks, WrittenType
  <1>f. Truncated(s + 1, f).dir
    BY <1>a DEF Truncated, Disks
  <1>g. Preserved(root[p], was[root[p]], f) /\ was[root[p]] \in Disks
    BY <1>0, <1>a DEF TypeOK, Undisturbed, Intact, Settled
  <1>h. /\ pc'[p] = "write" /\ disk'[root[p]] = Truncated(s + 1, f)
        /\ \A d \in Dirs \ {root[p]} : disk'[d] = disk[d]
    BY <1>0, <1>a, <1>b DEF TypeOK
  <1>1. /\ Settled(p, root[p])' = g
        /\ \A d \in Dirs \ {root[p]} : Settled(p, d)' = disk[d] /\ Settled(p, d) = disk[d]
    BY <1>a, <1>b, <1>h DEF Settled
  <1> HIDE DEF f, c, g
  <1>2. Intact(p)'
    <2>1. Preserved(root[p], was[root[p]], g)
      BY <1>a, <1>e, <1>g, PreservedTwice
    <2> QED BY <1>0, <1>1, <1>b, <2>1 DEF Undisturbed, Intact
  <1>3. Stage(p)' /\ Placed(p)' /\ Ended(p)'
    <2>1. disk'[root'[p]].dir
      BY <1>b, <1>f, <1>h
    <2> QED BY <1>a, <1>b, <1>c, <1>h, <2>1 DEF Stage, Placed, Ended
  <1>4. Known(p)' = s + 1
    BY <1>b, <1>h DEF Known
  <1>5. Passed(p)'
    BY <1>1, <1>4, <1>b, <1>e DEF Passed
  <1> QED BY <1>2, <1>3, <1>5 DEF Going

\* The write of a file.
LEMMA WriteGoes ==
    ASSUME NEW p, Working(p), Write(p)
    PROVE  Going(p)
  <1> USE DEF Goto, Put, KeepHistory, KeepBounds
  <1>0. TypeOK /\ CountInv(p) /\ Everyone /\ Undisturbed(p) /\ p \in Procs
    BY DEF Working, Inv, LoneInv
  <1>a. /\ pc[p] = "write" /\ root[p] \in Dirs
        /\ disk' = [disk EXCEPT ![root[p]] =
                      Written(at[p] + 1, disk[root[p]], buffer[p].config)]
        /\ pc' = [pc EXCEPT ![p] = "recheck"]
        /\ UNCHANGED <<cwd, env, found, root, lone, was, at, goal, seen, outcome>>
    BY <1>0 DEF TypeOK, Write
  <1>b. pc'[p] = "recheck" /\ at'[p] = at[p]
    BY <1>0, <1>a DEF TypeOK
  <1>1. \A d \in Dirs : Settled(p, d)' = Settled(p, d)
    BY <1>0, <1>a, <1>b DEF TypeOK, Settled
  <1>2. Intact(p)'
    BY <1>0, <1>1, <1>a DEF Undisturbed, Intact
  <1>3. Stage(p)' /\ Placed(p)' /\ Ended(p)'
    BY <1>0, <1>a, <1>b DEF Undisturbed, Stage, Placed, Ended
  <1>4. Known(p)' = Known(p)
    BY <1>a, <1>b DEF Known
  <1>5. Passed(p)'
    BY <1>0, <1>1, <1>4, <1>a DEF Undisturbed, Passed
  <1> QED BY <1>2, <1>3, <1>5 DEF Going

\* The second check, which the hotfix has made good.
LEMMA RecheckGoes ==
    ASSUME NEW p, Working(p), Recheck(p)
    PROVE  Going(p)
  <1> USE DEF Goto, Put, KeepFiles, KeepHistory, KeepBounds, Contract
  <1>0. TypeOK /\ CountInv(p) /\ Everyone /\ Undisturbed(p) /\ p \in Procs
    BY DEF Working, Inv, LoneInv
  <1>a. /\ pc[p] = "recheck" /\ at[p] \in 0 .. Last - 1
        /\ UNCHANGED <<disk, cwd, env, found, root, lone, was>>
    BY <1>0 DEF TypeOK, Everyone, Recheck, Last
  <1>b. \A i \in 1 .. at[p] + 1 : Checks(disk[root[p]])[i]
    BY <1>0, <1>a DEF TypeOK, Undisturbed, Passed, Known, Settled
  <1>c. /\ pc' = [pc EXCEPT ![p] = "observe"] /\ goal' = [goal EXCEPT ![p] = "contract"]
        /\ UNCHANGED <<at, seen, buffer, outcome>>
    BY <1>a, <1>b DEF Recheck
  <1>d. pc'[p] = "observe" /\ goal'[p] = "contract"
    BY <1>0, <1>c DEF TypeOK
  <1>1. Intact(p)' /\ Settled(p, root[p])' = disk[root[p]]
    BY <1>a, <1>d, SameFiles
  <1>2. Stage(p)' /\ Placed(p)' /\ Ended(p)'
    BY <1>0, <1>a, <1>c, <1>d DEF Undisturbed, Stage, Placed, Ended
  <1>3. Known(p)' = at[p] + 1
    BY <1>c, <1>d DEF Known
  <1>4. Passed(p)'
    BY <1>1, <1>3, <1>a, <1>b DEF Passed
  <1> QED BY <1>1, <1>2, <1>4 DEF Going
\* An empty directory has no path.
LEMMA PlainNoDisk == Plain(NoDisk)
  BY DEF Plain, NoDisk, EmptyConfig

\* A step of a process that runs leaves no path where there is no config.yaml, and holds
\* none: what a hotfix writes is a configuration that is there.
LEMMA StepKeepsPlain ==
    ASSUME Inv, Everyone, NEW q \in Procs, Step(q) \/ Kill(q) \/ Refuse(q)
    PROVE  /\ \A p \in Procs : Plain(buffer'[p])
           /\ \A d \in Dirs : Plain(disk'[d]) /\ Plain(was'[d])
  <1> USE DEF Goto, Report, Forget, End, Put, KeepFiles, KeepHistory, KeepBounds, Contract
  <1> DEFINE x == root[q]
             f == disk[x]
             b == buffer[q]
             c == Completed(at[q] + 1, f.config, x)
  <1>0. /\ TypeOK /\ CountInv(q) /\ x \in Dirs /\ f \in Disks /\ b \in Disks
        /\ Plain(f) /\ Plain(b)
        /\ \A p \in Procs : Plain(buffer[p])
        /\ \A d \in Dirs : Plain(disk[d]) /\ Plain(was[d])
    BY DEF Inv, TypeOK, Everyone
  <1>1. c.kind = "map"
    <2>1. f.config \in Configs
      BY <1>0, FileType
    <2> QED BY <2>1 DEF Completed, EngineHotfix, ConfigFileHotfix, BrandHotfix, Configs
  <1>2. /\ \A g \in Disks : \A v : /\ [g EXCEPT !.dir = TRUE].config = g.config
                                    /\ [g EXCEPT !.index = v].config = g.config
                                    /\ [g EXCEPT !.context = v].config = g.config
                                    /\ [g EXCEPT !.config = v].config = v
        /\ EmptyConfig.kind = "map"
    BY DEF Disks, EmptyConfig
  <1>3. \A d \in Dirs : Plain(was'[d])
    <2>1. was' = was \/ was' = [d \in Dirs |-> NoDisk]
      BY DEF Step, Load, Reload, Observe, Perform, Hotfix, Truncate, Write, Recheck, Kill,
             Refuse, Interfere
    <2> QED BY <1>0, <2>1, PlainNoDisk
  <1>4. \A p \in Procs : Plain(buffer'[p])
    <2>1. \/ buffer' = buffer \/ buffer' = [buffer EXCEPT ![q] = NoDisk]
          \/ \E v : buffer' = [buffer EXCEPT ![q] = [b EXCEPT !.context = v]]
          \/ buffer' = [buffer EXCEPT ![q] = [b EXCEPT !.config = c]]
      <3>1. CASE Load(q) \/ Reload(q) \/ Perform(q) \/ Truncate(q) \/ Write(q)
        BY <1>0, <3>1 DEF TypeOK, Load, Reload, Perform, Truncate, Write
      <3>2. CASE Observe(q)
        BY <3>2 DEF Observe, Enter
      <3>3. CASE Hotfix(q)
        BY <1>0, <3>3 DEF TypeOK, Hotfix
      <3>4. CASE Recheck(q) \/ Kill(q) \/ Refuse(q)
        BY <3>4 DEF Recheck, Kill, Refuse
      <3> QED BY <3>1, <3>2, <3>3, <3>4 DEF Step
    <2>2. \A v : Plain([b EXCEPT !.context = v]) /\ Plain([b EXCEPT !.config = c])
      <3> HIDE DEF b, c
      <3> QED BY <1>0, <1>1, <1>2 DEF Plain
    <2>3. \A v : buffer' = [buffer EXCEPT ![q] = v] =>
                buffer'[q] = v /\ \A p \in Procs \ {q} : buffer'[p] = buffer[p]
      BY <1>0 DEF TypeOK
    <2>4. CASE buffer' = buffer
      BY <1>0, <2>4
    <2>5. ASSUME NEW v, buffer' = [buffer EXCEPT ![q] = v], Plain(v)
          PROVE  \A p \in Procs : Plain(buffer'[p])
      <3>1. buffer'[q] = v /\ \A p \in Procs \ {q} : buffer'[p] = buffer[p]
        BY <2>3, <2>5
      <3> QED BY <1>0, <2>5, <3>1
    <2> HIDE DEF b, c
    <2> QED BY <2>1, <2>2, <2>4, <2>5, PlainNoDisk
  <1>5. \A d \in Dirs : Plain(disk'[d])
    <2>1. \/ disk' = disk
          \/ \E y \in Dirs : \E v : disk' = [disk EXCEPT ![y] = [disk[y] EXCEPT !.context = v]]
          \/ disk' = [disk EXCEPT ![x] = [f EXCEPT !.dir = TRUE]]
          \/ \E s : disk' = [disk EXCEPT ![x] = Truncated(s, f)]
          \/ \E s : disk' = [disk EXCEPT ![x] = Written(s, f, b.config)]
      <3>1. CASE Load(q)
        BY <1>0, <3>1 DEF TypeOK, CountInv, Load
      <3>2. CASE Reload(q)
        <4>1. found[q] \in Dirs
          BY <1>0, <3>2 DEF TypeOK, CountInv, Reload
        <4>2. \/ disk' = [disk EXCEPT ![found[q]] = disk[found[q]]]
              \/ disk' = [disk EXCEPT ![found[q]] =
                            [disk[found[q]] EXCEPT !.context = buffer[q].context]]
          BY <3>2 DEF Reload
        <4>3. [disk EXCEPT ![found[q]] = disk[found[q]]] = disk
          BY <1>0 DEF TypeOK
        <4> QED BY <4>1, <4>2, <4>3
      <3>3. CASE Perform(q) \/ Hotfix(q) \/ Truncate(q)
        BY <3>3 DEF Perform, Hotfix, Truncate
      <3>4. CASE Write(q)
        BY <3>4 DEF Write
      <3>5. CASE Observe(q) \/ Recheck(q) \/ Kill(q) \/ Refuse(q)
        BY <3>5 DEF Observe, Recheck, Kill, Refuse
      <3> QED BY <3>1, <3>2, <3>3, <3>4, <3>5 DEF Step
    <2>2. \A y \in Dirs : \A v : Plain([disk[y] EXCEPT !.context = v])
      BY <1>0, <1>2 DEF Plain, TypeOK
    <2>3. Plain([f EXCEPT !.dir = TRUE])
      BY <1>0, <1>2 DEF Plain
    <2>4. \A s : Plain(Truncated(s, f)) /\ Plain(Written(s, f, b.config))
      <3>1. Plain([f EXCEPT !.index = "empty"]) /\ Plain([f EXCEPT !.index = "fresh"])
        BY <1>0, <1>2 DEF Plain
      <3>2. Plain([f EXCEPT !.context = "empty"]) /\ Plain([f EXCEPT !.context = "fresh"])
        BY <1>0, <1>2 DEF Plain
      <3>3. Plain([f EXCEPT !.config = EmptyConfig]) /\ Plain([f EXCEPT !.config = b.config])
        BY <1>0, <1>2 DEF Plain
      <3> HIDE DEF f, b
      <3> QED BY <1>0, <3>1, <3>2, <3>3 DEF Truncated, Written
    <2>5. \A y \in Dirs : \A v : disk' = [disk EXCEPT ![y] = v] =>
                disk'[y] = v /\ \A d \in Dirs \ {y} : disk'[d] = disk[d]
      BY <1>0 DEF TypeOK
    <2>6. CASE disk' = disk
      BY <1>0, <2>6
    <2>7. ASSUME NEW y \in Dirs, NEW v, disk' = [disk EXCEPT ![y] = v], Plain(v)
          PROVE  \A d \in Dirs : Plain(disk'[d])
      <3>1. disk'[y] = v /\ \A d \in Dirs \ {y} : disk'[d] = disk[d]
        BY <2>5, <2>7
      <3> QED BY <1>0, <2>7, <3>1
    <2> HIDE DEF x, f, b
    <2> QED BY <1>0, <2>1, <2>2, <2>3, <2>4, <2>6, <2>7
  <1> QED BY <1>3, <1>4, <1>5

\* A step of a process that runs keeps what holds of everyone.
LEMMA StepKeepsEveryone ==
    ASSUME Inv, Everyone, NEW q \in Procs, Step(q) \/ Kill(q) \/ Refuse(q)
    PROVE  Everyone'
  <1> USE DEF Goto, Report, Forget, End, Put, KeepFiles, KeepHistory, KeepBounds, Contract
  <1>0. TypeOK /\ CountInv(q)
    BY DEF Inv
  <1>1. \A d \in Dirs : disk'[d] # disk[d] => disk'[d].dir
    <2>1. CASE Load(q)
      <3>1. ASSUME disk' # disk
            PROVE  LET f == disk[found[q]] IN
                   /\ f.context \in {"bare", "fresh", "used"}
                   /\ disk' = [disk EXCEPT ![found[q]] = [f EXCEPT !.context = "empty"]]
        BY <2>1, <3>1 DEF Load
      <3>2. found[q] \in Dirs /\ disk[found[q]] \in Disks
        BY <1>0, <2>1 DEF TypeOK, CountInv, Load
      <3>3. ASSUME disk' # disk PROVE disk[found[q]].dir
        BY <3>1, <3>2, <3>3 DEF Everyone, NoDisk
      <3>4. ASSUME disk' # disk PROVE disk'[found[q]].dir
        <4>1. disk'[found[q]] = [disk[found[q]] EXCEPT !.context = "empty"]
          BY <1>0, <3>1, <3>2, <3>4 DEF TypeOK
        <4> QED BY <3>2, <3>3, <3>4, <4>1 DEF Disks
      <3> QED BY <1>0, <3>1, <3>4 DEF TypeOK
    <2>2. CASE Reload(q)
      <3>1. found[q] \in Dirs /\ disk[found[q]] \in Disks
        BY <1>0, <2>2 DEF TypeOK, CountInv, Reload
      <3> QED BY <1>0, <2>2, <3>1 DEF TypeOK, Disks, Reload
    <2>3. CASE Perform(q) \/ Hotfix(q)
      BY <1>0, <2>3 DEF TypeOK, Disks, Perform, Hotfix
    <2>4. CASE Truncate(q)
      <3>1. root[q] \in Dirs /\ disk[root[q]] \in Disks
        BY <1>0 DEF TypeOK
      <3>2. disk[root[q]].dir => Truncated(at[q] + 1, disk[root[q]]).dir
        BY <3>1 DEF Truncated, Disks
      <3> QED BY <1>0, <2>4, <3>1, <3>2 DEF TypeOK, Truncate
    <2>5. CASE Write(q)
      <3>1. root[q] \in Dirs /\ disk[root[q]] \in Disks
        BY <1>0 DEF TypeOK
      <3>2. \/ Written(at[q] + 1, disk[root[q]], buffer[q].config) = disk[root[q]]
            \/ Written(at[q] + 1, disk[root[q]], buffer[q].config).dir
        BY <3>1 DEF Written, Disks
      <3> QED BY <1>0, <2>5, <3>1, <3>2 DEF TypeOK, Write
    <2>6. CASE Observe(q) \/ Recheck(q) \/ Kill(q) \/ Refuse(q)
      BY <2>6 DEF Observe, Recheck, Kill, Refuse
    <2> QED BY <2>1, <2>2, <2>3, <2>4, <2>5, <2>6 DEF Step
  <1>2. \A p \in Procs \ {q} : pc'[p] = pc[p] /\ at'[p] = at[p] /\ goal'[p] = goal[p]
    <2>1. CASE Observe(q)
      BY <1>0, <2>1 DEF TypeOK, Observe, Enter
    <2>2. CASE Load(q) \/ Reload(q) \/ Perform(q) \/ Hotfix(q)
      BY <1>0, <2>2 DEF TypeOK, Load, Reload, Perform, Hotfix
    <2>3. CASE Truncate(q) \/ Write(q) \/ Recheck(q) \/ Kill(q) \/ Refuse(q)
      BY <1>0, <2>3 DEF TypeOK, Truncate, Write, Recheck, Kill, Refuse
    <2> QED BY <2>1, <2>2, <2>3 DEF Step
  <1>3. at'[q] < Last /\ (pc'[q] \in {"idle", "load", "reload"} => goal'[q] = "initial")
    <2>0. at[q] < Last /\ (pc[q] \in {"idle", "load", "reload"} => goal[q] = "initial")
      BY DEF Everyone
    <2>1. CASE Observe(q)
      <3>1. \/ UNCHANGED <<pc, at, goal>>
            \/ \E s \in 0 .. Last : Enter(q, s)
            \/ End(q, "failed")
        BY <1>0, <2>0, <2>1 DEF TypeOK, Observe, Last
      <3>2. CASE UNCHANGED <<pc, at, goal>>
        BY <2>0, <3>2
      <3>3. ASSUME NEW s \in 0 .. Last, Enter(q, s)
            PROVE  at'[q] < Last /\ (pc'[q] \in {"idle", "load", "reload"} => goal'[q] = "initial")
        BY <1>0, <3>3 DEF TypeOK, Enter, Last
      <3>4. CASE End(q, "failed")
        BY <1>0, <3>4 DEF TypeOK, Last
      <3> QED BY <3>1, <3>2, <3>3, <3>4
    <2>2. CASE Load(q) \/ Reload(q)
      BY <1>0, <2>0, <2>2 DEF TypeOK, Load, Reload, Last
    <2>3. CASE Perform(q) \/ Hotfix(q) \/ Truncate(q) \/ Write(q)
      BY <1>0, <2>0, <2>3 DEF TypeOK, Perform, Hotfix, Truncate, Write, Last
    <2>4. CASE Recheck(q) \/ Kill(q) \/ Refuse(q)
      BY <1>0, <2>0, <2>4 DEF TypeOK, Recheck, Kill, Refuse, Last
    <2> QED BY <2>1, <2>2, <2>3, <2>4 DEF Step
  <1>4. \A d \in Dirs : disk'[d].dir \/ disk'[d] = NoDisk
    BY <1>1 DEF Everyone
  <1>5. (\A p \in Procs : Plain(buffer'[p])) /\ \A d \in Dirs : Plain(disk'[d]) /\ Plain(was'[d])
    BY <1>0, StepKeepsPlain
  <1> QED BY <1>2, <1>3, <1>4, <1>5 DEF Everyone

\* A command that starts when no other runs.  One that fails at once has a root whose
\* configuration is broken, or none, as the environment or Foreign gave it.
LEMMA StartGoes ==
    ASSUME Inv, Everyone, NEW q \in Procs, NEW d \in Dirs, NEW e \in Envs, Start(q, d, e)
    PROVE  Everyone' /\ \A p \in Procs : lone' = p => Undisturbed(p)'
  <1> USE DEF Goto, Report
  <1>0. TypeOK
    BY DEF Inv
  <1> DEFINE r == Root(d, e)
             failing == r # None /\ disk[r].config.kind # "map"
  <1>a. /\ pc[q] = "idle"
        /\ found' = [found EXCEPT ![q] = r] /\ root' = [root EXCEPT ![q] = InitRoot(d, r)]
        /\ cwd' = [cwd EXCEPT ![q] = d] /\ env' = [env EXCEPT ![q] = e]
        /\ UNCHANGED <<disk, at, seen, goal, buffer>>
        /\ pc' = [pc EXCEPT ![q] = IF failing THEN "idle"
                                   ELSE IF r = None THEN "observe" ELSE "load"]
        /\ outcome' = [outcome EXCEPT ![q] = IF failing THEN "failed" ELSE "none"]
    BY DEF Start
  <1>b. r \in Dirs \cup {None} /\ InitRoot(d, r) \in Dirs
    BY <1>0, RootType
  <1>p. \A x \in Dirs : Plain(disk[x])
    BY DEF Everyone
  <1>c. /\ r = None => d \notin ProjectsOf(disk) /\ InitRoot(d, r) = d
        /\ e = None /\ ~failing =>
             OwnRoot(d, InitRoot(d, r), disk) \/ StoredRoot(d, InitRoot(d, r), disk)
        /\ failing => \/ disk[r].config.kind = "broken" \/ r \in Foreign
                      \/ e = r /\ disk[r].config.kind = "absent"
    <2>0. Projects = ProjectsOf(disk)
      BY DEF Projects, ProjectsOf
    <2>1. /\ e # None => r = e
          /\ e = None /\ Nearest(d, ProjectsOf(disk)) # None => r = Nearest(d, ProjectsOf(disk))
          /\ e = None /\ Nearest(d, ProjectsOf(disk)) = None => r = Nearest(d, Foreign)
      BY <2>0 DEF Root
    <2>3. /\ Nearest(d, ProjectsOf(disk)) # None =>
               Nearest(d, ProjectsOf(disk)) \in ProjectsOf(disk)
          /\ d \in ProjectsOf(disk) => Nearest(d, ProjectsOf(disk)) = d
          /\ Nearest(d, Foreign) # None => Nearest(d, Foreign) \in Foreign
          /\ Nearest(d, ProjectsOf(disk)) = None => d \notin ProjectsOf(disk)
      BY NearestIs, InitAssumption
    <2>4. \A x \in Dirs : disk[x].config.kind \in {"absent", "broken", "map"}
      BY <1>0 DEF TypeOK, Disks, Configs
    <2>5. \A x \in Dirs : x \in ProjectsOf(disk) <=> disk[x].config.kind # "absent"
      BY DEF ProjectsOf
    <2>6. /\ r = None \/ disk[r].config.path = "blank" => InitRoot(d, r) = d
          /\ r # None /\ disk[r].config.path = "no" => InitRoot(d, r) = r
          /\ r # None /\ disk[r].config.path \notin {"no", "blank"} =>
               InitRoot(d, r) = disk[r].config.path
      BY DEF InitRoot
    <2> HIDE DEF r
    <2>7. r = None => d \notin ProjectsOf(disk) /\ InitRoot(d, r) = d
      BY <2>1, <2>3, <2>6, InitAssumption
    <2>8. d \notin ProjectsOf(disk) => OwnRoot(d, d, disk)
      BY <1>p, <2>5 DEF OwnRoot, Plain
    <2>9. ASSUME e = None, ~failing, r # None
          PROVE  OwnRoot(d, InitRoot(d, r), disk) \/ StoredRoot(d, InitRoot(d, r), disk)
      <3>1. r \in ProjectsOf(disk)
        BY <1>b, <2>5, <2>9
      <3>2. r = Nearest(d, ProjectsOf(disk))
        <4>1. CASE Nearest(d, ProjectsOf(disk)) = None
          <5>1. r = Nearest(d, Foreign)
            BY <2>1, <2>9, <4>1
          <5>2. PICK i \in 1 .. Len(Above[d]) : Above[d][i] = r
            BY <2>9, <5>1, NearestIs
          <5> QED BY <3>1, <4>1, <5>2, NearestIs
        <4> QED BY <2>1, <2>9, <4>1
      <3>3. CASE disk[r].config.path = "blank"
        <4>1. OwnRoot(d, d, disk)
          <5>1. d \in ProjectsOf(disk) => r = d
            BY <2>3, <3>2
          <5>2. d \in ProjectsOf(disk) => OwnRoot(d, d, disk)
            BY <3>3, <5>1 DEF OwnRoot
          <5> QED BY <2>8, <5>2
        <4> QED BY <2>6, <3>3, <4>1
      <3>4. CASE disk[r].config.path = "no"
        BY <2>6, <2>9, <3>1, <3>2, <3>4 DEF OwnRoot
      <3>5. CASE disk[r].config.path \notin {"no", "blank"}
        <4>1. InitRoot(d, r) = disk[r].config.path
          BY <2>6, <2>9, <3>5
        <4>2. CASE disk[r].config.path = r
          BY <3>1, <3>2, <4>1, <4>2 DEF OwnRoot
        <4>3. CASE disk[r].config.path # r
          BY <3>1, <3>2, <4>1, <4>3 DEF StoredRoot
        <4> QED BY <4>2, <4>3
      <3> QED BY <3>3, <3>4, <3>5
    <2>10. ASSUME e = None, r = None
           PROVE  OwnRoot(d, InitRoot(d, r), disk)
      BY <2>7, <2>8, <2>10
    <2>11. ASSUME failing
           PROVE  \/ disk[r].config.kind = "broken" \/ r \in Foreign
                  \/ e = r /\ disk[r].config.kind = "absent"
      BY <1>b, <2>1, <2>3, <2>4, <2>5, <2>11
    <2> QED BY <2>7, <2>9, <2>10, <2>11
  <1> HIDE DEF r, failing
  <1>d. Everyone'
    <2>1. \A x \in Dirs : Plain(was'[x])
      BY <1>p DEF Start, Interfere, Plain, NoDisk, EmptyConfig
    <2> QED BY <1>0, <1>a, <2>1 DEF TypeOK, Everyone, Plain
  <1>1. ASSUME lone' = q, was' = disk, \A p \in Procs : pc[p] = "idle"
        PROVE  Undisturbed(q)'
    <2>p. /\ found'[q] = r /\ root'[q] = InitRoot(d, r) /\ cwd'[q] = d /\ env'[q] = e
          /\ pc'[q] = IF failing THEN "idle" ELSE IF r = None THEN "observe" ELSE "load"
          /\ outcome'[q] = IF failing THEN "failed" ELSE "none"
          /\ goal'[q] = "initial" /\ seen'[q] = 0
      BY <1>0, <1>a, <1>1 DEF TypeOK, Inv, Everyone, CountInv
    <2>1. \A p \in Procs \ {q} : pc'[p] = "idle"
      BY <1>0, <1>a, <1>1 DEF TypeOK
    <2>2. Stage(q)'
      BY <1>1, <1>a, <2>p DEF Stage
    <2>3. Placed(q)'
      <3>1. d \notin ProjectsOf(disk) => disk[d].config.kind = "absent"
        BY DEF ProjectsOf
      <3> QED BY <1>1, <1>c, <2>p, <3>1 DEF Placed
    <2>4. Intact(q)'
      <3>1. \A x \in Dirs : Settled(q, x)' = disk[x]
        BY <1>a, <2>p DEF Settled
      <3> QED BY <1>1, <1>b, <2>p, <3>1, PreservedSame DEF Intact
    <2>5. Known(q)' = 0
      BY <2>p DEF Known
    <2>6. Passed(q)'
      BY <2>5 DEF Passed
    <2>7. Ended(q)'
      BY <1>1, <1>c, <2>p DEF Ended, Excused, failing
    <2> QED BY <2>1, <2>2, <2>3, <2>4, <2>6, <2>7 DEF Undisturbed
  <1>2. \/ lone' = q /\ was' = disk /\ \A p \in Procs : pc[p] = "idle"
        \/ lone' = None
    BY DEF Start, Interfere
  <1>3. None \notin Procs
    BY InitAssumption
  <1> QED BY <1>1, <1>2, <1>3, <1>d

\* An edit leaves no files in a directory that is not there, and no path without its file.
LEMMA EditKeepsFiles ==
    ASSUME TypeOK, Everyone, NEW d \in Dirs, Edit(d)
    PROVE  \A x \in Dirs : (disk'[x].dir \/ disk'[x] = NoDisk) /\ Plain(disk'[x])
  <1> DEFINE f == disk[d]
  <1>1. f.dir /\ f \in Disks /\ f.config \in Configs /\ Plain(f)
    BY FileType DEF Edit, TypeOK, Everyone
  <1>2. \/ \E c : /\ disk' = [disk EXCEPT ![d] = [f EXCEPT !.config = c]]
                 /\ c.kind # "absent"
        \/ \E c : disk' = [disk EXCEPT ![d] = [f EXCEPT !.index = c]]
        \/ \E c : disk' = [disk EXCEPT ![d] = [f EXCEPT !.context = c]]
        \/ disk' = [disk EXCEPT ![d] = NoDisk]
    <2>1. ASSUME f.config.kind = "map", NEW c \in EditedConfigs(f.config)
          PROVE  c.kind # "absent"
      BY <1>1, <2>1 DEF EditedConfigs, Configs
    <2> QED BY <2>1 DEF Edit, TypeOK
  <1>3. \A c : /\ [f EXCEPT !.config = c].dir /\ [f EXCEPT !.config = c].config = c
               /\ [f EXCEPT !.index = c].dir /\ [f EXCEPT !.index = c].config = f.config
               /\ [f EXCEPT !.context = c].dir /\ [f EXCEPT !.context = c].config = f.config
    BY <1>1 DEF Disks
  <1>4. (disk'[d].dir \/ disk'[d] = NoDisk) /\ Plain(disk'[d])
    <2>1. ASSUME NEW g, disk' = [disk EXCEPT ![d] = g]
          PROVE  disk'[d] = g
      BY <2>1 DEF TypeOK
    <2>2. /\ \A c : c.kind # "absent" => Plain([f EXCEPT !.config = c])
          /\ \A c : Plain([f EXCEPT !.index = c]) /\ Plain([f EXCEPT !.context = c])
      <3> HIDE DEF f
      <3> QED BY <1>1, <1>3 DEF Plain
    <2>3. ASSUME NEW g, disk' = [disk EXCEPT ![d] = g], g.dir \/ g = NoDisk, Plain(g)
          PROVE  (disk'[d].dir \/ disk'[d] = NoDisk) /\ Plain(disk'[d])
      BY <2>1, <2>3
    <2> HIDE DEF f
    <2> QED BY <1>2, <1>3, <2>2, <2>3, PlainNoDisk
  <1>5. \A x \in Dirs \ {d} : disk'[x] = disk[x]
    BY <1>2 DEF TypeOK
  <1> QED BY <1>4, <1>5 DEF Everyone

-----------------------------------------------------------------------------
(* The theorems about the lone command.                                    *)

\* The invariant of the lone command.
LEMMA LoneInvHolds == Spec => []LoneInv
  <1>1. Init => LoneInv
    BY InitAssumption DEF Init, LoneInv, Everyone, Plain, NoDisk, EmptyConfig, Last
  <1>2. Inv /\ LoneInv /\ [Next]_vars => LoneInv'
    <2> SUFFICES ASSUME Inv, LoneInv, [Next]_vars PROVE LoneInv'
      OBVIOUS
    <2>0. TypeOK /\ Everyone /\ None \notin Procs
      BY InitAssumption DEF Inv, LoneInv
    <2>1. ASSUME NEW q \in Procs, Step(q)
          PROVE  LoneInv'
      <3>1. Everyone'
        BY <2>0, <2>1, StepKeepsEveryone
      <3>2. pc[q] # "idle" /\ lone' = lone
        BY <2>1 DEF Step, Load, Reload, Observe, Perform, Hotfix, Truncate, Write, Recheck,
                    KeepHistory
      <3>3. ASSUME NEW p \in Procs, lone' = p
            PROVE  Undisturbed(p)'
        <4>1. lone = p /\ Undisturbed(p)
          BY <3>2, <3>3 DEF LoneInv
        <4>2. q = p
          BY <3>2, <4>1 DEF Undisturbed
        <4>3. Working(p)
          BY <3>2, <4>1, <4>2 DEF Working
        <4>4. Going(p)
          BY <2>1, <4>2, <4>3, LoadGoes, ReloadGoes, ObserveGoes, PerformGoes, HotfixGoes,
             TruncateGoes, WriteGoes, RecheckGoes DEF Step
        <4>5. \A x \in Procs \ {p} : pc'[x] = "idle"
          <5>1. Kept(q)
            BY <2>1, LoadKeeps, ReloadKeeps, ObserveKeeps, PerformKeeps, HotfixKeeps,
               TruncateKeeps, WriteKeeps, RecheckKeeps DEF Step
          <5> QED BY <4>1, <4>2, <5>1 DEF Kept, Apart, Undisturbed
        <4> QED BY <4>4, <4>5 DEF Going, Undisturbed
      <3> QED BY <3>1, <3>3 DEF LoneInv
    <2>2. ASSUME NEW q \in Procs, Kill(q) \/ Refuse(q)
          PROVE  LoneInv'
      <3>1. Everyone'
        BY <2>0, <2>2, StepKeepsEveryone
      <3>2. lone' = None
        BY <2>2 DEF Kill, Refuse, Interfere
      <3> QED BY <2>0, <3>1, <3>2 DEF LoneInv
    <2>3. ASSUME NEW q \in Procs, NEW d \in Dirs, NEW e \in Envs, Start(q, d, e)
          PROVE  LoneInv'
      BY <2>0, <2>3, StartGoes DEF LoneInv
    <2>4. ASSUME NEW d \in Dirs, Edit(d)
          PROVE  LoneInv'
      <3>1. lone' = None /\ was' = [x \in Dirs |-> NoDisk] /\ UNCHANGED <<pc, at, goal, buffer>>
        BY <2>4 DEF Edit, Interfere, process
      <3>2. \A x \in Dirs : (disk'[x].dir \/ disk'[x] = NoDisk) /\ Plain(disk'[x])
        BY <2>0, <2>4, EditKeepsFiles
      <3> QED BY <2>0, <3>1, <3>2, PlainNoDisk DEF LoneInv, Everyone
    <2>5. ASSUME NEW d \in Dirs, NEW e \in Dirs, Relocate(d, e)
          PROVE  LoneInv'
      <3>1. lone' = None /\ was' = [x \in Dirs |-> NoDisk] /\ UNCHANGED <<pc, at, goal, buffer>>
        BY <2>5 DEF Relocate, Interfere, process
      <3>2. PICK left \in {disk[d], NoDisk} : disk' = [disk EXCEPT ![e] = disk[d], ![d] = left]
        BY <2>5 DEF Relocate
      <3>3. \A x \in Dirs : disk'[x] = NoDisk \/ \E y \in Dirs : disk'[x] = disk[y]
        BY <2>0, <3>2 DEF TypeOK
      <3>4. \A x \in Dirs : (disk'[x].dir \/ disk'[x] = NoDisk) /\ Plain(disk'[x])
        BY <2>0, <3>3, PlainNoDisk DEF Everyone
      <3> QED BY <2>0, <3>1, <3>4, PlainNoDisk DEF LoneInv, Everyone
    <2>6. CASE UNCHANGED vars
      BY <2>6 DEF LoneInv, Everyone, Plain, Undisturbed, Stage, Placed, Intact, Passed, Ended,
                  Excused, Known, Settled, vars, process, history
    <2> QED BY <2>1, <2>2, <2>3, <2>4, <2>5, <2>6 DEF Next, Done
  <1> QED BY <1>1, <1>2, InvHolds, PTL DEF Spec

\* NothingLost: whatever the files were, a command that nothing interferes with keeps
\* the owner's settings, a healthy index, a healthy context and every other directory,
\* whether it succeeds or fails, and at whichever of its steps.  It rests on Intact:
\* between truncation and write, what is lost on disk is what the process still holds.
THEOREM NothingIsLost == Spec => []NothingLost
  <1>1. Inv /\ LoneInv => NothingLost
    <2> SUFFICES ASSUME Inv, LoneInv, LoneEnded PROVE NothingLost
      BY DEF NothingLost
    <2>1. PICK p \in Procs : lone = p
      BY DEF Inv, TypeOK, LoneEnded
    <2>2. Undisturbed(p) /\ pc[p] = "idle"
      BY <2>1 DEF LoneInv, LoneEnded
    <2>3. \A d \in Dirs : Settled(p, d) = disk[d]
      BY <2>2 DEF Settled
    <2>4. \A d \in Dirs : (d # root[p] => disk[d] = was[d]) /\ Preserved(root[p], was[d], disk[d])
      BY <2>2, <2>3, PreservedSame DEF Undisturbed, Intact
    <2> QED BY <2>1, <2>4 DEF NothingLost, Preserved
  <1> QED BY <1>1, InvHolds, LoneInvHolds, PTL

\* Repairs, where no other program's config.yaml is taken for the project's: a command
\* that nothing interferes with fails only on a file that was broken when it started, or
\* on an environment that names no project.  It rests on Passed: a hotfix makes its own
\* check good and undoes none before it, so that no contract fails.
THEOREM InitRepairs ==
    ASSUME Foreign = {}
    PROVE  Spec => []Repairs
  <1>1. Inv /\ LoneInv => Repairs
    <2> SUFFICES ASSUME Inv, LoneInv, LoneEnded, outcome[lone] = "failed" PROVE Repairs
      BY DEF Repairs
    <2>1. PICK p \in Procs : lone = p
      BY DEF Inv, TypeOK, LoneEnded
    <2>2. Undisturbed(p) /\ pc[p] = "idle" /\ outcome[p] = "failed"
      BY <2>1 DEF LoneInv, LoneEnded
    <2>3. Excused(p)
      BY <2>2 DEF Undisturbed, Ended
    <2> QED BY <2>1, <2>3 DEF Repairs, Excused
  <1> QED BY <1>1, InvHolds, LoneInvHolds, PTL

\* OkIsFound: after a success that nothing interfered with, another init from the same
\* directory works on the root that was made ready, and the search ends there or at a
\* config.yaml with that root's path, for every tree of directories, wherever other
\* projects lie on the path and whichever directories their config.yaml names.  It rests
\* on Placed, how the command found its root, and on Preserved: a path that is stored
\* stays, and one that is filled in is the root's own.
THEOREM SuccessIsFound == Spec => []OkIsFound
  <1>1. Inv /\ LoneInv => OkIsFound
    <2> SUFFICES ASSUME Inv, LoneInv, LoneEnded, outcome[lone] = "ok", env[lone] = None
                 PROVE  LET r == Root(cwd[lone], None) IN
                        /\ Ready(root[lone])
                        /\ r # None /\ InitRoot(cwd[lone], r) = root[lone]
                        /\ r = root[lone] \/ disk[r].config.path = root[lone]
      BY DEF OkIsFound
    <2>1. PICK p \in Procs : lone = p
      BY DEF Inv, TypeOK, LoneEnded
    <2>2. Undisturbed(p) /\ pc[p] = "idle" /\ outcome[p] = "ok" /\ env[p] = None
      BY <2>1 DEF LoneInv, LoneEnded
    <2> DEFINE d == cwd[p]
               x == root[p]
               o == Nearest(d, ProjectsOf(was))
               r == Nearest(d, Projects)
    <2>3. \A y \in Dirs : Settled(p, y) = disk[y]
      BY <2>2 DEF Settled
    <2>4. x \in Dirs /\ d \in Dirs /\ None \notin Dirs /\ x \notin {"no", "blank"}
      BY InitAssumption DEF Inv, TypeOK
    <2>5. Ready(x)
      BY <2>2, <2>3, <2>4 DEF Undisturbed, Passed, Known, Ready
    <2>6. disk[x].config.kind = "map" /\ disk[x].config.path # "blank"
      <3>1. Checks(disk[x])[5]
        BY <2>5 DEF Ready, Last
      <3> QED BY <3>1, CheckNames DEF ConfigFileValid
    <2>7. /\ \A y \in Dirs \ {x} : disk[y] = was[y]
          /\ disk[x].config.path \in {was[x].config.path, x}
          /\ Plain(was[x]) /\ (OwnRoot(d, x, was) \/ StoredRoot(d, x, was))
      BY <2>2, <2>3, <2>4 DEF Undisturbed, Intact, Preserved, Placed, LoneInv, Everyone
    <2>8. x \in Projects /\ Projects = ProjectsOf(was) \cup {x}
      BY <2>4, <2>6, <2>7 DEF Projects, ProjectsOf
    <2>9. r # None
      <3>1. CASE o # None
        <4>1. r \in {o, x}
          BY <2>4, <2>8, <3>1, NearestWithOne
        <4> QED BY <2>4, <3>1, <4>1
      <3>2. CASE o = None
        <4>1. x = d
          BY <2>4, <2>7, <3>2 DEF OwnRoot, StoredRoot, ProjectsOf
        <4>2. r = d
          BY <2>4, <2>8, <4>1, NearestIs
        <4> QED BY <2>4, <4>2
      <3> QED BY <3>1, <3>2
    <2> HIDE DEF d, x, o, r
    <2>10. /\ r = x \/ disk[r].config.path = x
           /\ r = x => disk[x].config.path \in {"no", x}
      <3>1. CASE OwnRoot(d, x, was)
        <4>1. r = x
          <5>1. CASE x = d
            BY <2>4, <2>8, <5>1, NearestIs DEF r
          <5>2. CASE x = o /\ x \in ProjectsOf(was)
            <6>1. Projects = ProjectsOf(was)
              BY <2>8, <5>2
            <6> QED BY <5>2, <6>1 DEF r, o
          <5> QED BY <3>1, <5>1, <5>2 DEF OwnRoot, o
        <4>2. disk[x].config.path \in {"no", x}
          BY <2>6, <2>7, <3>1 DEF OwnRoot
        <4> QED BY <4>1, <4>2
      <3>2. CASE StoredRoot(d, x, was)
        <4>1. o \in ProjectsOf(was) /\ o # x /\ was[o].config.path = x
          BY <3>2 DEF StoredRoot, o
        <4>2. o \in Dirs /\ disk[o].config.path = x
          BY <2>7, <4>1 DEF ProjectsOf
        <4>3. r \in {o, x}
          BY <2>4, <2>8, <4>2, NearestWithOne DEF o, r
        <4>4. ASSUME r = x PROVE disk[x].config.path \in {"no", x}
          <5>1. x \notin ProjectsOf(was)
            <6>1. ASSUME x \in ProjectsOf(was) PROVE r = o
              <7>1. Projects = ProjectsOf(was)
                BY <2>8, <6>1
              <7> QED BY <7>1 DEF r, o
            <6> QED BY <4>1, <4>4, <6>1
          <5>2. was[x].config.path = "no"
            BY <2>4, <2>7, <5>1 DEF ProjectsOf, Plain
          <5> QED BY <2>7, <5>2
        <4> QED BY <4>2, <4>3, <4>4
      <3> QED BY <2>7, <3>1, <3>2
    <2>11. InitRoot(d, r) = x
      BY <2>4, <2>9, <2>10 DEF InitRoot
    <2>12. Root(d, None) = r
      BY <2>9, InitAssumption DEF Root, r
    <2> QED BY <2>1, <2>5, <2>9, <2>10, <2>11, <2>12 DEF d, x
  <1> QED BY <1>1, InvHolds, LoneInvHolds, PTL
=============================================================================
