---------------------------- MODULE StorageProofs ----------------------------
(***************************************************************************)
(* Theorems about the two models of how ontobdc storage writes             *)
(* container.ttl and storage.ttl: ContainerRegistry, for any number of     *)
(* processes, paths and identifiers, with crashes and folder operations,   *)
(* and AttachTransaction, for any number of graph files.  The two          *)
(* specifications share no state; the definitions of the second have the   *)
(* prefix AT where the first has the same name.                            *)
(***************************************************************************)
EXTENDS ContainerRegistry, AttachTransaction, TLAPS

-----------------------------------------------------------------------------
(* The registration of containers.                                         *)

\* Where a process stands within its create.
Creating == {"transit", "meta_truncate", "meta_write", "index_truncate",
             "index_write", "validate"}

\* A running create is in a state that has a successor, and a process that is
\* about to write container.ttl has something to write.
ChartInv ==
    /\ \A p \in Procs : pc[p] \in Creating => active[p] \in ChartStates \ FinalStates
    /\ \A p \in Procs : pc[p] \in {"meta_truncate", "meta_write"} => newMeta[p] \in Entry

\* A transition of the create statechart leads to one of its states, and never
\* to invalid_path.
LEMMA SuccessorType ==
    \A s \in ChartStates \ FinalStates :
        Successor[s] \in ChartStates /\ Successor[s] # "invalid_path"
  BY DEF Successor, ChartStates, FinalStates

\* The evaluator always answers with a state of the statechart.
LEMMA ObservedType ==
    ASSUME TypeOK, NEW c \in Paths
    PROVE  /\ Observed(c) \in ChartStates
           /\ Observed(c) = "container_manifest_synced" => meta[c] \in Entry /\ meta[c].id \in Ids
  <1>1. kind[c] \in {"absent", "file", "dir"} /\ meta[c] \in Entry \cup {NoGraph}
    BY DEF TypeOK
  <1>2. MetadataReady(c) => kind[c] = "dir" /\ meta[c] \in Entry /\ meta[c].id \in Ids
    BY <1>1 DEF MetadataReady, ValidId
  <1>3. (IndexReady(c) => MetadataReady(c)) /\ (ManifestSynced(c) => IndexReady(c))
    BY DEF IndexReady, ManifestSynced
  <1>4. QED
    BY <1>1, <1>2, <1>3 DEF Observed, ChartStates, FinalStates

\* The definitions that say what an action leaves alone.
USE DEF disk, procState, counters, history

\* An initial workspace has the types of TypeOK and no running command.
LEMMA TypeInit == Init => TypeOK /\ ChartInv
  <1> SUFFICES ASSUME Init PROVE TypeOK /\ ChartInv
    OBVIOUS
  <1>1. PICK L \in SUBSET {c \in Paths \ Outside : kind[c] = "dir"} :
          /\ meta = [c \in Paths |-> IF c \in L THEN [id |-> LegacyId(c), loc |-> c]
                                                 ELSE NoGraph]
          /\ index = {[id |-> LegacyId(c), loc |-> c] : c \in L}
          /\ written = index
    BY DEF Init
  <1>2. \A c \in Paths : [id |-> LegacyId(c), loc |-> c] \in Entry
    BY DEF Entry, LegacyIds
  <1>3. meta \in [Paths -> Entry \cup {NoGraph}] /\ index \in SUBSET Entry
    BY <1>1, <1>2
  <1>4. (CHOOSE c \in Paths : TRUE) \in Paths
    BY RegistryAssumption
  <1>5. QED
    BY <1>1, <1>3, <1>4, RegistryAssumption
    DEF Init, TypeOK, ChartInv, Creating, PcStates, ChartStates, FinalStates, Outcomes

\* Every step of a command, of its owner or of a crash keeps the types and keeps
\* a running create away from the final states.
LEMMA TypeStep == TypeOK /\ ChartInv /\ [Next]_vars => TypeOK' /\ ChartInv'
  <1> SUFFICES ASSUME TypeOK, ChartInv, [Next]_vars PROVE TypeOK' /\ ChartInv'
    OBVIOUS
  <1> USE RegistryAssumption
      DEF TypeOK, ChartInv, Creating, PcStates, Outcomes, Finish, Goto, InTransit
  <1>0. \A c \in Paths : Observed(c) \in ChartStates
                         /\ (Observed(c) = "container_manifest_synced" => meta[c] \in Entry)
    BY ObservedType
  <1>1. ASSUME NEW p \in Procs, NEW c \in Paths, StartCreate(p, c)
        PROVE  TypeOK' /\ ChartInv'
    BY <1>0, <1>1 DEF StartCreate, Entry, FinalStates
  <1>2. ASSUME NEW p \in Procs, NEW i \in Ids \cup LegacyIds, StartDelete(p, i)
        PROVE  TypeOK' /\ ChartInv'
    BY <1>2 DEF StartDelete, WithoutContainer, ListedIds
  <1>3. ASSUME NEW p \in Procs, Step(p)
        PROVE  TypeOK' /\ ChartInv'
    <2> USE <1>3
    <2>1. CASE EnterInvalidPath(p)
      BY <2>1 DEF EnterInvalidPath, ChartStates, FinalStates
    <2>2. CASE SkipHotfix(p)
      BY <2>2 DEF SkipHotfix
    <2>3. CASE MakeDirectory(p)
      BY <2>3 DEF MakeDirectory
    <2>4. CASE MetadataHotfix(p)
      BY <2>4 DEF MetadataHotfix, HotfixIds, ValidId, Entry
    <2>5. CASE MetadataHotfixRefused(p)
      BY <2>5 DEF MetadataHotfixRefused
    <2>6. CASE TruncateMetadata(p)
      BY <2>6 DEF TruncateMetadata
    <2>7. CASE WriteMetadata(p)
      BY <2>7 DEF WriteMetadata, Entry
    <2>8. CASE IndexHotfix(p)
      BY <2>8 DEF IndexHotfix, WithContainer, MetadataReady
    <2>9. CASE IndexHotfixRefused(p)
      BY <2>9 DEF IndexHotfixRefused
    <2>10. CASE TruncateIndex(p)
      BY <2>10 DEF TruncateIndex
    <2>11. CASE WriteIndex(p)
      BY <2>11 DEF WriteIndex
    <2>12. CASE ManifestHotfix(p)
      BY <2>12 DEF ManifestHotfix
    <2>13. CASE Validate(p)
      <3>1. active[p] \in ChartStates \ FinalStates /\ path[p] \in Paths
        BY <2>13 DEF Validate
      <3>2. active'[p] \in ChartStates /\ active'[p] # "invalid_path"
        BY <2>13, <3>1, SuccessorType DEF Validate
      <3>3. active'[p] \in FinalStates => active'[p] = "container_manifest_synced"
        BY <3>2 DEF FinalStates
      <3>4. active' \in [Procs -> ChartStates] /\ active'[p] = Successor[active[p]]
        BY <2>13, <3>2 DEF Validate
      <3>5. registered' \in SUBSET (Ids \cup LegacyIds)
        BY <1>0, <2>13, <3>1, <3>3, <3>4 DEF Validate, ContractHolds, Entry
      <3>6. ChartInv'
        BY <2>13, <3>2, <3>4 DEF Validate
      <3>7. QED
        BY <2>13, <3>4, <3>5, <3>6 DEF Validate
    <2>14. CASE ContractBroken(p)
      BY <2>14 DEF ContractBroken
    <2>15. CASE WriteDeindexed(p)
      BY <2>15 DEF WriteDeindexed
    <2>16. QED
      BY <2>1, <2>2, <2>3, <2>4, <2>5, <2>6, <2>7, <2>8, <2>9, <2>10, <2>11, <2>12, <2>13, <2>14, <2>15 DEF Step
  <1>4. ASSUME NEW p \in Procs, Crash(p)
        PROVE  TypeOK' /\ ChartInv'
    <2>1. newIndex[p] \in SUBSET Entry
      OBVIOUS
    <2>2. index' \in {Unreadable} \cup SUBSET Entry
      <3>1. CASE pc[p] \in {"index_write", "deindex_write"}
        <4>1. index' \in {Unreadable} \cup SUBSET newIndex[p]
          BY <1>4, <3>1 DEF Crash
        <4>2. SUBSET newIndex[p] \subseteq SUBSET Entry
          BY <2>1
        <4>3. QED
          BY <4>1, <4>2
      <3>2. CASE pc[p] \notin {"index_write", "deindex_write"}
        BY <1>4, <3>2 DEF Crash
      <3>3. QED
        BY <3>1, <3>2
    <2>3. crashes' \in 0..MaxCrashes
      BY <1>4 DEF Crash
    <2>4. QED
      BY <1>4, <2>2, <2>3 DEF Crash
  <1>5. ASSUME NEW c \in Paths, NEW d \in Paths, MoveFolder(c, d) \/ CopyFolder(c, d)
        PROVE  TypeOK' /\ ChartInv'
    BY <1>5 DEF MoveFolder, CopyFolder, FolderOp
  <1>6. ASSUME NEW c \in Paths, RemoveFolder(c) \/ EditFiles(c) \/ PutFile(c)
        PROVE  TypeOK' /\ ChartInv'
    BY <1>6 DEF RemoveFolder, EditFiles, PutFile, FolderOp
  <1>7. CASE UNCHANGED vars
    BY <1>7 DEF vars
  <1>8. QED
    BY <1>1, <1>2, <1>3, <1>4, <1>5, <1>6, <1>7 DEF Next

\* TypeOK holds of every behaviour: the statechart driver never leaves its
\* states, and the two .ttl files always hold what the hotfixes build.
THEOREM TypeCorrect == Spec => []TypeOK
  <1>1. QED
    BY TypeInit, TypeStep, PTL DEF Spec

Unique(S) == \A e, f \in S : e.id = f.id => e = f

\* What the two safety invariants need of the copies that processes hold and of
\* the containers on disk.
CopiesInv ==
    /\ \A p \in Procs : Unique(newIndex[p]) /\ newIndex[p] \subseteq written
    /\ \A c \in Paths : meta[c] # NoGraph => meta[c] \in written

SafetyInv == UniqueIds /\ IndexFromContainers /\ CopiesInv

\* The index hotfix keeps identifiers unique, whatever entry it puts in.
LEMMA WithContainerUnique ==
    ASSUME NEW S, Unique(S), NEW e
    PROVE  Unique(WithContainer(S, e))
  BY DEF Unique, WithContainer

\* Part of an index, such as a crash or a delete leaves, has unique identifiers.
LEMMA SubsetUnique ==
    ASSUME NEW S, Unique(S), NEW T, T \subseteq S
    PROVE  Unique(T)
  BY DEF Unique

\* An initial index is unique, and lists only containers of container.ttl files.
LEMMA SafetyInit == Init => SafetyInv
  <1> SUFFICES ASSUME Init PROVE SafetyInv
    OBVIOUS
  <1>1. PICK L \in SUBSET {c \in Paths \ Outside : kind[c] = "dir"} :
          /\ meta = [c \in Paths |-> IF c \in L THEN [id |-> LegacyId(c), loc |-> c]
                                                 ELSE NoGraph]
          /\ index = {[id |-> LegacyId(c), loc |-> c] : c \in L}
          /\ written = index
    BY DEF Init
  <1>2. UniqueIds
    BY <1>1 DEF UniqueIds, LegacyId
  <1>3. IndexFromContainers
    BY <1>1 DEF IndexFromContainers
  <1>4. CopiesInv
    BY <1>1 DEF Init, CopiesInv, Unique
  <1>5. QED
    BY <1>2, <1>3, <1>4 DEF SafetyInv

\* Every step keeps the index and the copies that processes hold of it unique and
\* made of entries that some container.ttl held.
LEMMA SafetyStep ==
    TypeOK /\ ChartInv /\ SafetyInv /\ [Next]_vars => SafetyInv'
  <1> SUFFICES ASSUME TypeOK, ChartInv, SafetyInv, [Next]_vars PROVE SafetyInv'
    OBVIOUS
  <1> USE DEF SafetyInv, UniqueIds, IndexFromContainers, CopiesInv
  <1>1. ASSUME NEW p \in Procs, NEW c \in Paths, StartCreate(p, c)
        PROVE  SafetyInv'
    BY <1>1 DEF StartCreate
  <1>2. ASSUME NEW p \in Procs, NEW i \in Ids \cup LegacyIds, StartDelete(p, i)
        PROVE  SafetyInv'
    <2>1. CASE i \notin ListedIds
      BY <1>2, <2>1 DEF StartDelete
    <2>2. CASE i \in ListedIds
      <3>1. index # Unreadable
        BY <2>2 DEF ListedIds
      <3>2. Unique(WithoutContainer(index, i)) /\ WithoutContainer(index, i) \subseteq written
        BY <3>1 DEF Unique, WithoutContainer
      <3>3. newIndex' = [newIndex EXCEPT ![p] = WithoutContainer(index, i)]
        BY <1>2, <2>2 DEF StartDelete
      <3>4. QED
        BY <1>2, <3>2, <3>3 DEF StartDelete, TypeOK
    <2>3. QED
      BY <2>1, <2>2
  <1>3. ASSUME NEW p \in Procs, Step(p)
        PROVE  SafetyInv'
    <2>1. CASE EnterInvalidPath(p)
      BY <2>1 DEF EnterInvalidPath
    <2>2. CASE SkipHotfix(p)
      BY <2>2 DEF SkipHotfix
    <2>3. CASE MakeDirectory(p)
      BY <2>3 DEF MakeDirectory
    <2>4. CASE MetadataHotfix(p)
      BY <2>4 DEF MetadataHotfix
    <2>5. CASE MetadataHotfixRefused(p)
      BY <2>5 DEF MetadataHotfixRefused
    <2>6. CASE TruncateMetadata(p)
      BY <2>6 DEF TruncateMetadata, TypeOK
    <2>7. CASE WriteMetadata(p)
      <3>1. newMeta[p] \in Entry /\ meta \in [Paths -> Entry \cup {NoGraph}]
        BY <2>7 DEF WriteMetadata, ChartInv, TypeOK
      <3>2. QED
        BY <2>7, <3>1 DEF WriteMetadata
    <2>8. CASE IndexHotfix(p)
      <3> DEFINE new == WithContainer(index, meta[path[p]])
      <3>1. Unique(new)
        BY <2>8, WithContainerUnique DEF IndexHotfix, Unique
      <3>2. path[p] \in Paths /\ meta[path[p]] # NoGraph
        BY <2>8 DEF IndexHotfix, MetadataReady, TypeOK
      <3>3. new \subseteq written
        BY <2>8, <3>2 DEF IndexHotfix, WithContainer
      <3>4. newIndex' = [newIndex EXCEPT ![p] = new]
        BY <2>8 DEF IndexHotfix
      <3> HIDE DEF new
      <3>5. QED
        BY <2>8, <3>1, <3>3, <3>4 DEF IndexHotfix, TypeOK
    <2>9. CASE IndexHotfixRefused(p)
      BY <2>9 DEF IndexHotfixRefused
    <2>10. CASE TruncateIndex(p)
      BY <2>10 DEF TruncateIndex, Goto
    <2>11. CASE WriteIndex(p)
      BY <2>11 DEF WriteIndex, Unique, TypeOK
    <2>12. CASE ManifestHotfix(p)
      BY <2>12 DEF ManifestHotfix
    <2>13. CASE Validate(p)
      BY <2>13 DEF Validate
    <2>14. CASE ContractBroken(p)
      BY <2>14 DEF ContractBroken
    <2>15. CASE WriteDeindexed(p)
      BY <2>15 DEF WriteDeindexed, Unique, TypeOK
    <2>16. QED
      BY <1>3, <2>1, <2>2, <2>3, <2>4, <2>5, <2>6, <2>7, <2>8, <2>9, <2>10, <2>11, <2>12, <2>13, <2>14, <2>15 DEF Step
  <1>4. ASSUME NEW p \in Procs, Crash(p)
        PROVE  SafetyInv'
    <2>1. index' = index \/ index' = Unreadable \/ index' \subseteq newIndex[p]
      BY <1>4 DEF Crash
    <2>2. Unique(newIndex[p]) /\ newIndex[p] \subseteq written
      OBVIOUS
    <2>3. \A q \in Procs : newIndex'[q] = newIndex[q] \/ newIndex'[q] = {}
      BY <1>4 DEF Crash, TypeOK
    <2>4. UniqueIds' /\ IndexFromContainers'
      BY <1>4, <2>1, <2>2, SubsetUnique DEF Crash, Unique
    <2>5. CopiesInv'
      BY <1>4, <2>3 DEF Crash, Unique
    <2>6. QED
      BY <2>4, <2>5
  <1>5. ASSUME NEW c \in Paths, NEW d \in Paths, MoveFolder(c, d) \/ CopyFolder(c, d)
        PROVE  SafetyInv'
    BY <1>5 DEF MoveFolder, CopyFolder, FolderOp, TypeOK
  <1>6. ASSUME NEW c \in Paths, RemoveFolder(c) \/ EditFiles(c) \/ PutFile(c)
        PROVE  SafetyInv'
    BY <1>6 DEF RemoveFolder, EditFiles, PutFile, FolderOp, TypeOK
  <1>7. CASE UNCHANGED vars
    BY <1>7 DEF vars
  <1>8. QED
    BY <1>1, <1>2, <1>3, <1>4, <1>5, <1>6, <1>7 DEF Next

\* storage.ttl never lists an identifier twice, however many processes rewrite
\* it from stale or truncated copies and wherever they are killed.
THEOREM IndexIdsUnique == Spec => []UniqueIds
  <1>1. SafetyInv => UniqueIds
    BY DEF SafetyInv
  <1>2. QED
    BY <1>1, TypeInit, TypeStep, SafetyInit, SafetyStep, PTL DEF Spec

\* Every entry of storage.ttl was once the container of a container.ttl.
THEOREM IndexEntriesReal == Spec => []IndexFromContainers
  <1>1. SafetyInv => IndexFromContainers
    BY DEF SafetyInv
  <1>2. QED
    BY <1>1, TypeInit, TypeStep, SafetyInit, SafetyStep, PTL DEF Spec

-----------------------------------------------------------------------------
(* Identity, when one process runs at a time and none is killed.           *)

HasValidId(c) == meta[c] # NoGraph /\ ValidId(meta[c].id)

\* A folder that was given an identifier has it in container.ttl, or a process
\* that has truncated the file is about to write the same identifier back.
IdentityInv ==
    /\ IdentityKept
    /\ \A c \in Paths : identity[c] # NoId =>
          HasValidId(c) \/ \E p \in Procs : pc[p] = "meta_write" /\ path[p] = c
    /\ \A p \in Procs : pc[p] \in {"meta_truncate", "meta_write"} =>
          /\ newMeta[p] \in [id : Ids, loc : Paths]
          /\ identity[path[p]] \in {NoId, newMeta[p].id}

\* "a container's id never changes for the container's lifetime" (identifier.py):
\* true of every history of creates, deletes, moves, copies and removals in
\* which commands run one after the other and end.
THEOREM IdentityStable ==
    ASSUME NEW P, Procs = {P}, MaxCrashes = 0
    PROVE  Spec => []IdentityKept
  <1> USE DEF IdentityInv, IdentityKept, HasValidId, ValidId
  <1>1. Init => IdentityInv
    <2> SUFFICES ASSUME Init PROVE IdentityInv
      OBVIOUS
    <2>1. PICK L \in SUBSET {c \in Paths \ Outside : kind[c] = "dir"} :
          meta = [c \in Paths |-> IF c \in L THEN [id |-> LegacyId(c), loc |-> c]
                                             ELSE NoGraph]
      BY DEF Init
    <2>2. \A c \in Paths : LegacyId(c) \notin Ids
      BY RegistryAssumption DEF LegacyIds
    <2>3. \A c \in Paths : ~HasValidId(c)
      BY <2>1, <2>2
    <2>4. QED
      BY <2>3 DEF Init
  <1>2. TypeOK /\ ChartInv /\ IdentityInv /\ [Next]_vars => IdentityInv'
    <2> SUFFICES ASSUME TypeOK, ChartInv, IdentityInv, [Next]_vars PROVE IdentityInv'
      OBVIOUS
    <2> USE RegistryAssumption DEF TypeOK
    \* A step that starts and ends away from the write of container.ttl.
    <2>0. ASSUME pc[P] \notin {"meta_truncate", "meta_write"},
                 pc'[P] \notin {"meta_truncate", "meta_write"},
                 UNCHANGED <<meta, identity>>
          PROVE  IdentityInv'
      BY <2>0
    <2>1. ASSUME NEW c \in Paths, StartCreate(P, c)
          PROVE  IdentityInv'
      BY <2>1 DEF StartCreate, Finish, Goto
    <2>2. ASSUME NEW i \in Ids \cup LegacyIds, StartDelete(P, i)
          PROVE  IdentityInv'
      BY <2>2 DEF StartDelete, Finish, Goto
    <2>3. CASE Step(P)
      <3>1. CASE MetadataHotfix(P)
        <4>1. ~\E p \in Procs : pc[p] = "meta_write"
          BY <3>1 DEF MetadataHotfix, InTransit
        <4>2. PICK i \in HotfixIds(path[P]) :
                newMeta' = [newMeta EXCEPT ![P] = [id |-> i, loc |-> path[P]]]
          BY <3>1 DEF MetadataHotfix
        <4>3. i \in Ids /\ identity[path[P]] \in {NoId, i}
          BY <4>1, <4>2 DEF HotfixIds
        <4>4. QED
          BY <3>1, <4>1, <4>2, <4>3 DEF MetadataHotfix, Goto
      <3>2. CASE TruncateMetadata(P)
        BY <3>2 DEF TruncateMetadata, Goto
      <3>3. CASE WriteMetadata(P)
        <4>1. newMeta[P] \in [id : Ids, loc : Paths] /\ newMeta[P] # NoGraph
          BY <3>3 DEF WriteMetadata, Entry
        <4>2. QED
          BY <3>3, <4>1 DEF WriteMetadata, Goto
      <3>4. CASE EnterInvalidPath(P)
        BY <2>0, <3>4 DEF EnterInvalidPath, InTransit, Finish, Goto
      <3>5. CASE SkipHotfix(P)
        BY <2>0, <3>5 DEF SkipHotfix, InTransit, Finish, Goto
      <3>6. CASE MakeDirectory(P)
        BY <2>0, <3>6 DEF MakeDirectory, InTransit, Finish, Goto
      <3>7. CASE MetadataHotfixRefused(P)
        BY <2>0, <3>7 DEF MetadataHotfixRefused, InTransit, Finish, Goto
      <3>8. CASE IndexHotfix(P)
        BY <2>0, <3>8 DEF IndexHotfix, InTransit, Finish, Goto
      <3>9. CASE IndexHotfixRefused(P)
        BY <2>0, <3>9 DEF IndexHotfixRefused, InTransit, Finish, Goto
      <3>10. CASE TruncateIndex(P)
        BY <2>0, <3>10 DEF TruncateIndex, InTransit, Finish, Goto
      <3>11. CASE WriteIndex(P)
        BY <2>0, <3>11 DEF WriteIndex, InTransit, Finish, Goto
      <3>12. CASE ManifestHotfix(P)
        BY <2>0, <3>12 DEF ManifestHotfix, InTransit, Finish, Goto
      <3>13. CASE Validate(P)
        BY <2>0, <3>13 DEF Validate, InTransit, Finish, Goto
      <3>14. CASE ContractBroken(P)
        BY <2>0, <3>14 DEF ContractBroken, InTransit, Finish, Goto
      <3>15. CASE WriteDeindexed(P)
        BY <2>0, <3>15 DEF WriteDeindexed, InTransit, Finish, Goto
      <3>16. QED
        BY <2>3, <3>1, <3>2, <3>3, <3>4, <3>5, <3>6, <3>7, <3>8, <3>9, <3>10, <3>11, <3>12, <3>13, <3>14, <3>15 DEF Step
    <2>4. ~Crash(P)
      BY DEF Crash
    <2>5. ASSUME NEW c \in Paths, NEW d \in Paths, MoveFolder(c, d)
          PROVE  IdentityInv'
      BY <2>5 DEF MoveFolder, FolderOp, AllIdle
    <2>6. ASSUME NEW c \in Paths, NEW d \in Paths, CopyFolder(c, d)
          PROVE  IdentityInv'
      BY <2>6 DEF CopyFolder, FolderOp, AllIdle
    <2>7. ASSUME NEW c \in Paths, RemoveFolder(c) \/ EditFiles(c) \/ PutFile(c)
          PROVE  IdentityInv'
      BY <2>7 DEF RemoveFolder, EditFiles, PutFile, FolderOp, AllIdle
    <2>8. CASE UNCHANGED vars
      BY <2>8 DEF vars
    <2>9. QED
      BY <2>1, <2>2, <2>3, <2>4, <2>5, <2>6, <2>7, <2>8 DEF Next
  <1>3. QED
    BY <1>1, <1>2, TypeInit, TypeStep, PTL DEF Spec

-----------------------------------------------------------------------------
(* Registration, when one process runs at a time and none is killed.       *)

IdsOf(entries) == {e.id : e \in entries}

\* storage.ttl lists what was reported as created, and so does the copy that is
\* about to replace it, but for the identifier that is being deleted.
RegistrationInv ==
    /\ RegistrationKept
    /\ \A p \in Procs : pc[p] \in {"index_truncate", "index_write"} =>
          registered \subseteq IdsOf(newIndex[p])
    /\ \A p \in Procs : pc[p] \in {"deindex_truncate", "deindex_write"} =>
          registered \ {doomed[p]} \subseteq IdsOf(newIndex[p])

\* The index hotfix lists every identifier that was listed before.
LEMMA WithContainerLists ==
    ASSUME NEW entries, NEW e
    PROVE  IdsOf(entries) \subseteq IdsOf(WithContainer(entries, e))
  BY DEF IdsOf, WithContainer

\* A delete takes one identifier out.
LEMMA WithoutContainerLists ==
    ASSUME NEW entries, NEW i
    PROVE  IdsOf(entries) \ {i} \subseteq IdsOf(WithoutContainer(entries, i))
  BY DEF IdsOf, WithoutContainer

\* A container in the final state of the chart is listed.
LEMMA SyncedIsListed ==
    ASSUME NEW c \in Paths, Observed(c) = "container_manifest_synced"
    PROVE  index # Unreadable /\ meta[c].id \in ListedIds
  <1>1. IndexReady(c)
    BY DEF Observed, ManifestSynced
  <1>2. index # Unreadable /\ meta[c] \in index
    BY <1>1 DEF IndexReady
  <1>3. QED
    BY <1>2 DEF ListedIds

\* "The local storage container directory, metadata, storage index entry, and
\* manifest are ready for the next creation steps" (machine.py) stays true: what a
\* create reported stays in storage.ttl until its delete, in every history in which
\* commands run one after the other and end.
THEOREM RegistrationStable ==
    ASSUME NEW P, Procs = {P}, MaxCrashes = 0
    PROVE  Spec => []RegistrationKept
  <1>1. Init => RegistrationInv
    <2> SUFFICES ASSUME Init PROVE RegistrationInv
      OBVIOUS
    <2>1. index # Unreadable
      BY TypeInit, RegistryAssumption DEF Init, Entry, LegacyIds
    <2>2. QED
      BY <2>1 DEF Init, RegistrationInv, RegistrationKept
  <1>2. TypeOK /\ ChartInv /\ RegistrationInv /\ [Next]_vars => RegistrationInv'
    <2> SUFFICES ASSUME TypeOK, ChartInv, RegistrationInv, [Next]_vars PROVE RegistrationInv'
      OBVIOUS
    <2>t. /\ pc \in [Procs -> PcStates] /\ newIndex \in [Procs -> SUBSET Entry]
          /\ path \in [Procs -> Paths] /\ active \in [Procs -> ChartStates]
          /\ doomed \in [Procs -> Ids \cup LegacyIds \cup {NoId}]
      BY DEF TypeOK
    <2>k. pc[P] \notin {"index_write", "deindex_write"} =>
            index # Unreadable /\ registered \subseteq ListedIds
      BY DEF RegistrationInv, RegistrationKept, IndexOpen
    <2>l. index # Unreadable => ListedIds = IdsOf(index)
      BY DEF ListedIds, IdsOf
    \* A step away from storage.ttl that reports at most what is listed.
    <2>0. ASSUME pc[P] \notin {"index_write", "deindex_write"},
                 pc'[P] \notin {"index_truncate", "index_write", "deindex_truncate", "deindex_write"},
                 index' = index, registered' \subseteq registered \cup ListedIds
          PROVE  RegistrationInv'
      <3>1. ListedIds' = ListedIds
        BY <2>0 DEF ListedIds
      <3>2. index' # Unreadable /\ registered' \subseteq ListedIds'
        BY <2>0, <2>k, <3>1
      <3>3. QED
        BY <2>0, <3>2 DEF RegistrationInv, RegistrationKept
    <2>1. ASSUME NEW c \in Paths, StartCreate(P, c)
          PROVE  RegistrationInv'
      <3>1. registered' \subseteq registered \cup ListedIds
        BY <2>1, SyncedIsListed DEF StartCreate
      <3>2. pc[P] = "idle" /\ pc'[P] \in {"idle", "transit"} /\ index' = index
        BY <2>1, <2>t DEF StartCreate, Finish, Goto
      <3>3. QED
        BY <2>0, <3>1, <3>2
    <2>2. ASSUME NEW i \in Ids \cup LegacyIds, StartDelete(P, i)
          PROVE  RegistrationInv'
      <3>1. pc[P] = "idle" /\ index' = index /\ registered' = registered
        BY <2>2 DEF StartDelete
      <3>2. CASE i \notin ListedIds
        <4>1. pc'[P] = "idle"
          BY <2>2, <2>t, <3>2 DEF StartDelete, Finish
        <4>2. QED
          BY <2>0, <3>1, <4>1
      <3>3. CASE i \in ListedIds
        <4>1. /\ newIndex'[P] = WithoutContainer(index, i) /\ doomed'[P] = i
              /\ pc'[P] = "deindex_truncate"
          BY <2>2, <2>t, <3>3 DEF StartDelete, Goto
        <4>2. index # Unreadable /\ registered \subseteq IdsOf(index)
          BY <2>k, <2>l, <3>1
        <4>3. registered' \ {i} \subseteq IdsOf(newIndex'[P])
          BY <3>1, <4>1, <4>2, WithoutContainerLists
        <4>4. index' # Unreadable /\ registered' \subseteq ListedIds'
          BY <2>k, <3>1 DEF ListedIds
        <4>5. QED
          BY <4>1, <4>3, <4>4 DEF RegistrationInv, RegistrationKept
      <3>4. QED
        BY <3>2, <3>3
    <2>3. CASE Step(P)
      <3>1. CASE EnterInvalidPath(P) \/ SkipHotfix(P) \/ MakeDirectory(P) \/ MetadataHotfixRefused(P)
        BY <2>0, <2>t, <3>1
        DEF EnterInvalidPath, SkipHotfix, MakeDirectory, MetadataHotfixRefused, InTransit, Finish, Goto
      <3>2. CASE MetadataHotfix(P) \/ TruncateMetadata(P) \/ WriteMetadata(P)
        BY <2>0, <2>t, <3>2 DEF MetadataHotfix, TruncateMetadata, WriteMetadata, InTransit, Goto
      <3>3. CASE IndexHotfixRefused(P) \/ ManifestHotfix(P) \/ ContractBroken(P)
        BY <2>0, <2>t, <3>3 DEF IndexHotfixRefused, ManifestHotfix, ContractBroken, InTransit, Finish, Goto
      <3>4. CASE IndexHotfix(P)
        <4> DEFINE new == WithContainer(index, meta[path[P]])
        <4>1. /\ newIndex'[P] = new /\ pc'[P] = "index_truncate" /\ pc[P] = "transit"
              /\ index' = index /\ registered' = registered
          BY <2>t, <3>4 DEF IndexHotfix, InTransit, Goto
        <4>2. index # Unreadable /\ registered \subseteq IdsOf(index)
          BY <2>k, <2>l, <4>1
        <4>3. IdsOf(index) \subseteq IdsOf(new)
          BY WithContainerLists
        <4> HIDE DEF new
        <4>4. registered' \subseteq IdsOf(newIndex'[P])
          BY <4>1, <4>2, <4>3
        <4>5. index' # Unreadable /\ registered' \subseteq ListedIds'
          BY <2>k, <4>1 DEF ListedIds
        <4>6. QED
          BY <4>1, <4>4, <4>5 DEF RegistrationInv, RegistrationKept
      <3>5. CASE TruncateIndex(P)
        <4>1. /\ newIndex' = newIndex /\ doomed' = doomed /\ registered' = registered
              /\ \/ pc[P] = "index_truncate" /\ pc'[P] = "index_write"
                 \/ pc[P] = "deindex_truncate" /\ pc'[P] = "deindex_write"
          BY <2>t, <3>5 DEF TruncateIndex, Goto
        <4>2. QED
          BY <4>1 DEF RegistrationInv, RegistrationKept, IndexOpen
      <3>6. CASE WriteIndex(P)
        <4>1. pc[P] = "index_write" /\ pc'[P] = "validate" /\ index' = newIndex[P] /\ registered' = registered
          BY <2>t, <3>6 DEF WriteIndex, Goto
        <4>2. index' # Unreadable
          BY <2>t, <4>1, RegistryAssumption
        <4>3. registered' \subseteq ListedIds'
          BY <4>1, <4>2 DEF RegistrationInv, ListedIds, IdsOf
        <4>4. QED
          BY <4>1, <4>2, <4>3 DEF RegistrationInv, RegistrationKept
      <3>7. CASE Validate(P)
        <4>1. /\ pc[P] = "validate" /\ pc'[P] \in {"idle", "transit"} /\ index' = index
          BY <2>t, <3>7 DEF Validate, Finish, Goto
        <4>2. path[P] \in Paths /\ active[P] \in ChartStates \ FinalStates
          BY <2>t, <4>1 DEF ChartInv, Creating
        <4>3. Successor[active[P]] \in FinalStates => Successor[active[P]] = "container_manifest_synced"
          BY <4>2, SuccessorType DEF FinalStates
        <4>4. registered' \subseteq registered \cup ListedIds
          BY <3>7, <4>2, <4>3, SyncedIsListed DEF Validate, ContractHolds
        <4>5. QED
          BY <2>0, <4>1, <4>4
      <3>8. CASE WriteDeindexed(P)
        <4>1. /\ pc[P] = "deindex_write" /\ pc'[P] = "idle" /\ index' = newIndex[P]
              /\ registered' = registered \ {doomed[P]}
          BY <2>t, <3>8 DEF WriteDeindexed, Finish
        <4>2. index' # Unreadable
          BY <2>t, <4>1, RegistryAssumption
        <4>3. registered' \subseteq ListedIds'
          BY <4>1, <4>2 DEF RegistrationInv, ListedIds, IdsOf
        <4>4. QED
          BY <4>1, <4>2, <4>3 DEF RegistrationInv, RegistrationKept
      <3>9. QED
        BY <2>3, <3>1, <3>2, <3>3, <3>4, <3>5, <3>6, <3>7, <3>8 DEF Step
    <2>4. ~Crash(P)
      BY DEF Crash, TypeOK
    \* A step that leaves the processes, storage.ttl and the reports alone.
    <2>5. ASSUME UNCHANGED <<index, pc, newIndex, doomed, registered>>
          PROVE  RegistrationInv'
      BY <2>5 DEF RegistrationInv, RegistrationKept, IndexOpen, ListedIds
    <2>6. ASSUME NEW c \in Paths, NEW d \in Paths, MoveFolder(c, d) \/ CopyFolder(c, d)
          PROVE  RegistrationInv'
      BY <2>5, <2>6 DEF MoveFolder, CopyFolder, FolderOp
    <2>7. ASSUME NEW c \in Paths, RemoveFolder(c) \/ EditFiles(c) \/ PutFile(c)
          PROVE  RegistrationInv'
      BY <2>5, <2>7 DEF RemoveFolder, EditFiles, PutFile, FolderOp
    <2>8. CASE UNCHANGED vars
      BY <2>5, <2>8 DEF vars
    <2>9. QED
      BY <2>1, <2>2, <2>3, <2>4, <2>6, <2>7, <2>8 DEF Next
  <1>3. RegistrationInv => RegistrationKept
    BY DEF RegistrationInv
  <1>4. QED
    BY <1>1, <1>2, <1>3, TypeInit, TypeStep, PTL DEF Spec

-----------------------------------------------------------------------------
(* The write phase of an attachment.                                       *)

\* Where the loops of the transaction stand, in terms of the files they have
\* already visited (f < at) and the ones they have not.
LoopInv ==
    /\ loop = "backup" => /\ AllOriginal /\ temp = Absent
                          /\ \A f \in Files : f < at => backup[f] = "old"
    /\ loop = "temps" => /\ AllOriginal /\ BackedUp
                         /\ \A f \in Files : f < at => temp[f] = "new"
    /\ loop = "replace" => /\ BackedUp
                           /\ \A f \in Files : f < at => file[f] = "new" /\ temp[f] = "none"
                           /\ \A f \in Files : f >= at => file[f] = "old" /\ temp[f] = "new"
    /\ loop \in {"undo", "cleanup", "restore"} => BackedUp
    /\ loop = "restore" /\ failed = "no" => \A f \in Files : f < at => file[f] = "old"
    /\ loop = "keep_new" => AllNew /\ temp = Absent
    /\ loop = "keep_old" => AllOriginal
    /\ loop # "end" <=> ending = "none"

\* The inductive invariant.
AttachInv == ATTypeOK /\ LoopInv /\ OutcomeIsTrue /\ Recoverable

\* The transaction starts in the invariant.
LEMMA AttachInit == ATInit => AttachInv
BY FilesAssumption DEF ATInit, AttachInv, ATTypeOK, LoopInv, OutcomeIsTrue, Recoverable, AllNew,
   AllOriginal, BackedUp, Absent, Files, Loops, Contents, Endings

\* Temporaries that are each absent are all absent.
LEMMA AllAbsent ==
    ASSUME NEW t \in [Files -> {"none", "new", "torn"}], \A f \in Files : t[f] = "none"
    PROVE  t = Absent
BY DEF Absent

\* Every step of the transaction keeps the invariant.
LEMMA AttachStep == AttachInv /\ [ATNext]_ATVars => AttachInv'
<1> SUFFICES ASSUME AttachInv, [ATNext]_ATVars PROVE AttachInv'
  OBVIOUS
<1> USE FilesAssumption
<1> USE DEF AttachInv, ATTypeOK, LoopInv, OutcomeIsTrue, Recoverable, AllNew, AllOriginal, BackedUp,
            Files, Loops, Contents, Endings, Absent
<1>1. CASE BackupFile
  BY <1>1 DEF BackupFile, Advance
<1>2. CASE BackupFails
  BY <1>2 DEF BackupFails, End
<1>3. CASE WriteTemporary
  BY <1>3 DEF WriteTemporary, Advance
<1>4. CASE TemporaryFails
  BY <1>4 DEF TemporaryFails, Enter
<1>5. CASE ReplaceFile
  <2>1. loop = "replace" /\ at \in 1..N /\ at >= at /\ ending = "none"
    BY <1>5 DEF ReplaceFile
  <2>2. temp[at] = "new"
    BY <2>1
  <2>3. /\ file' = [file EXCEPT ![at] = "new"]
        /\ temp' = [temp EXCEPT ![at] = "none"]
        /\ UNCHANGED <<backup, failed, attempt, ending>>
    BY <1>5, <2>2 DEF ReplaceFile
  <2>4. CASE at < N
    <3>1. at' = at + 1 /\ loop' = "replace"
      BY <1>5, <2>1, <2>4 DEF ReplaceFile, Advance
    <3>2. \A f \in 1..N : f < at + 1 <=> f < at \/ f = at
      BY <2>1
    <3> QED
      BY <2>1, <2>3, <2>4, <3>1, <3>2
  <2>5. CASE ~(at < N)
    <3>1. at = N /\ at' = 1 /\ loop' = "keep_new"
      BY <1>5, <2>1, <2>5 DEF ReplaceFile, Advance
    <3>2. \A f \in 1..N : f < at \/ f = at
      BY <2>1, <3>1
    <3>3. \A f \in 1..N : file'[f] = "new" /\ temp'[f] = "none"
      BY <2>1, <2>3, <3>2
    <3>4. temp' \in [1..N -> {"none", "new", "torn"}]
      BY <2>3
    <3>5. temp' = Absent
      <4> HIDE DEF AttachInv, Absent
      <4> QED
        BY <3>3, <3>4, AllAbsent
    <3>6. ATTypeOK'
      BY <2>1, <2>3, <3>1, <3>4
    <3>7. LoopInv'
      <4> HIDE DEF AttachInv, ATTypeOK, Absent, OutcomeIsTrue, Recoverable, Loops, Contents, Endings
      <4> QED
        BY <2>1, <2>3, <3>1, <3>3, <3>5
    <3>8. OutcomeIsTrue' /\ Recoverable'
      BY <2>1, <2>3, <3>3
    <3> HIDE DEF ATTypeOK, LoopInv, OutcomeIsTrue, Recoverable
    <3> QED
      BY <3>6, <3>7, <3>8
  <2> QED
    BY <2>4, <2>5
<1>6. CASE ReplaceFails
  BY <1>6 DEF ReplaceFails, Enter
<1>7. CASE UndoFile
  BY <1>7 DEF UndoFile, Advance
<1>8. CASE UndoFails
  BY <1>8 DEF UndoFails, Advance
<1>9. CASE CleanTemporary
  BY <1>9 DEF CleanTemporary, Advance
<1>10. CASE CleanFails
  BY <1>10 DEF CleanFails, Enter
<1>11. CASE RestoreFile
  BY <1>11 DEF RestoreFile, NextRestore, EndRestore, Enter, End
<1>12. CASE RestoreFails
  BY <1>12 DEF RestoreFails, NextRestore, EndRestore, Enter, End
<1>13. CASE DiscardBackup
  BY <1>13 DEF DiscardBackup, End
<1>14. CASE Kill
  BY <1>14 DEF Kill, End
<1>15. CASE UNCHANGED ATVars
  BY <1>15 DEF ATVars
<1> QED
  BY <1>1, <1>2, <1>3, <1>4, <1>5, <1>6, <1>7, <1>8, <1>9, <1>10, <1>11, <1>12, <1>13, <1>14, <1>15 DEF ATNext, ATStep

\* The invariant holds throughout the transaction.
LEMMA AttachInvariance == ATSpec => []AttachInv
BY AttachInit, AttachStep, PTL DEF ATSpec

\* Every variable of the transaction keeps its type.  The type of `backup` and of
\* `file` needs the loop invariant: what is backed up is the original, and what
\* replaces a file is a complete temporary.
THEOREM AttachTypeCorrect == ATSpec => []ATTypeOK
<1>1. AttachInv => ATTypeOK
  BY DEF AttachInv
<1> QED
  BY <1>1, AttachInvariance, PTL

\* An attachment that reports success has rewritten every graph file; one that was
\* undone, or whose backup failed, has left every file as it was.
THEOREM ReportsTrue == ATSpec => []OutcomeIsTrue
<1>1. AttachInv => OutcomeIsTrue
  BY DEF AttachInv
<1> QED
  BY <1>1, AttachInvariance, PTL

\* While the files are mixed or torn, the backup has every original.
THEOREM BackupKept == ATSpec => []Recoverable
<1>1. AttachInv => Recoverable
  BY DEF AttachInv
<1> QED
  BY <1>1, AttachInvariance, PTL

\* An initial state of the transaction is one of AtomicAttach.
LEMMA RefinesInit == ATInit => Abstract!Init
BY DEF ATInit, Abstract!Init

\* A step of the transaction is a step of AtomicAttach when it ends the
\* attachment, and a stutter otherwise.
LEMMA RefinesStep == AttachInv /\ AttachInv' /\ [ATNext]_ATVars => [Abstract!Next]_(Abstract!vars)
<1> SUFFICES ASSUME AttachInv, AttachInv', [ATNext]_ATVars PROVE [Abstract!Next]_(Abstract!vars)
  OBVIOUS
<1>1. CASE ending' = "none"
  <2>1. ending = "none"
    BY <1>1 DEF AttachInv, LoopInv, ATNext, ATStep, ATVars, BackupFile, BackupFails, WriteTemporary,
       TemporaryFails, ReplaceFile, ReplaceFails, UndoFile, UndoFails, CleanTemporary,
       CleanFails, RestoreFile, RestoreFails, NextRestore, EndRestore, Enter, DiscardBackup,
       Kill, End, Advance
  <2> QED
    BY <1>1, <2>1 DEF Abstract!vars
<1>2. CASE ending' # "none" /\ ending = "none"
  <2>1. Abstract!Next
    BY <1>2 DEF AttachInv, ATTypeOK, OutcomeIsTrue, Endings, AllNew, AllOriginal, Files,
       Abstract!Next, Abstract!Commit, Abstract!Abort, Abstract!Damage
  <2> QED
    BY <2>1
<1>3. CASE ending # "none"
  <2>1. loop = "end"
    BY <1>3 DEF AttachInv, LoopInv
  <2>2. UNCHANGED ATVars
    BY <2>1 DEF ATNext, ATStep, ATVars, BackupFile, BackupFails, WriteTemporary,
       TemporaryFails, ReplaceFile, ReplaceFails, UndoFile, UndoFails, CleanTemporary,
       CleanFails, RestoreFile, RestoreFails, DiscardBackup, Kill
  <2> QED
    BY <2>2 DEF ATVars, Abstract!vars, AllNew, AllOriginal
<1> QED
  BY <1>1, <1>2, <1>3

\* The transaction implements AtomicAttach, whatever the number of files and
\* whichever operations fail or crash.
THEOREM Refines == ATSpec => ImplementsAtomicAttach
<1>1. ATInit => Abstract!Init
  BY RefinesInit
<1>2. AttachInv /\ AttachInv' /\ [ATNext]_ATVars => [Abstract!Next]_(Abstract!vars)
  BY RefinesStep
<1> QED
  BY <1>1, <1>2, AttachInvariance, PTL DEF ATSpec, ImplementsAtomicAttach, Abstract!Spec
=============================================================================
