------------------------- MODULE EntityInstancesProofs -------------------------
(***************************************************************************)
(* Theorems about entity instances and their datasets, for every set of    *)
(* types, fields and paths and any number of commands, edits and           *)
(* interruptions.                                                          *)
(***************************************************************************)
EXTENDS EntityInstances, WellFoundedInduction, NaturalsInduction, TLAPS

-----------------------------------------------------------------------------
(* The inductive invariant.                                                *)

\* Nobody has changed p behind the commands' back, or nothing was damaged at all.
Trusted(p) == ~damaged \/ p \notin touched

\* What is not a directory has no files.
KindOK(d) == d.kind # "directory" => d.facade = NoFacade /\ d.meta = NoMeta

KindInv == \A p \in Paths : KindOK(data[p])

Chart_pc == {"chart", "perform", "validate"}
Create_pc == {"workbook", "package", "frictionless", "relate", "facade", "type"}
Dataset_pc == {"metadata", "index", "sync", "mark"}

\* Which command is at which step.
CommandInv ==
    /\ pc = "idle" => command = "none"
    /\ pc \in Chart_pc => command \in {"create", "dataset"}
    /\ pc \in Create_pc => command = "create"
    /\ pc \in Dataset_pc \cup {"repair", "next"} => command = "update"
    /\ pc \in Chart_pc \cup Create_pc \cup Dataset_pc => path \in Paths

\* A facade comes with its workbook and its descriptor, a typed entity with its row.
DataOK(d) ==
    /\ Whole(d.facade) =>
         /\ Whole(d.workbook)
         /\ Whole(d.package) /\ d.package.resource /\ d.package.type = d.facade.type
    /\ d.meta.type # None => d.meta.instance \in d.workbook.rows

DataInv == \A p \in Paths : Trusted(p) => DataOK(data[p])

\* Without damage no facade is torn, and one comes with a dataset.ttl that loads.
FacadeOK(d) == d.facade.status # "torn" /\ (Whole(d.facade) => Whole(d.meta))

FacadeInv == ~damaged => \A p \in Paths : FacadeOK(data[p])

FilesInv == KindInv /\ DataInv /\ FacadeInv

\* How far context --create has come with the dataset it started on a free path.
StageInv ==
    (command = "create" /\ Trusted(path)) =>
      /\ pc \in Chart_pc => data[path].kind # "file"
      /\ pc \in Chart_pc \cup (Create_pc \ {"type"}) => data[path].facade.status = "missing"
      /\ pc \in Chart_pc \cup {"workbook", "package", "frictionless", "relate"} =>
           data[path].meta.type = None
      /\ pc \in Create_pc \ {"workbook"} =>
           Whole(data[path].workbook) /\ commands \in data[path].workbook.rows
      /\ pc \in Create_pc \ {"workbook", "package"} => DescriptorFound(path, path[1])
      /\ pc \in Create_pc /\ ~damaged => IndexReady(path)
      /\ pc \in {"facade", "type"} => data[path].meta.type = path[1]
      /\ pc = "type" => Describes(path, path[1])

\* An instance that was reported, in a dataset nobody has changed.
Reported(c) ==
    /\ IndexReady(c.path) /\ Describes(c.path, c.path[1])
    /\ data[c.path].meta.type = c.path[1]
    /\ c.instance \in data[c.path].workbook.rows

CreatedInv == ~damaged => \A c \in created : c.path \notin touched => Reported(c)

ContainerInv == ~damaged => Whole(container)

\* What an update leaves of a dataset.
Done(p) ==
    /\ IndexReady(p) /\ DatapackageUpdated(p)
    /\ FacadeValid(p) => SurfaceableSynced(p) \/ data[p].typeFile.status = "torn"

\* How far an update has come.
UpdateInv ==
    (command = "update" /\ ~disturbed /\ pc # "repair") =>
      /\ queue \subseteq container.entries /\ Whole(container)
      /\ \A p \in container.entries \ queue :
           (pc \in Dataset_pc => p # path) => Done(p)
      /\ pc \in Dataset_pc => path \in container.entries \ queue
      /\ pc \in {"index", "sync", "mark"} => MetadataReady(path)
      /\ pc = "mark" => DatapackageUpdated(path)

IInv ==
    /\ TypeOK /\ CommandInv /\ FilesInv /\ StageInv
    /\ CreatedInv /\ ContainerInv /\ UpdateInv /\ UpdatedIsReady

-----------------------------------------------------------------------------
(* Datasets.                                                               *)

Metas == [status : Statuses, subject : Paths \cup {None}, owner : Nat,
          type : Types \cup {None}, instance : Nat, surfaceable : BOOLEAN]
Workbooks == [status : Statuses, type : Types \cup {None}, rows : SUBSET Nat]
Packages == [status : Statuses, resource : BOOLEAN, type : Types \cup {None}]
Facades == [status : Statuses, type : Types \cup {None}]
TypeFiles == [status : Statuses, surfaceable : BOOLEAN]

\* The files of a dataset, and a dataset made of files.
LEMMA DatasetParts ==
    /\ \A d \in Datasets :
         /\ d.kind \in {"absent", "file", "directory"} /\ d.meta \in Metas
         /\ d.workbook \in Workbooks /\ d.package \in Packages
         /\ d.facade \in Facades /\ d.typeFile \in TypeFiles
         /\ d = [kind |-> d.kind, meta |-> d.meta, workbook |-> d.workbook,
                 package |-> d.package, facade |-> d.facade, typeFile |-> d.typeFile]
    /\ \A k \in {"absent", "file", "directory"}, m \in Metas, w \in Workbooks,
          g \in Packages, f \in Facades, t \in TypeFiles :
         [kind |-> k, meta |-> m, workbook |-> w, package |-> g, facade |-> f,
          typeFile |-> t] \in Datasets
  BY DEF Datasets, Metas, Workbooks, Packages, Facades, TypeFiles

\* What the steps write into a dataset.
LEMMA Written ==
    ASSUME NEW d \in Datasets
    PROVE  /\ [d EXCEPT !.kind = "directory"] \in Datasets
           /\ \A m \in Metas : [d EXCEPT !.meta = m] \in Datasets
           /\ \A m \in Metas : [d EXCEPT !.kind = "directory", !.meta = m] \in Datasets
           /\ \A w \in Workbooks : [d EXCEPT !.workbook = w] \in Datasets
           /\ \A w \in Workbooks : [d EXCEPT !.kind = "directory", !.workbook = w] \in Datasets
           /\ \A g \in Packages : [d EXCEPT !.package = g] \in Datasets
           /\ \A g \in Packages : [d EXCEPT !.kind = "directory", !.package = g] \in Datasets
           /\ \A f \in Facades : [d EXCEPT !.facade = f] \in Datasets
           /\ \A f \in Facades : [d EXCEPT !.kind = "directory", !.facade = f] \in Datasets
           /\ \A t \in TypeFiles : [d EXCEPT !.typeFile = t] \in Datasets
  <1>1. /\ d.kind \in {"absent", "file", "directory"} /\ d.meta \in Metas
        /\ d.workbook \in Workbooks /\ d.package \in Packages
        /\ d.facade \in Facades /\ d.typeFile \in TypeFiles
    BY DatasetParts
  <1>2. [d EXCEPT !.kind = "directory"] \in Datasets
    BY <1>1 DEF Datasets
  <1>3. ASSUME NEW m \in Metas
        PROVE  /\ [d EXCEPT !.meta = m] \in Datasets
               /\ [d EXCEPT !.kind = "directory", !.meta = m] \in Datasets
    BY DEF Datasets, Metas
  <1>4. ASSUME NEW w \in Workbooks
        PROVE  /\ [d EXCEPT !.workbook = w] \in Datasets
               /\ [d EXCEPT !.kind = "directory", !.workbook = w] \in Datasets
    BY DEF Datasets, Workbooks
  <1>5. ASSUME NEW g \in Packages
        PROVE  /\ [d EXCEPT !.package = g] \in Datasets
               /\ [d EXCEPT !.kind = "directory", !.package = g] \in Datasets
    BY DEF Datasets, Packages
  <1>6. ASSUME NEW f \in Facades
        PROVE  /\ [d EXCEPT !.facade = f] \in Datasets
               /\ [d EXCEPT !.kind = "directory", !.facade = f] \in Datasets
    BY DEF Datasets, Facades
  <1>7. ASSUME NEW t \in TypeFiles
        PROVE  [d EXCEPT !.typeFile = t] \in Datasets
    BY DEF Datasets, TypeFiles
  <1> QED BY <1>2, <1>3, <1>4, <1>5, <1>6, <1>7

\* The empty files.
LEMMA EmptyFiles ==
    /\ NoMeta \in Metas /\ NoWorkbook \in Workbooks /\ NoPackage \in Packages
    /\ NoFacade \in Facades /\ NoTypeFile \in TypeFiles
    /\ Absent \in Datasets /\ File \in Datasets
  <1>1. /\ NoMeta \in Metas /\ NoWorkbook \in Workbooks /\ NoPackage \in Packages
        /\ NoFacade \in Facades /\ NoTypeFile \in TypeFiles
    BY DEF NoMeta, NoWorkbook, NoPackage, NoFacade, NoTypeFile, Metas, Workbooks, Packages,
           Facades, TypeFiles, Statuses
  <1> QED BY <1>1, DatasetParts DEF Absent, File, Entry

\* An empty entry is sound.
LEMMA EmptyOK ==
    ASSUME NEW k
    PROVE  KindOK(Entry(k)) /\ DataOK(Entry(k)) /\ FacadeOK(Entry(k))
  BY DEF KindOK, DataOK, FacadeOK, Entry, NoFacade, NoMeta, Whole

-----------------------------------------------------------------------------
(* What a step has to show of the data.                                    *)

\* The datasets that a step leaves alone stay sound.
LEMMA FilesStep ==
    ASSUME FilesInv, damaged => damaged', touched \subseteq touched',
           \A p \in Paths :
             \/ data'[p] = data[p]
             \/ /\ KindOK(data'[p])
                /\ Trusted(p)' => DataOK(data'[p])
                /\ ~damaged' => FacadeOK(data'[p])
    PROVE  FilesInv'
  <1>1. KindInv'
    BY DEF FilesInv, KindInv
  <1>2. DataInv'
    BY DEF FilesInv, DataInv, Trusted
  <1>3. FacadeInv'
    BY DEF FilesInv, FacadeInv
  <1> QED BY <1>1, <1>2, <1>3 DEF FilesInv

\* A step keeps the dataset of an instance that was reported.
Keeps(p) ==
    (MetadataReady(p) /\ Describes(p, p[1]) /\ data[p].meta.type = p[1]) =>
      /\ MetadataReady(p)' /\ (Describes(p, p[1]))' /\ data'[p].meta.type = p[1]
      /\ data[p].workbook.rows \subseteq data'[p].workbook.rows

\* Instances stay reported while their datasets are kept and named.
LEMMA CreatedStep ==
    ASSUME TypeOK, CreatedInv, \A c \in created' : c \in created \/ Reported(c)',
           damaged => damaged',
           touched \subseteq touched',
           ~damaged' => /\ expected' = expected /\ Whole(container')
                        /\ container.entries \subseteq container'.entries,
           \A p \in Paths : ~damaged' /\ p \notin touched' => data'[p] = data[p] \/ Keeps(p)
    PROVE  CreatedInv' /\ ContainerInv'
  <1>1. ContainerInv'
    BY DEF ContainerInv
  <1>2. CreatedInv'
    <2> SUFFICES ASSUME ~damaged', NEW c \in created, c.path \notin touched'
                 PROVE  Reported(c)'
      BY DEF CreatedInv
    <2>1. c.path \in Paths /\ c.path \notin touched /\ ~damaged
      BY DEF TypeOK
    <2>2. Reported(c)
      BY <2>1 DEF CreatedInv
    <2>3. CASE data'[c.path] = data[c.path]
      BY <2>1, <2>2, <2>3 DEF Reported, IndexReady, MetadataReady, IsDir, Describes
    <2>4. CASE Keeps(c.path)
      BY <2>1, <2>2, <2>4 DEF Reported, IndexReady, Keeps
    <2> QED BY <2>1, <2>3, <2>4
  <1> QED BY <1>1, <1>2

\* A step that leaves the files alone.
LEMMA SameFiles ==
    ASSUME IInv, UNCHANGED <<files, expected, touched, damaged, created>>
    PROVE  FilesInv' /\ CreatedInv' /\ ContainerInv'
  <1>0. TypeOK /\ FilesInv /\ CreatedInv /\ data' = data /\ container' = container
    BY DEF IInv, files
  <1>1. FilesInv'
    BY <1>0, FilesStep
  <1>2. ~damaged' => Whole(container')
    BY <1>0 DEF IInv, ContainerInv
  <1>3. CreatedInv' /\ ContainerInv'
    BY <1>0, <1>2, CreatedStep
  <1> QED BY <1>1, <1>3

\* The end of a command.
LEMMA Ended ==
    ASSUME NEW r, r # "updated", Respond(r)
    PROVE  CommandInv' /\ StageInv' /\ UpdateInv' /\ UpdatedIsReady'
  BY DEF Respond, CommandInv, StageInv, UpdateInv, UpdatedIsReady, Chart_pc, Create_pc,
         Dataset_pc

\* The variables that a step of a command leaves alone.
Fixed == UNCHANGED <<marked, touched, disturbed, commands, edits, failures>>

\* A command ends with an error, and the files as they are.
LEMMA RaiseStep ==
    ASSUME IInv, Raise, Fixed, UNCHANGED <<expected, damaged>>
    PROVE  IInv'
  <1>1. TypeOK'
    BY DEF IInv, TypeOK, Raise, Respond, Fixed, files
  <1>2. FilesInv' /\ CreatedInv' /\ ContainerInv'
    BY SameFiles DEF Raise, Fixed
  <1>3. CommandInv' /\ StageInv' /\ UpdateInv' /\ UpdatedIsReady'
    BY Ended DEF Raise
  <1> QED BY <1>1, <1>2, <1>3 DEF IInv

-----------------------------------------------------------------------------
(* Starting a command.                                                     *)

\* A set of numbers that is not empty has a least one.
LEMMA LeastNumber ==
    ASSUME NEW S \in SUBSET Nat, S # {}
    PROVE  \E n \in S : \A m \in S : n <= m
  <1> DEFINE R == OpToRel(<, Nat)
  <1>1. IsWellFoundedOn(R, Nat)
    BY NatLessThanWellFounded
  <1>2. PICK n \in S : \A m \in S : ~(<<m, n>> \in R)
    BY <1>1, WFMin
  <1>3. \A m \in S : ~(m < n)
    BY <1>2 DEF OpToRel
  <1> QED BY <1>3

\* The directory of a new instance is one that is not there.
LEMMA FreePathIsAbsent ==
    ASSUME TypeOK, NEW t \in Types, NEW s \in Slugs, FreePath(t, s) # None
    PROVE  FreePath(t, s) \in Paths /\ data[FreePath(t, s)].kind = "absent"
  <1> DEFINE free == {n \in 1 .. MaxSuffix : ~Exists(<<t, s, n>>)}
             k == CHOOSE n \in free : \A m \in free : n <= m
  <1>1. free # {} /\ FreePath(t, s) = <<t, s, k>>
    BY DEF FreePath
  <1>2. free \in SUBSET Nat
    OBVIOUS
  <1>3. \E n \in free : \A m \in free : n <= m
    <2> HIDE DEF free
    <2> QED BY <1>1, <1>2, LeastNumber
  <1>4. k \in free
    <2> HIDE DEF free
    <2> QED BY <1>3
  <1>5. k \in 1 .. MaxSuffix /\ ~Exists(<<t, s, k>>)
    BY <1>4
  <1> HIDE DEF free, k
  <1> QED BY <1>1, <1>5 DEF Paths, Exists

\* A command starts; an instance is created where nothing is.
LEMMA StartStep ==
    ASSUME IInv, NEW c \in {"create", "dataset", "update"}, NEW p \in Paths \cup {None},
           NEW step, Start(c, p, step),
           \/ c = "create" /\ p \in Paths /\ data[p].kind = "absent" /\ step = "chart"
           \/ c = "dataset" /\ p \in Paths /\ step = "chart"
           \/ c = "update" /\ step = "repair"
    PROVE  IInv'
  <1>0. /\ files' = files /\ data' = data /\ container' = container
        /\ UNCHANGED <<expected, marked, active, queue, history, edits, failures>>
        /\ command' = c /\ path' = p /\ pc' = step /\ response' = "none" /\ disturbed' = FALSE
        /\ commands' = commands + 1
    BY DEF Start, files
  <1>1. TypeOK'
    <2>1. step \in {"chart", "repair"} /\ commands' \in Nat
      BY <1>0 DEF IInv, TypeOK
    <2> QED BY <1>0, <2>1 DEF IInv, TypeOK, history
  <1>2. FilesInv' /\ CreatedInv' /\ ContainerInv'
    BY <1>0, SameFiles DEF history
  <1>3. CommandInv'
    BY <1>0 DEF CommandInv, Chart_pc, Create_pc, Dataset_pc
  <1>4. StageInv'
    <2>1. CASE c # "create"
      BY <1>0, <2>1 DEF StageInv
    <2>2. CASE c = "create"
      <3>1. p \in Paths /\ data[p].kind = "absent" /\ step = "chart"
        BY <2>2
      <3>2. data[p].facade = NoFacade /\ data[p].meta = NoMeta
        BY <3>1 DEF IInv, FilesInv, KindInv, KindOK
      <3> QED BY <1>0, <3>1, <3>2 DEF StageInv, Chart_pc, Create_pc, NoFacade, NoMeta
    <2> QED BY <2>1, <2>2
  <1>5. UpdateInv' /\ UpdatedIsReady'
    BY <1>0 DEF UpdateInv, UpdatedIsReady
  <1> QED BY <1>1, <1>2, <1>3, <1>4, <1>5 DEF IInv

\* The three commands.
LEMMA Starts == ASSUME IInv, StartCreate \/ StartDataset \/ StartUpdate PROVE IInv'
  <1>1. CASE StartCreate
    <2>1. PICK t \in Types, s \in Slugs :
             FreePath(t, s) # None /\ Start("create", FreePath(t, s), "chart")
      BY <1>1 DEF StartCreate
    <2>2. FreePath(t, s) \in Paths /\ data[FreePath(t, s)].kind = "absent"
      BY <2>1, FreePathIsAbsent DEF IInv
    <2> QED BY <2>1, <2>2, StartStep
  <1>2. CASE StartDataset
    BY <1>2, StartStep DEF StartDataset
  <1>3. CASE StartUpdate
    BY <1>3, StartStep DEF StartUpdate
  <1> QED BY <1>1, <1>2, <1>3

-----------------------------------------------------------------------------
(* The dataset create chart.                                               *)

ChartStates == Final \cup {"undefined", "directory_ready", "dataset_metadata_ready"}

\* The chart's states, and what the disk shows in the last of them.
LEMMA ChartTypes ==
    /\ \A p : ObservedState(p) \in ChartStates
    /\ Successor \in ChartStates
    /\ \A p : ObservedState(p) = "dataset_container_index_ready" => IndexReady(p)
    /\ \A p : ObservedState(p) = "invalid_path" => data[p].kind = "file"
  BY DEF ObservedState, Successor, ChartStates, Final

\* The worker goes on from a state that the disk shows.
LEMMA ProceedStep ==
    ASSUME IInv, pc \in {"chart", "validate"}, NEW st, st = ObservedState(path), Proceed(st),
           Fixed, UNCHANGED <<files, created, expected, damaged>>
    PROVE  IInv'
  <1>0. /\ TypeOK /\ command \in {"create", "dataset"} /\ path \in Paths
        /\ data' = data /\ container' = container /\ st \in ChartStates
    BY ChartTypes DEF IInv, CommandInv, Chart_pc, files
  <1>1. FilesInv' /\ CreatedInv' /\ ContainerInv'
    BY SameFiles DEF Fixed
  <1>2. CASE st \in Final /\ command # "create"
    <2>1. Respond(IF st = "invalid_path" THEN "error" ELSE "dataset")
      BY <1>2 DEF Proceed
    <2>2. CommandInv' /\ StageInv' /\ UpdateInv' /\ UpdatedIsReady'
      BY <2>1, Ended
    <2>3. TypeOK'
      BY <1>0, <2>1 DEF TypeOK, Respond, Fixed
    <2> QED BY <1>1, <2>2, <2>3 DEF IInv
  <1>3. CASE ~(st \in Final /\ command # "create")
    <2>1. /\ active' = st /\ UNCHANGED <<command, path, queue, response>>
          /\ \/ pc' = "perform"
             \/ pc' = "workbook" /\ st \in Final /\ command = "create"
      BY <1>3 DEF Proceed
    <2>2. TypeOK'
      BY <1>0, <2>1 DEF TypeOK, Fixed, ChartStates
    <2>3. CommandInv'
      BY <1>0, <2>1 DEF CommandInv, Chart_pc, Create_pc, Dataset_pc
    <2>4. UpdateInv' /\ UpdatedIsReady'
      BY <1>0, <2>1 DEF UpdateInv, UpdatedIsReady
    <2>5. StageInv'
      <3>0. SUFFICES ASSUME command = "create", Trusted(path) PROVE StageInv'
        BY <2>1 DEF StageInv, Trusted, Fixed
      <3>1. /\ data[path].kind # "file" /\ data[path].facade.status = "missing"
            /\ data[path].meta.type = None
        BY <3>0 DEF IInv, StageInv, Chart_pc
      <3>2. CASE pc' = "perform"
        BY <1>0, <2>1, <3>1, <3>2 DEF StageInv, Chart_pc, Create_pc
      <3>3. CASE pc' = "workbook" /\ st \in Final
        <4>1. IndexReady(path)
          BY <3>1, <3>3, ChartTypes DEF Final
        <4>2. IndexReady(path)'
          BY <1>0, <2>1, <4>1 DEF IndexReady, MetadataReady, IsDir
        <4> QED BY <1>0, <2>1, <3>1, <3>3, <4>2 DEF StageInv, Chart_pc, Create_pc
      <3> QED BY <2>1, <3>2, <3>3
    <2> QED BY <1>1, <2>2, <2>3, <2>4, <2>5 DEF IInv
  <1> QED BY <1>2, <1>3

\* A step of the chart or of context --create that writes to the dataset.
LEMMA DatasetStep ==
    ASSUME IInv, pc \in Chart_pc \cup Create_pc, NEW d \in Datasets,
           data' = [data EXCEPT ![path] = d], container' = container, created' = created,
           pc' \in Chart_pc \cup Create_pc, pc' \in Create_pc => command = "create",
           UNCHANGED <<command, path, active, queue, response, expected, damaged>>, Fixed,
           KindOK(d), Trusted(path) => DataOK(d), ~damaged => FacadeOK(d),
           ~damaged => Keeps(path), StageInv'
    PROVE  IInv'
  <1>0. /\ TypeOK /\ FilesInv /\ CreatedInv /\ ContainerInv
        /\ command \in {"create", "dataset"} /\ path \in Paths
    BY DEF IInv, CommandInv
  <1>1. data'[path] = d /\ \A p \in Paths : p # path => data'[p] = data[p]
    BY <1>0 DEF TypeOK
  <1>2. TypeOK'
    BY <1>0 DEF TypeOK, Fixed, Chart_pc, Create_pc
  <1>3. FilesInv'
    BY <1>0, <1>1, FilesStep DEF Fixed, Trusted
  <1>4. CreatedInv' /\ ContainerInv'
    BY <1>0, <1>1, CreatedStep DEF Fixed, ContainerInv
  <1>5. CommandInv'
    BY <1>0 DEF CommandInv, Chart_pc, Create_pc, Dataset_pc
  <1>6. UpdateInv' /\ UpdatedIsReady'
    BY <1>0 DEF UpdateInv, UpdatedIsReady, Chart_pc, Create_pc
  <1> QED BY <1>2, <1>3, <1>4, <1>5, <1>6 DEF IInv

\* dataset.ttl as the hotfix writes it.
LEMMA FreshMetaType ==
    ASSUME TypeOK, NEW p \in Paths
    PROVE  /\ FreshMeta(p) \in Metas /\ Whole(FreshMeta(p)) /\ FreshMeta(p).type = None
           /\ FreshMeta(p).subject = p /\ FreshMeta(p).owner = expected
  BY DEF FreshMeta, NoMeta, Metas, Statuses, TypeOK, Whole

\* The chart's capability, or nothing when the disk is there already.
LEMMA PerformStep == ASSUME IInv, Perform PROVE IInv'
  <1>0. /\ TypeOK /\ pc = "perform" /\ command \in {"create", "dataset"} /\ path \in Paths
        /\ Fixed /\ UNCHANGED <<expected, damaged>> /\ created' = created
        /\ data[path] \in Datasets
    BY DEF IInv, CommandInv, Chart_pc, Perform, At, Fixed, TypeOK
  <1>s. /\ KindOK(data[path]) /\ (Trusted(path) => DataOK(data[path]))
        /\ (~damaged => FacadeOK(data[path]))
        /\ (command = "create" /\ Trusted(path) =>
              /\ data[path].kind # "file" /\ data[path].facade.status = "missing"
              /\ data[path].meta.type = None)
    BY <1>0 DEF IInv, FilesInv, KindInv, DataInv, FacadeInv, StageInv, Chart_pc
  <1>1. CASE Respond("error") /\ UNCHANGED files
    BY <1>0, <1>1, RaiseStep DEF Raise
  <1>g. ASSUME Goto("validate"), data'[path].kind # "file" \/ data'[path].kind = data[path].kind,
               data'[path].facade = data[path].facade,
               data'[path].meta.type \in {None, data[path].meta.type}
        PROVE  StageInv'
    BY <1>0, <1>s, <1>g DEF Goto, StageInv, Chart_pc, Create_pc, Fixed, Trusted
  <1>2. CASE Goto("validate") /\ UNCHANGED data
    <2>1. StageInv'
      BY <1>g, <1>2
    <2>2. FilesInv'
      BY <1>0, <1>2, FilesStep DEF IInv, Fixed
    <2>3. /\ container'.entries \in SUBSET Paths /\ container.entries \subseteq container'.entries
          /\ container' \in [status : {"torn", "whole"}, id : Nat, entries : SUBSET Paths]
          /\ container'.status = container.status
      <3>1. container' = container \/ MakeIndex(path)
        BY <1>2, <1>0 DEF Perform, files, Capability, Respond, Goto
      <3> QED BY <1>0, <3>1 DEF TypeOK, MakeIndex
    <2>4. CreatedInv' /\ ContainerInv'
      BY <1>0, <1>2, <2>3, CreatedStep DEF IInv, Fixed, ContainerInv, Whole
    <2>5. TypeOK'
      BY <1>0, <1>2, <2>3 DEF TypeOK, Goto, Fixed
    <2>6. CommandInv' /\ UpdateInv' /\ UpdatedIsReady'
      BY <1>0, <1>2 DEF CommandInv, UpdateInv, UpdatedIsReady, Goto, Chart_pc, Create_pc, Dataset_pc
    <2> QED BY <2>1, <2>2, <2>4, <2>5, <2>6 DEF IInv
  <1>3. CASE Goto("validate") /\ MakeDirectory(path) /\ UNCHANGED container
    <2> DEFINE d == [data[path] EXCEPT !.kind = "directory"]
    <2>1. d \in Datasets
      BY <1>0, Written
    <2>2. data' = [data EXCEPT ![path] = d]
      BY <1>3 DEF MakeDirectory
    <2>3. /\ data'[path] = d /\ d.kind = "directory" /\ d.meta = data[path].meta
          /\ d.facade = data[path].facade /\ d.workbook = data[path].workbook
          /\ d.package = data[path].package
      BY <1>0, <2>2 DEF TypeOK, Datasets
    <2>4. KindOK(d) /\ (Trusted(path) => DataOK(d)) /\ (~damaged => FacadeOK(d))
      BY <1>s, <2>3 DEF KindOK, DataOK, FacadeOK
    <2>5. Keeps(path)
      BY <1>0, <1>3, <2>3 DEF Keeps, MetadataReady, IsDir, Describes, Goto
    <2> HIDE DEF d
    <2>6. StageInv'
      BY <1>g, <1>3, <2>3
    <2> QED BY <1>0, <1>3, <2>1, <2>2, <2>4, <2>5, <2>6, DatasetStep DEF Goto, Chart_pc, Create_pc
  <1>4. CASE Goto("validate") /\ MakeMetadata(path) /\ ~MetadataReady(path) /\ UNCHANGED container
    <2> DEFINE d == [data[path] EXCEPT !.kind = "directory", !.meta = FreshMeta(path)]
    <2>1. d \in Datasets
      BY <1>0, Written, FreshMetaType
    <2>2. data' = [data EXCEPT ![path] = d]
      BY <1>4 DEF MakeMetadata
    <2>3. /\ data'[path] = d /\ d.kind = "directory" /\ d.meta = FreshMeta(path)
          /\ d.facade = data[path].facade /\ d.workbook = data[path].workbook
          /\ d.package = data[path].package
      BY <1>0, <2>2 DEF TypeOK, Datasets
    <2>4. KindOK(d) /\ (Trusted(path) => DataOK(d)) /\ (~damaged => FacadeOK(d))
      BY <1>0, <1>s, <2>3, FreshMetaType DEF KindOK, DataOK, FacadeOK
    <2>5. Keeps(path)
      BY <1>4 DEF Keeps
    <2> HIDE DEF d
    <2>6. StageInv'
      BY <1>0, <1>g, <1>4, <2>3, FreshMetaType
    <2> QED BY <1>0, <1>4, <2>1, <2>2, <2>4, <2>5, <2>6, DatasetStep DEF Goto, Chart_pc, Create_pc
  <1> QED BY <1>1, <1>2, <1>3, <1>4 DEF Perform, Capability, MakeMetadata, files

-----------------------------------------------------------------------------
(* context --create.                                                       *)

\* What the steps of context --create start from.
LEMMA CreateFacts ==
    ASSUME IInv, pc \in Create_pc
    PROVE  /\ TypeOK /\ command = "create" /\ path \in Paths /\ path[1] \in Types
           /\ data[path] \in Datasets /\ data[path].kind \in {"absent", "file", "directory"}
           /\ data[path].meta \in Metas /\ data[path].workbook \in Workbooks
           /\ data[path].package \in Packages
           /\ KindOK(data[path]) /\ (Trusted(path) => DataOK(data[path]))
           /\ (~damaged => FacadeOK(data[path]) /\ Trusted(path) /\ IndexReady(path))
  <1>1. TypeOK /\ command = "create" /\ path \in Paths /\ data[path] \in Datasets
    BY DEF IInv, CommandInv, TypeOK
  <1>2. path[1] \in Types
    BY <1>1 DEF Paths
  <1>3. /\ KindOK(data[path]) /\ (Trusted(path) => DataOK(data[path]))
        /\ (~damaged => FacadeOK(data[path]) /\ Trusted(path))
    BY <1>1 DEF IInv, FilesInv, KindInv, DataInv, FacadeInv, Trusted
  <1>4. ~damaged => IndexReady(path)
    BY <1>1, <1>3 DEF IInv, StageInv
  <1> QED BY <1>1, <1>2, <1>3, <1>4, DatasetParts

\* The workbook, with the new row.
LEMMA SaveWorkbookStep == ASSUME IInv, SaveWorkbook PROVE IInv'
  <1>0. /\ pc = "workbook" /\ pc \in Create_pc /\ Fixed /\ UNCHANGED <<expected, damaged>>
    BY DEF SaveWorkbook, At, Fixed, Create_pc
  <1>1. CASE Raise
    BY <1>0, <1>1, RaiseStep
  <1>2. CASE ~Raise
    <2> DEFINE rows == ExistingRows(path, TypeOfPath)
               w == [status |-> "whole", type |-> TypeOfPath, rows |-> WithNewRecord(rows)]
               d == [data[path] EXCEPT !.kind = "directory", !.workbook = w]
    <2>0. /\ rows # None /\ Goto("package") /\ UNCHANGED <<container, created>>
          /\ data' = [data EXCEPT ![path].kind = "directory", ![path].workbook = w]
      BY <1>2 DEF SaveWorkbook
    <2>1. rows \in SUBSET Nat
      <3>1. data[path].workbook.rows \in SUBSET Nat
        BY <1>0, CreateFacts DEF Workbooks
      <3> QED BY <2>0, <3>1 DEF ExistingRows
    <2> HIDE DEF rows
    <2>2. w \in Workbooks /\ Whole(w) /\ commands \in w.rows
      BY <1>0, <2>1, CreateFacts DEF Workbooks, Statuses, Whole, WithNewRecord, TypeOfPath, TypeOK
    <2> HIDE DEF w
    <2>3. d \in Datasets
      BY <1>0, <2>2, CreateFacts, Written
    <2>4. data' = [data EXCEPT ![path] = d]
      BY <1>0, <2>0, CreateFacts DEF TypeOK, Datasets
    <2>5. /\ data'[path] = d /\ d.kind = "directory" /\ d.meta = data[path].meta
          /\ d.facade = data[path].facade /\ d.workbook = w
      BY <1>0, <2>4, CreateFacts DEF TypeOK, Datasets
    <2> HIDE DEF d
    <2>6. Trusted(path) => d.facade.status = "missing" /\ d.meta.type = None
      BY <1>0, <2>5, CreateFacts DEF IInv, StageInv, Chart_pc
    <2>7. KindOK(d) /\ (Trusted(path) => DataOK(d)) /\ (~damaged => FacadeOK(d))
      BY <1>0, <2>5, <2>6, CreateFacts DEF KindOK, DataOK, FacadeOK, Whole
    <2>8. ~damaged => Keeps(path)
      BY <1>0, <2>5, <2>6, CreateFacts DEF Keeps, Describes, Whole
    <2>9. StageInv'
      <3>1. ~damaged => IndexReady(path)'
        BY <1>0, <2>0, <2>5, CreateFacts DEF IndexReady, MetadataReady, IsDir, Goto
      <3> QED BY <1>0, <2>0, <2>2, <2>5, <2>6, <3>1, CreateFacts
              DEF StageInv, Goto, Fixed, Trusted, Chart_pc, Create_pc
    <2> QED BY <1>0, <2>0, <2>3, <2>4, <2>7, <2>8, <2>9, CreateFacts, DatasetStep DEF Goto, Create_pc
  <1> QED BY <1>1, <1>2

\* The descriptor of the workbook.
LEMMA WriteDatapackageStep == ASSUME IInv, WriteDatapackage PROVE IInv'
  <1>0. /\ pc = "package" /\ pc \in Create_pc /\ Fixed /\ UNCHANGED <<expected, damaged>>
    BY DEF WriteDatapackage, At, Fixed, Create_pc
  <1>1. CASE Raise
    BY <1>0, <1>1, RaiseStep
  <1>2. CASE ~Raise
    <2> DEFINE g == [status |-> "whole", resource |-> TRUE, type |-> TypeOfPath]
               d == [data[path] EXCEPT !.kind = "directory", !.package = g]
    <2>0. /\ Goto("frictionless") /\ UNCHANGED <<container, created>>
          /\ data' = [data EXCEPT ![path].kind = "directory", ![path].package = g]
      BY <1>2 DEF WriteDatapackage
    <2>2. g \in Packages /\ Whole(g) /\ g.resource /\ g.type = path[1]
      BY <1>0, CreateFacts DEF Packages, Statuses, Whole, TypeOfPath
    <2> HIDE DEF g
    <2>3. d \in Datasets
      BY <1>0, <2>2, CreateFacts, Written
    <2>4. data' = [data EXCEPT ![path] = d]
      BY <1>0, <2>0, CreateFacts DEF TypeOK, Datasets
    <2>5. /\ data'[path] = d /\ d.kind = "directory" /\ d.meta = data[path].meta
          /\ d.facade = data[path].facade /\ d.workbook = data[path].workbook /\ d.package = g
      BY <1>0, <2>4, CreateFacts DEF TypeOK, Datasets
    <2> HIDE DEF d
    <2>6. Trusted(path) =>
            /\ d.facade.status = "missing" /\ d.meta.type = None
            /\ Whole(d.workbook) /\ commands \in d.workbook.rows
      BY <1>0, <2>5, CreateFacts DEF IInv, StageInv, Chart_pc, Create_pc
    <2>7. KindOK(d) /\ (Trusted(path) => DataOK(d)) /\ (~damaged => FacadeOK(d))
      BY <1>0, <2>5, <2>6, CreateFacts DEF KindOK, DataOK, FacadeOK, Whole
    <2>8. ~damaged => Keeps(path)
      BY <1>0, <2>5, <2>6, CreateFacts DEF Keeps, Describes, Whole
    <2>9. StageInv'
      <3>1. ~damaged => IndexReady(path)'
        BY <1>0, <2>0, <2>5, CreateFacts DEF IndexReady, MetadataReady, IsDir, Goto
      <3>2. DescriptorFound(path, path[1])'
        BY <2>0, <2>2, <2>5 DEF DescriptorFound, Goto
      <3> QED BY <1>0, <2>0, <2>5, <2>6, <3>1, <3>2, CreateFacts
              DEF StageInv, Goto, Fixed, Trusted, Chart_pc, Create_pc
    <2> QED BY <1>0, <2>0, <2>3, <2>4, <2>7, <2>8, <2>9, CreateFacts, DatasetStep DEF Goto, Create_pc
  <1> QED BY <1>1, <1>2

\* frictionless reads the workbook, and writes nothing.
LEMMA ValidateWorkbookStep == ASSUME IInv, ValidateWorkbook PROVE IInv'
  <1>0. /\ pc = "frictionless" /\ pc \in Create_pc /\ Fixed /\ UNCHANGED <<expected, damaged>>
    BY DEF ValidateWorkbook, At, Fixed, Create_pc
  <1>1. CASE Raise
    BY <1>0, <1>1, RaiseStep
  <1>2. CASE ~Raise
    <2>0. Goto("relate") /\ data' = data /\ container' = container /\ created' = created
      BY <1>2 DEF ValidateWorkbook, files
    <2>1. data' = [data EXCEPT ![path] = data[path]]
      BY <1>0, <2>0, CreateFacts DEF TypeOK
    <2>2. ~damaged => Keeps(path)
      BY <1>0, <2>0 DEF Keeps, MetadataReady, IsDir, Describes, Goto
    <2>3. StageInv'
      <3>1. ~damaged => IndexReady(path)'
        BY <1>0, <2>0, CreateFacts DEF IndexReady, MetadataReady, IsDir, Goto
      <3> QED BY <1>0, <2>0, <3>1, CreateFacts
              DEF IInv, StageInv, Goto, Fixed, Trusted, Chart_pc, Create_pc, DescriptorFound
    <2> QED BY <1>0, <2>0, <2>1, <2>2, <2>3, CreateFacts, DatasetStep DEF Goto, Create_pc
  <1> QED BY <1>1, <1>2

\* The typed entity; the rest of dataset.ttl stays.
LEMMA RelateEntityStep == ASSUME IInv, RelateEntity PROVE IInv'
  <1>0. /\ pc = "relate" /\ pc \in Create_pc /\ Fixed /\ UNCHANGED <<expected, damaged>>
    BY DEF RelateEntity, At, Fixed, Create_pc
  <1>1. CASE Raise
    BY <1>0, <1>1, RaiseStep
  <1>2. CASE ~Raise
    <2> DEFINE m == TypedMeta(data[path].meta, TypeOfPath)
               d == [data[path] EXCEPT !.meta = m]
    <2>0. /\ Goto("facade") /\ UNCHANGED <<container, created>> /\ Whole(data[path].meta)
          /\ data' = [data EXCEPT ![path].meta = m]
      BY <1>2 DEF RelateEntity
    <2>2. /\ m \in Metas /\ Whole(m) /\ m.type = path[1] /\ m.instance = commands
          /\ m.subject = data[path].meta.subject /\ m.owner = data[path].meta.owner
      <3>1. commands \in Nat
        BY <1>0, CreateFacts DEF TypeOK
      <3>2. (data[path].meta.surfaceable \/ TypeOfPath \in marked) \in BOOLEAN
        OBVIOUS
      <3> QED BY <1>0, <2>0, <3>1, <3>2, CreateFacts DEF TypedMeta, Metas, Whole, TypeOfPath
    <2> HIDE DEF m
    <2>3. d \in Datasets
      BY <1>0, <2>2, CreateFacts, Written
    <2>4. data' = [data EXCEPT ![path] = d]
      BY <1>0, <2>0, CreateFacts DEF TypeOK, Datasets
    <2>5. /\ data'[path] = d /\ d.kind = data[path].kind /\ d.meta = m
          /\ d.facade = data[path].facade /\ d.workbook = data[path].workbook
          /\ d.package = data[path].package
      BY <1>0, <2>4, CreateFacts DEF TypeOK, Datasets
    <2> HIDE DEF d
    <2>6. Trusted(path) =>
            /\ d.facade.status = "missing" /\ DescriptorFound(path, path[1])
            /\ Whole(d.workbook) /\ commands \in d.workbook.rows
      BY <1>0, <2>5, CreateFacts DEF IInv, StageInv, Chart_pc, Create_pc
    <2>7. KindOK(d) /\ (Trusted(path) => DataOK(d)) /\ (~damaged => FacadeOK(d))
      <3>1. d.kind = "directory"
        BY <1>0, <2>0, <2>5, CreateFacts DEF KindOK, NoMeta, Whole
      <3> QED BY <1>0, <2>2, <2>5, <2>6, <3>1, CreateFacts DEF KindOK, DataOK, FacadeOK, Whole
    <2>8. ~damaged => Keeps(path)
      BY <1>0, <2>5, <2>6, CreateFacts DEF Keeps, Describes, Whole
    <2>9. StageInv'
      <3>1. ~damaged => IndexReady(path)'
        BY <1>0, <2>0, <2>2, <2>5, CreateFacts DEF IndexReady, MetadataReady, IsDir, Goto
      <3>2. Trusted(path) => DescriptorFound(path, path[1])'
        BY <2>0, <2>5, <2>6 DEF DescriptorFound, Goto
      <3> QED BY <1>0, <2>0, <2>2, <2>5, <2>6, <3>1, <3>2, CreateFacts
              DEF StageInv, Goto, Fixed, Trusted, Chart_pc, Create_pc
    <2> QED BY <1>0, <2>0, <2>3, <2>4, <2>7, <2>8, <2>9, CreateFacts, DatasetStep DEF Goto, Create_pc
  <1> QED BY <1>1, <1>2

\* The facade, over a dataset that has the rest.
LEMMA CopyFacadeStep == ASSUME IInv, CopyFacade PROVE IInv'
  <1>0. /\ pc = "facade" /\ pc \in Create_pc /\ Fixed /\ UNCHANGED <<expected, damaged>>
    BY DEF CopyFacade, At, Fixed, Create_pc
  <1>1. CASE Raise
    BY <1>0, <1>1, RaiseStep
  <1>2. CASE ~Raise
    <2> DEFINE f == [status |-> "whole", type |-> TypeOfPath]
               d == [data[path] EXCEPT !.kind = "directory", !.facade = f]
    <2>0. /\ Goto("type") /\ UNCHANGED <<container, created>>
          /\ data' = [data EXCEPT ![path].kind = "directory", ![path].facade = f]
      BY <1>2 DEF CopyFacade
    <2>2. f \in Facades /\ Whole(f) /\ f.type = path[1]
      BY <1>0, CreateFacts DEF Facades, Statuses, Whole, TypeOfPath
    <2> HIDE DEF f
    <2>3. d \in Datasets
      BY <1>0, <2>2, CreateFacts, Written
    <2>4. data' = [data EXCEPT ![path] = d]
      BY <1>0, <2>0, CreateFacts DEF TypeOK, Datasets
    <2>5. /\ data'[path] = d /\ d.kind = "directory" /\ d.meta = data[path].meta
          /\ d.facade = f /\ d.workbook = data[path].workbook /\ d.package = data[path].package
      BY <1>0, <2>4, CreateFacts DEF TypeOK, Datasets
    <2> HIDE DEF d
    <2>6. Trusted(path) =>
            /\ data[path].facade.status = "missing" /\ DescriptorFound(path, path[1])
            /\ d.meta.type = path[1]
            /\ Whole(d.workbook) /\ commands \in d.workbook.rows
      BY <1>0, <2>5, CreateFacts DEF IInv, StageInv, Chart_pc, Create_pc
    <2>7. KindOK(d) /\ (Trusted(path) => DataOK(d)) /\ (~damaged => FacadeOK(d))
      <3>1. ~damaged => Whole(d.meta)
        BY <1>0, <2>5, CreateFacts DEF IndexReady, MetadataReady
      <3> QED BY <1>0, <2>2, <2>5, <2>6, <3>1, CreateFacts
              DEF KindOK, DataOK, FacadeOK, Whole, DescriptorFound
    <2>8. ~damaged => Keeps(path)
      BY <1>0, <2>5, <2>6, CreateFacts DEF Keeps, Describes, Whole
    <2>9. StageInv'
      <3>1. ~damaged => IndexReady(path)'
        BY <1>0, <2>0, <2>5, CreateFacts DEF IndexReady, MetadataReady, IsDir, Goto
      <3>2. Trusted(path) => DescriptorFound(path, path[1])'
        BY <2>0, <2>5, <2>6 DEF DescriptorFound, Goto
      <3>3. Describes(path, path[1])'
        BY <2>0, <2>2, <2>5 DEF Describes, Goto
      <3> QED BY <1>0, <2>0, <2>5, <2>6, <3>1, <3>2, <3>3, CreateFacts
              DEF StageInv, Goto, Fixed, Trusted, Chart_pc, Create_pc
    <2> QED BY <1>0, <2>0, <2>3, <2>4, <2>7, <2>8, <2>9, CreateFacts, DatasetStep DEF Goto, Create_pc
  <1> QED BY <1>1, <1>2

\* The last file, and the report.
LEMMA CopyTypeFileStep == ASSUME IInv, CopyTypeFile PROVE IInv'
  <1>0. /\ pc = "type" /\ pc \in Create_pc /\ Fixed /\ UNCHANGED <<expected, damaged>>
    BY DEF CopyTypeFile, At, Fixed, Create_pc
  <1>1. CASE Raise
    BY <1>0, <1>1, RaiseStep
  <1>2. CASE ~Raise
    <2> DEFINE t == [status |-> "whole", surfaceable |-> TypeOfPath \in marked]
               d == [data[path] EXCEPT !.typeFile = t]
               c == [path |-> path, instance |-> commands]
    <2>0. /\ Respond("created") /\ container' = container /\ created' = created \cup {c}
          /\ data' = [data EXCEPT ![path].typeFile = t]
      BY <1>2 DEF CopyTypeFile
    <2>2. t \in TypeFiles
      BY DEF TypeFiles, Statuses
    <2> HIDE DEF t
    <2>3. d \in Datasets
      BY <1>0, <2>2, CreateFacts, Written
    <2>4. data' = [data EXCEPT ![path] = d]
      BY <1>0, <2>0, CreateFacts DEF TypeOK, Datasets
    <2>5. /\ d.kind = data[path].kind /\ d.meta = data[path].meta
          /\ d.facade = data[path].facade /\ d.workbook = data[path].workbook
          /\ d.package = data[path].package
      BY <1>0, CreateFacts DEF Datasets
    <2>6. data'[path] = d /\ \A p \in Paths : p # path => data'[p] = data[p]
      BY <1>0, <2>4, CreateFacts DEF TypeOK
    <2> HIDE DEF d
    <2>7. FilesInv'
      <3>1. KindOK(d) /\ (Trusted(path) => DataOK(d)) /\ (~damaged => FacadeOK(d))
        BY <1>0, <2>5, CreateFacts DEF KindOK, DataOK, FacadeOK
      <3> QED BY <1>0, <2>6, <3>1, FilesStep DEF IInv, Fixed, Trusted
    <2>8. CreatedInv' /\ ContainerInv'
      <3>1. PICK q \in Paths : q = path
        BY <1>0, CreateFacts
      <3>2. ~damaged => Reported(c)
        BY <1>0, CreateFacts DEF IInv, StageInv, Reported, Trusted, Create_pc
      <3>3. c.path = q /\ c.instance = commands /\ q = path
        BY <3>1
      <3>4. PICK k : k = c
        OBVIOUS
      <3> HIDE DEF c
      <3>5. ~damaged => Reported(k)'
        BY <1>0, <2>0, <2>5, <2>6, <3>2, <3>3, <3>4
           DEF Reported, IndexReady, MetadataReady, IsDir, Describes
      <3>6. \A p \in Paths : data'[p] = data[p] \/ Keeps(p)
        BY <1>0, <2>5, <2>6 DEF Keeps, MetadataReady, IsDir, Describes
      <3>7. CASE damaged
        BY <1>0, <3>7 DEF CreatedInv, ContainerInv
      <3>8. CASE ~damaged
        BY <1>0, <2>0, <3>4, <3>5, <3>6, <3>8, CreatedStep DEF IInv, ContainerInv, Fixed
      <3> QED BY <3>7, <3>8
    <2>9. TypeOK'
      <3>1. c \in [path : Paths, instance : Nat]
        BY <1>0, CreateFacts DEF TypeOK
      <3> HIDE DEF c
      <3> QED BY <1>0, <2>0, <2>3, <2>4, <3>1, CreateFacts DEF TypeOK, Respond, Fixed
    <2>10. CommandInv' /\ StageInv' /\ UpdateInv' /\ UpdatedIsReady'
      BY <2>0, Ended
    <2> QED BY <2>7, <2>8, <2>9, <2>10 DEF IInv
  <1> QED BY <1>1, <1>2

-----------------------------------------------------------------------------
(* storage --update.                                                       *)

\* What an update leaves of a dataset does not depend on the others.
LEMMA DoneStays ==
    ASSUME NEW p \in Paths, Done(p), data'[p] = data[p], expected' = expected,
           Whole(container'), p \in container'.entries
    PROVE  Done(p)'
  BY DEF Done, IndexReady, MetadataReady, IsDir, DatapackageUpdated, FacadeValid,
         SurfaceableSynced

\* A step of an update that writes to one dataset.
LEMMA RepairStep ==
    ASSUME IInv, pc \in Dataset_pc, NEW d \in Datasets,
           data' = [data EXCEPT ![path] = d],
           container' \in [status : {"torn", "whole"}, id : Nat, entries : SUBSET Paths],
           container'.status = container.status, container.entries \subseteq container'.entries,
           container'.entries \subseteq container.entries \cup {path},
           pc' \in Dataset_pc \cup {"next"}, created' = created,
           UNCHANGED <<command, path, active, queue, response, expected, damaged>>, Fixed,
           KindOK(d), Trusted(path) => DataOK(d), ~damaged => FacadeOK(d),
           ~damaged => Keeps(path),
           (~disturbed /\ pc' \in {"index", "sync", "mark"}) => MetadataReady(path)',
           pc' = "mark" => DatapackageUpdated(path)',
           (~disturbed /\ pc' = "next") => Done(path)'
    PROVE  IInv'
  <1>0. /\ TypeOK /\ FilesInv /\ CreatedInv /\ ContainerInv
        /\ command = "update" /\ path \in Paths
    BY DEF IInv, CommandInv
  <1>1. data'[path] = d /\ \A p \in Paths : p # path => data'[p] = data[p]
    BY <1>0 DEF TypeOK
  <1>2. TypeOK'
    BY <1>0 DEF TypeOK, Fixed, Dataset_pc
  <1>3. FilesInv'
    BY <1>0, <1>1, FilesStep DEF Fixed, Trusted
  <1>4. CreatedInv' /\ ContainerInv'
    BY <1>0, <1>1, CreatedStep DEF Fixed, ContainerInv, Whole
  <1>5. CommandInv' /\ StageInv' /\ UpdatedIsReady'
    BY <1>0 DEF CommandInv, StageInv, UpdatedIsReady, Chart_pc, Create_pc, Dataset_pc
  <1>6. UpdateInv'
    <2> SUFFICES ASSUME ~disturbed PROVE UpdateInv'
      BY DEF UpdateInv, Fixed
    <2>1. /\ queue \subseteq container.entries /\ Whole(container)
          /\ path \in container.entries \ queue
          /\ \A p \in container.entries \ queue : p # path => Done(p)
      BY <1>0 DEF IInv, UpdateInv, Dataset_pc
    <2>2. container'.entries = container.entries /\ Whole(container')
      BY <2>1 DEF Whole
    <2>3. \A p \in container'.entries \ queue : p # path => Done(p)'
      <3> SUFFICES ASSUME NEW p \in container.entries \ queue, p # path PROVE Done(p)'
        BY <2>2
      <3>1. p \in Paths
        BY <1>0 DEF TypeOK
      <3> QED BY <1>1, <2>1, <2>2, <3>1, DoneStays
    <2>4. PICK q \in Paths : q = path
      BY <1>0
    <2>5. (pc' = "next") => Done(q)'
      BY <2>4 DEF Done, IndexReady, MetadataReady, IsDir, DatapackageUpdated, FacadeValid,
                  SurfaceableSynced
    <2>6. \A p \in container'.entries \ queue' :
            ((pc \in Dataset_pc => p # path) => Done(p))'
      BY <2>3, <2>4, <2>5
    <2> QED BY <2>1, <2>2, <2>6 DEF UpdateInv, Dataset_pc
  <1> QED BY <1>2, <1>3, <1>4, <1>5, <1>6 DEF IInv

\* What the steps of an update start from.
LEMMA UpdateFacts ==
    ASSUME IInv, pc \in Dataset_pc
    PROVE  /\ TypeOK /\ command = "update" /\ path \in Paths
           /\ data[path] \in Datasets /\ data[path].kind \in {"absent", "file", "directory"}
           /\ data[path].meta \in Metas /\ data[path].workbook \in Workbooks
           /\ data[path].package \in Packages
           /\ KindOK(data[path]) /\ (Trusted(path) => DataOK(data[path]))
           /\ (~damaged => FacadeOK(data[path]) /\ Trusted(path))
           /\ (~disturbed => path \in container.entries /\ Whole(container))
  <1>1. TypeOK /\ command = "update" /\ path \in Paths /\ data[path] \in Datasets
    BY DEF IInv, CommandInv, TypeOK
  <1>3. /\ KindOK(data[path]) /\ (Trusted(path) => DataOK(data[path]))
        /\ (~damaged => FacadeOK(data[path]) /\ Trusted(path))
    BY <1>1 DEF IInv, FilesInv, KindInv, DataInv, FacadeInv, Trusted
  <1>4. ~disturbed => path \in container.entries /\ Whole(container)
    BY <1>1 DEF IInv, UpdateInv, Dataset_pc
  <1> QED BY <1>1, <1>3, <1>4, DatasetParts

\* A container.ttl that cannot be read was cut by an interrupted write.
LEMMA RepairContainerStep == ASSUME IInv, RepairContainer PROVE IInv'
  <1>0. /\ TypeOK /\ FilesInv /\ CreatedInv /\ ContainerInv /\ command = "update"
        /\ data' = data /\ queue' = container'.entries /\ pc' = "next"
        /\ Fixed /\ UNCHANGED <<command, path, active, response, damaged, created>>
    BY DEF IInv, CommandInv, RepairContainer, Dataset_pc, Fixed, history
  <1>1. /\ container' \in [status : {"torn", "whole"}, id : Nat, entries : SUBSET Paths]
        /\ expected' \in Nat /\ Whole(container')
        /\ Whole(container) => container' = container /\ expected' = expected
    BY <1>0 DEF TypeOK, RepairContainer, Whole
  <1>2. TypeOK'
    BY <1>0, <1>1 DEF TypeOK, Fixed
  <1>3. FilesInv'
    BY <1>0, FilesStep DEF Fixed
  <1>4. CreatedInv' /\ ContainerInv'
    BY <1>0, <1>1, CreatedStep DEF ContainerInv, Fixed
  <1>5. CommandInv' /\ StageInv' /\ UpdatedIsReady'
    BY <1>0 DEF CommandInv, StageInv, UpdatedIsReady, Chart_pc, Create_pc, Dataset_pc
  <1>6. UpdateInv'
    BY <1>0, <1>1 DEF UpdateInv, Dataset_pc
  <1> QED BY <1>2, <1>3, <1>4, <1>5, <1>6 DEF IInv

\* The next dataset, or the end of the update.
LEMMA NextDatasetStep == ASSUME IInv, NextDataset PROVE IInv'
  <1>0. /\ TypeOK /\ command = "update" /\ pc = "next" /\ data' = data /\ container' = container
        /\ Fixed /\ UNCHANGED <<expected, damaged, created, files>>
    BY DEF IInv, CommandInv, NextDataset, At, Fixed, files
  <1>1. FilesInv' /\ CreatedInv' /\ ContainerInv'
    BY <1>0, SameFiles DEF Fixed
  <1>d. \A p \in Paths : Done(p) /\ Whole(container) /\ p \in container.entries => Done(p)'
    BY <1>0, DoneStays
  <1>2. CASE queue = {} /\ Respond("updated")
    <2>1. TypeOK'
      BY <1>0, <1>2 DEF TypeOK, Respond, Fixed
    <2>2. CommandInv' /\ StageInv' /\ UpdateInv'
      BY <1>2 DEF Respond, CommandInv, StageInv, UpdateInv, Chart_pc, Create_pc, Dataset_pc
    <2>3. UpdatedIsReady'
      <3> SUFFICES ASSUME ~disturbed, NEW p \in container.entries PROVE Done(p)'
        BY <1>0 DEF UpdatedIsReady, Fixed, Done
      <3>1. Done(p) /\ Whole(container) /\ p \in Paths
        BY <1>0, <1>2 DEF IInv, UpdateInv, Dataset_pc, TypeOK
      <3> QED BY <1>d, <3>1
    <2> QED BY <1>1, <2>1, <2>2, <2>3 DEF IInv
  <1>3. ASSUME NEW p \in queue, path' = p, queue' = queue \ {p}, pc' = "metadata",
               UNCHANGED <<command, active, response>>
        PROVE  IInv'
    <2>0. p \in Paths
      BY <1>0 DEF TypeOK
    <2>1. TypeOK'
      BY <1>0, <1>3, <2>0 DEF TypeOK, Fixed
    <2>2. CommandInv' /\ StageInv' /\ UpdatedIsReady'
      BY <1>0, <1>3, <2>0 DEF CommandInv, StageInv, UpdatedIsReady, Chart_pc, Create_pc, Dataset_pc
    <2>3. UpdateInv'
      <3> SUFFICES ASSUME ~disturbed PROVE UpdateInv'
        BY <1>0 DEF UpdateInv, Fixed
      <3>1. /\ queue \subseteq container.entries /\ Whole(container)
            /\ \A q \in container.entries \ queue : Done(q)
        BY <1>0 DEF IInv, UpdateInv, Dataset_pc
      <3>2. \A q \in container.entries \ queue : Done(q)'
        BY <1>0, <1>d, <3>1 DEF TypeOK
      <3> QED BY <1>0, <1>3, <3>1, <3>2 DEF UpdateInv, Dataset_pc
    <2> QED BY <1>1, <2>1, <2>2, <2>3 DEF IInv
  <1> QED BY <1>2, <1>3 DEF NextDataset

\* dataset.ttl is rebuilt where it is not in order.
LEMMA RepairMetadataStep == ASSUME IInv, RepairMetadata PROVE IInv'
  <1>0. /\ pc = "metadata" /\ pc \in Dataset_pc /\ Fixed /\ UNCHANGED <<expected, damaged>>
    BY DEF RepairMetadata, At, Fixed, Dataset_pc
  <1>1. CASE Raise
    BY <1>0, <1>1, RaiseStep
  <1>2. CASE ~Raise
    <2> DEFINE d == IF MetadataReady(path) THEN data[path]
                    ELSE [data[path] EXCEPT !.kind = "directory", !.meta = FreshMeta(path)]
    <2>0. MakeMetadata(path) /\ Goto("index") /\ container' = container /\ created' = created
      BY <1>2 DEF RepairMetadata
    <2>1. d \in Datasets
      BY <1>0, UpdateFacts, Written, FreshMetaType
    <2>2. data' = [data EXCEPT ![path] = d]
      BY <1>0, <2>0, UpdateFacts DEF MakeMetadata, TypeOK
    <2>3. /\ data'[path] = d
          /\ d.facade = data[path].facade /\ d.workbook = data[path].workbook
          /\ d.package = data[path].package
          /\ MetadataReady(path) => d = data[path]
          /\ ~MetadataReady(path) => d.kind = "directory" /\ d.meta = FreshMeta(path)
      BY <1>0, <2>2, UpdateFacts DEF TypeOK, Datasets
    <2> HIDE DEF d
    <2>4. KindOK(d) /\ (Trusted(path) => DataOK(d)) /\ (~damaged => FacadeOK(d))
      BY <1>0, <2>3, UpdateFacts, FreshMetaType DEF KindOK, DataOK, FacadeOK
    <2>5. Keeps(path)
      BY <1>0, <2>0, <2>3 DEF Keeps, MetadataReady, IsDir, Describes, Goto
    <2>6. MetadataReady(path)'
      <3>1. CASE MetadataReady(path)
        BY <1>0, <2>0, <2>3, <3>1 DEF MetadataReady, IsDir, Goto
      <3>2. CASE ~MetadataReady(path)
        BY <1>0, <2>0, <2>3, <3>2, UpdateFacts, FreshMetaType DEF MetadataReady, IsDir, Goto
      <3> QED BY <3>1, <3>2
    <2> QED BY <1>0, <2>0, <2>1, <2>2, <2>4, <2>5, <2>6, UpdateFacts, RepairStep
            DEF Goto, Dataset_pc, TypeOK
  <1> QED BY <1>1, <1>2

\* The dataset's entry in container.ttl.
LEMMA RepairIndexStep == ASSUME IInv, RepairIndex PROVE IInv'
  <1>0. /\ pc = "index" /\ pc \in Dataset_pc /\ Fixed /\ UNCHANGED <<expected, damaged>>
    BY DEF RepairIndex, At, Fixed, Dataset_pc
  <1>1. CASE Raise
    BY <1>0, <1>1, RaiseStep
  <1>2. CASE ~Raise
    <2>0. /\ MakeIndex(path) /\ Goto("sync") /\ data' = data /\ created' = created
          /\ IndexPossible(path)
      BY <1>2 DEF RepairIndex
    <2>1. /\ container' \in [status : {"torn", "whole"}, id : Nat, entries : SUBSET Paths]
          /\ container'.status = container.status
          /\ container'.entries = container.entries \cup {path}
      BY <1>0, <2>0, UpdateFacts DEF MakeIndex, TypeOK
    <2>2. data' = [data EXCEPT ![path] = data[path]]
      BY <1>0, <2>0, UpdateFacts DEF TypeOK
    <2>3. Keeps(path)
      BY <1>0, <2>0 DEF Keeps, MetadataReady, IsDir, Describes, Goto
    <2>4. MetadataReady(path)'
      BY <1>0, <2>0 DEF IndexPossible, IndexReady, MetadataReady, IsDir, Goto
    <2> QED BY <1>0, <2>0, <2>1, <2>2, <2>3, <2>4, UpdateFacts, RepairStep DEF Goto, Dataset_pc
  <1> QED BY <1>1, <1>2

\* The descriptor follows the workbook.
LEMMA SyncPackageStep == ASSUME IInv, SyncPackage PROVE IInv'
  <1>0. /\ pc = "sync" /\ pc \in Dataset_pc /\ Fixed /\ UNCHANGED <<expected, damaged>>
    BY DEF SyncPackage, At, Fixed, Dataset_pc
  <1>1. CASE Raise
    BY <1>0, <1>1, RaiseStep
  <1>2. CASE ~Raise
    <2> DEFINE g == SyncedPackage(path)
               d == [data[path] EXCEPT !.package = g]
    <2>0. /\ Goto("mark") /\ container' = container /\ created' = created
          /\ data' = [data EXCEPT ![path].package = g]
      BY <1>2 DEF SyncPackage
    <2>1. /\ g \in Packages /\ Whole(g)
          /\ g.resource <=> data[path].workbook.status # "missing"
          /\ (g.resource /\ data[path].package.resource) => g.type = data[path].package.type
      BY <1>0, UpdateFacts DEF SyncedPackage, Packages, Statuses, Whole
    <2> HIDE DEF g
    <2>2. d \in Datasets
      BY <1>0, <2>1, UpdateFacts, Written
    <2>3. data' = [data EXCEPT ![path] = d]
      BY <1>0, <2>0, UpdateFacts DEF TypeOK, Datasets
    <2>4. /\ data'[path] = d /\ d.kind = data[path].kind /\ d.meta = data[path].meta
          /\ d.facade = data[path].facade /\ d.workbook = data[path].workbook /\ d.package = g
      BY <1>0, <2>3, UpdateFacts DEF TypeOK, Datasets
    <2> HIDE DEF d
    <2>5. KindOK(d) /\ (Trusted(path) => DataOK(d)) /\ (~damaged => FacadeOK(d))
      BY <1>0, <2>1, <2>4, UpdateFacts DEF KindOK, DataOK, FacadeOK, Whole
    <2>6. Keeps(path)
      BY <1>0, <2>0, <2>4 DEF Keeps, MetadataReady, IsDir, Describes, Goto
    <2>7. DatapackageUpdated(path)'
      BY <2>0, <2>1, <2>4 DEF DatapackageUpdated, Goto
    <2>8. ~disturbed => MetadataReady(path)'
      BY <1>0, <2>0, <2>4, UpdateFacts
         DEF IInv, UpdateInv, MetadataReady, IsDir, Goto, Dataset_pc
    <2> QED BY <1>0, <2>0, <2>2, <2>3, <2>5, <2>6, <2>7, <2>8, UpdateFacts, RepairStep
            DEF Goto, Dataset_pc, TypeOK
  <1> QED BY <1>1, <1>2

\* The surfaceable marker; the dataset is done.
LEMMA SyncSurfaceableStep == ASSUME IInv, SyncSurfaceable PROVE IInv'
  <1>0. /\ pc = "mark" /\ pc \in Dataset_pc /\ Fixed /\ UNCHANGED <<expected, damaged>>
        /\ Goto("next") /\ container' = container /\ created' = created
    BY DEF SyncSurfaceable, At, Fixed, Dataset_pc
  <1> DEFINE m == IF MarkerMissing(path) THEN [data[path].meta EXCEPT !.surfaceable = TRUE]
                  ELSE data[path].meta
             d == [data[path] EXCEPT !.meta = m]
  <1>1. /\ m \in Metas /\ m.status = data[path].meta.status /\ m.type = data[path].meta.type
        /\ m.subject = data[path].meta.subject /\ m.owner = data[path].meta.owner
        /\ m.instance = data[path].meta.instance
        /\ MarkerMissing(path) => m.surfaceable
        /\ data[path].meta = NoMeta => m = NoMeta
    <2>1. data[path].meta = NoMeta => ~MarkerMissing(path)
      BY DEF MarkerMissing, NoMeta, Whole
    <2> QED BY <1>0, <2>1, UpdateFacts DEF Metas
  <1>x. ~MarkerMissing(path) => m = data[path].meta
    OBVIOUS
  <1>2. d \in Datasets
    <2> HIDE DEF m
    <2> QED BY <1>0, <1>1, UpdateFacts, Written
  <1>3. data' = [data EXCEPT ![path] = d]
    BY <1>0, UpdateFacts DEF SyncSurfaceable, TypeOK, Datasets
  <1>4. /\ data'[path] = d /\ d.kind = data[path].kind /\ d.meta = m
        /\ d.facade = data[path].facade /\ d.workbook = data[path].workbook
        /\ d.package = data[path].package /\ d.typeFile = data[path].typeFile
    <2> HIDE DEF m
    <2> QED BY <1>0, <1>3, UpdateFacts DEF TypeOK, Datasets
  <1> HIDE DEF m, d
  <1>5. KindOK(d) /\ (Trusted(path) => DataOK(d)) /\ (~damaged => FacadeOK(d))
    BY <1>0, <1>1, <1>4, UpdateFacts DEF KindOK, DataOK, FacadeOK, Whole
  <1>6. Keeps(path)
    BY <1>0, <1>1, <1>4 DEF Keeps, MetadataReady, IsDir, Describes, Goto, Whole
  <1>7. ASSUME ~disturbed PROVE Done(path)'
    <2>1. /\ MetadataReady(path) /\ DatapackageUpdated(path)
          /\ path \in container.entries /\ Whole(container)
      BY <1>0, <1>7, UpdateFacts DEF IInv, UpdateInv, Dataset_pc
    <2>2. IndexReady(path)' /\ DatapackageUpdated(path)'
      BY <1>0, <1>1, <1>4, <2>1
         DEF IndexReady, MetadataReady, IsDir, DatapackageUpdated, Goto, Whole
    <2>3. ASSUME FacadeValid(path)'
          PROVE  (SurfaceableSynced(path) \/ data[path].typeFile.status = "torn")'
      <3>1. IsDir(path) /\ Whole(m) /\ m.type # None
        BY <1>0, <1>4, <2>3 DEF FacadeValid, IsDir, Goto
      <3>2. data[path].typeFile.status \in {"missing", "torn", "whole"}
        BY <1>0, UpdateFacts, DatasetParts DEF TypeFiles, Statuses
      <3>3. Whole(data[path].typeFile) /\ data[path].typeFile.surfaceable => m.surfaceable
        BY <1>1, <1>x, <3>1 DEF MarkerMissing, Whole
      <3> QED BY <1>0, <1>4, <3>1, <3>2, <3>3 DEF SurfaceableSynced, IsDir, Goto, Whole
    <2> QED BY <2>2, <2>3 DEF Done
  <1> QED BY <1>0, <1>2, <1>3, <1>5, <1>6, <1>7, UpdateFacts, RepairStep DEF Goto, Dataset_pc, TypeOK

-----------------------------------------------------------------------------
(* Interruptions.                                                          *)

\* A step that ends with nothing written.
LEMMA StepFailsStep == ASSUME IInv, StepFails PROVE IInv'
  <1>1. TypeOK'
    BY DEF IInv, TypeOK, StepFails, Interrupted, Respond, files
  <1>2. FilesInv' /\ CreatedInv' /\ ContainerInv'
    BY SameFiles DEF StepFails, Interrupted
  <1>3. CommandInv' /\ StageInv' /\ UpdateInv' /\ UpdatedIsReady'
    BY Ended DEF StepFails, Interrupted
  <1> QED BY <1>1, <1>2, <1>3 DEF IInv

\* A file that was cut short.
LEMMA TornTypes ==
    /\ Torn("meta") \in Metas /\ Torn("meta").type = None
    /\ Torn("workbook") \in Workbooks /\ Torn("package") \in Packages
    /\ Torn("facade") \in Facades /\ Torn("facade").status = "torn"
    /\ Torn("typeFile") \in TypeFiles
  <1>1. /\ Entry("directory")["meta"] = NoMeta /\ Entry("directory")["workbook"] = NoWorkbook
        /\ Entry("directory")["package"] = NoPackage /\ Entry("directory")["facade"] = NoFacade
        /\ Entry("directory")["typeFile"] = NoTypeFile
    BY DEF Entry
  <1>2. Torn("meta") \in Metas /\ Torn("meta").type = None
    <2>1. Torn("meta") = [NoMeta EXCEPT !.status = "torn"]
      BY <1>1 DEF Torn
    <2>2. NoMeta \in Metas
      BY EmptyFiles
    <2>3. [NoMeta EXCEPT !.status = "torn"] \in Metas
      BY <2>2 DEF Metas, Statuses
    <2>4. [NoMeta EXCEPT !.status = "torn"].type = None
      BY DEF NoMeta
    <2> QED BY <2>1, <2>3, <2>4
  <1>3. Torn("workbook") \in Workbooks
    BY <1>1, EmptyFiles DEF Torn, Workbooks, Statuses
  <1>4. Torn("package") \in Packages
    BY <1>1, EmptyFiles DEF Torn, Packages, Statuses
  <1>5. Torn("facade") \in Facades /\ Torn("facade").status = "torn"
    BY <1>1, EmptyFiles DEF Torn, NoFacade, Facades, Statuses
  <1>6. Torn("typeFile") \in TypeFiles
    BY <1>1, EmptyFiles DEF Torn, TypeFiles, Statuses
  <1> QED BY <1>2, <1>3, <1>4, <1>5, <1>6

\* The file that a step rewrites, and the step.
LEMMA RewrittenAt ==
    ASSUME IInv, Rewritten # "none"
    PROVE  /\ Rewritten \in {"meta", "workbook", "package", "facade", "typeFile"}
           /\ Rewritten = "workbook" => pc = "workbook"
           /\ Rewritten = "package" => pc = "package"
           /\ path \in Paths
  BY DEF Rewritten, IInv, CommandInv, Chart_pc, Create_pc, Dataset_pc

\* A write that is cut leaves a file that does not load.
LEMMA WriteFailsStep == ASSUME IInv, WriteFails PROVE IInv'
  <1>0. /\ TypeOK /\ FilesInv /\ path \in Paths /\ data[path] \in Datasets
        /\ data[path].kind = "directory" /\ container' = container
        /\ UNCHANGED <<expected, touched, created>> /\ (damaged => damaged')
        /\ Respond("error") /\ damaged' \in BOOLEAN
        /\ data' = [data EXCEPT ![path][Rewritten] = Torn(Rewritten)]
        /\ (~damaged' => Rewritten # "facade" /\ data[path].facade.status = "missing")
    <2>1. path \in Paths
      BY RewrittenAt DEF WriteFails
    <2> QED BY <2>1 DEF IInv, TypeOK, WriteFails, Interrupted, IsDir
  <1>1. /\ Rewritten \in {"meta", "workbook", "package", "facade", "typeFile"}
        /\ Rewritten = "workbook" => pc = "workbook"
        /\ Rewritten = "package" => pc = "package"
    BY RewrittenAt DEF WriteFails
  <1>s. /\ (Trusted(path) => DataOK(data[path])) /\ (~damaged => FacadeOK(data[path]))
        /\ (Trusted(path) /\ pc \in {"workbook", "package"} =>
              data[path].facade.status = "missing" /\ data[path].meta.type = None)
    BY <1>0 DEF IInv, CommandInv, FilesInv, DataInv, FacadeInv, StageInv, Chart_pc, Create_pc
  <1>2. PICK f \in {"meta", "workbook", "package", "facade", "typeFile"} : f = Rewritten
    BY <1>1
  <1> DEFINE d == [data[path] EXCEPT ![f] = Torn(f)]
  <1>3. data' = [data EXCEPT ![path] = d]
    BY <1>0, <1>2 DEF TypeOK
  <1>4. /\ d \in Datasets /\ d.kind = "directory" /\ (Trusted(path) => DataOK(d))
        /\ f # "facade" => d.facade = data[path].facade
    <2>1. CASE f = "meta"
      <3>1. d = [data[path] EXCEPT !.meta = Torn("meta")]
        BY <2>1
      <3>2. /\ d.kind = data[path].kind /\ d.facade = data[path].facade /\ d.meta = Torn("meta")
            /\ d.workbook = data[path].workbook /\ d.package = data[path].package
        BY <1>0, <3>1 DEF Datasets
      <3>3. d \in Datasets
        BY <1>0, <3>1, Written, TornTypes
      <3> QED BY <1>0, <1>s, <3>2, <3>3, TornTypes DEF DataOK
    <2>2. CASE f = "workbook"
      <3>1. d = [data[path] EXCEPT !.workbook = Torn("workbook")]
        BY <2>2
      <3>2. d.kind = data[path].kind /\ d.facade = data[path].facade /\ d.meta = data[path].meta
        BY <1>0, <3>1 DEF Datasets
      <3>3. d \in Datasets
        BY <1>0, <3>1, Written, TornTypes
      <3> QED BY <1>0, <1>1, <1>2, <1>s, <2>2, <3>2, <3>3 DEF DataOK, Whole
    <2>3. CASE f = "package"
      <3>1. d = [data[path] EXCEPT !.package = Torn("package")]
        BY <2>3
      <3>2. d.kind = data[path].kind /\ d.facade = data[path].facade /\ d.meta = data[path].meta
        BY <1>0, <3>1 DEF Datasets
      <3>3. d \in Datasets
        BY <1>0, <3>1, Written, TornTypes
      <3> QED BY <1>0, <1>1, <1>2, <1>s, <2>3, <3>2, <3>3 DEF DataOK, Whole
    <2>4. CASE f = "facade"
      <3>1. d = [data[path] EXCEPT !.facade = Torn("facade")]
        BY <2>4
      <3>2. /\ d.kind = data[path].kind /\ d.facade = Torn("facade") /\ d.meta = data[path].meta
            /\ d.workbook = data[path].workbook
        BY <1>0, <3>1 DEF Datasets
      <3>3. d \in Datasets
        BY <1>0, <3>1, Written, TornTypes
      <3> QED BY <1>0, <1>s, <2>4, <3>2, <3>3, TornTypes DEF DataOK, Whole
    <2>5. CASE f = "typeFile"
      <3>1. d = [data[path] EXCEPT !.typeFile = Torn("typeFile")]
        BY <2>5
      <3>2. /\ d.kind = data[path].kind /\ d.facade = data[path].facade /\ d.meta = data[path].meta
            /\ d.workbook = data[path].workbook /\ d.package = data[path].package
        BY <1>0, <3>1 DEF Datasets
      <3>3. d \in Datasets
        BY <1>0, <3>1, Written, TornTypes
      <3> QED BY <1>0, <1>s, <3>2, <3>3 DEF DataOK
    <2> QED BY <2>1, <2>2, <2>3, <2>4, <2>5
  <1> HIDE DEF d
  <1>5. data'[path] = d /\ \A p \in Paths : p # path => data'[p] = data[p]
    BY <1>0, <1>3 DEF TypeOK
  <1>6. ~damaged' => d.facade.status = "missing"
    BY <1>0, <1>2, <1>4
  <1>7. FilesInv'
    <2>1. PICK q \in Paths : q = path
      BY <1>0
    <2>2. Trusted(q)' => Trusted(path)
      BY <1>0, <2>1 DEF Trusted
    <2>3. KindOK(d) /\ (~damaged' => FacadeOK(d))
      BY <1>4, <1>6 DEF KindOK, FacadeOK, Whole
    <2>4. \A p \in Paths :
             \/ data'[p] = data[p]
             \/ /\ KindOK(data'[p])
                /\ Trusted(p)' => DataOK(data'[p])
                /\ ~damaged' => FacadeOK(data'[p])
      BY <1>4, <1>5, <2>1, <2>2, <2>3
    <2> QED BY <1>0, <2>4, FilesStep
  <1>8. CreatedInv' /\ ContainerInv'
    <2>1. \A p \in Paths : ~damaged' => data'[p] = data[p] \/ Keeps(p)
      BY <1>0, <1>5 DEF Keeps, Describes, Whole
    <2>2. ~damaged' => Whole(container')
      BY <1>0 DEF IInv, ContainerInv
    <2> QED BY <1>0, <2>1, <2>2, CreatedStep DEF IInv
  <1>9. TypeOK'
    <2>1. data' \in [Paths -> Datasets]
      BY <1>0, <1>3, <1>4 DEF TypeOK
    <2>2. /\ failures' \in Nat /\ disturbed' = TRUE
          /\ UNCHANGED <<expected, marked, created, touched, commands, edits>>
      BY <1>0 DEF TypeOK, WriteFails, Interrupted
    <2>3. damaged' \in BOOLEAN /\ container' = container /\ Respond("error") /\ TypeOK
      BY <1>0
    <2> QED BY <2>1, <2>2, <2>3 DEF TypeOK, Respond
  <1>10. CommandInv' /\ StageInv' /\ UpdateInv' /\ UpdatedIsReady'
    BY <1>0, Ended
  <1> QED BY <1>7, <1>8, <1>9, <1>10 DEF IInv

\* A container.ttl that is cut is damage.
LEMMA IndexWriteFailsStep == ASSUME IInv, IndexWriteFails PROVE IInv'
  <1>0. /\ TypeOK /\ FilesInv /\ data' = data /\ damaged' = TRUE /\ touched' = touched
        /\ Respond("error") /\ container' = [container EXCEPT !.status = "torn"]
    BY DEF IInv, IndexWriteFails, Interrupted
  <1>1. TypeOK'
    <2>1. container' \in [status : {"torn", "whole"}, id : Nat, entries : SUBSET Paths]
      BY <1>0 DEF TypeOK
    <2>2. /\ failures' \in Nat /\ disturbed' = TRUE
          /\ UNCHANGED <<expected, marked, created, touched, commands, edits>>
      BY <1>0 DEF TypeOK, IndexWriteFails, Interrupted
    <2> QED BY <1>0, <2>1, <2>2 DEF TypeOK, Respond
  <1>2. FilesInv'
    BY <1>0, FilesStep
  <1>3. CreatedInv' /\ ContainerInv'
    BY <1>0 DEF CreatedInv, ContainerInv
  <1>4. CommandInv' /\ StageInv' /\ UpdateInv' /\ UpdatedIsReady'
    BY <1>0, Ended
  <1> QED BY <1>1, <1>2, <1>3, <1>4 DEF IInv

-----------------------------------------------------------------------------
(* The owner.                                                              *)

\* An edit changes what it touches; under a command it is damage.
LEMMA EditStep ==
    ASSUME IInv, NEW ps \in SUBSET Paths, Edit(ps), data' \in [Paths -> Datasets],
           marked' \subseteq Types, damaged' \in BOOLEAN, damaged => damaged',
           path \in ps => damaged',
           \A p \in Paths \ ps : data'[p] = data[p],
           \A p \in ps : KindOK(data'[p]) /\ (~damaged' => DataOK(data'[p]) /\ FacadeOK(data'[p]))
    PROVE  IInv'
  <1>0. /\ TypeOK /\ FilesInv /\ CreatedInv /\ ContainerInv /\ CommandInv
        /\ container' = container /\ touched' = touched \cup ps /\ disturbed' = TRUE
        /\ UNCHANGED <<command, pc, path, active, queue, expected, response, created,
                       commands, failures>>
    BY DEF IInv, Edit, worker
  <1>1. TypeOK'
    BY <1>0 DEF TypeOK, Edit
  <1>2. FilesInv'
    BY <1>0, FilesStep DEF Trusted
  <1>3. CreatedInv' /\ ContainerInv'
    BY <1>0, CreatedStep DEF ContainerInv
  <1>4. CommandInv' /\ UpdateInv' /\ UpdatedIsReady'
    BY <1>0 DEF CommandInv, UpdateInv, UpdatedIsReady
  <1>5. StageInv'
    <2>1. SUFFICES ASSUME command = "create", ~damaged' \/ path \notin touched' PROVE StageInv'
      BY <1>0 DEF StageInv, Trusted
    <2>2. Trusted(path) /\ path \notin ps /\ (~damaged' => ~damaged)
      BY <1>0, <2>1 DEF Trusted
    <2>3. path \in Paths
      BY <1>0, <2>1 DEF CommandInv, TypeOK, Chart_pc, Create_pc, Dataset_pc
    <2>4. data'[path] = data[path]
      BY <2>2, <2>3
    <2>5. StageInv /\ command = "create" /\ Trusted(path)
      BY <2>1, <2>2 DEF IInv
    <2>6. /\ IndexReady(path)' = IndexReady(path)
          /\ DescriptorFound(path, path[1])' = DescriptorFound(path, path[1])
          /\ Describes(path, path[1])' = Describes(path, path[1])
      BY <1>0, <2>4 DEF IndexReady, MetadataReady, IsDir, DescriptorFound, Describes
    <2> QED BY <1>0, <2>2, <2>4, <2>5, <2>6 DEF StageInv
  <1> QED BY <1>1, <1>2, <1>3, <1>4, <1>5 DEF IInv

\* The owner's five edits.
LEMMA Edits == ASSUME IInv, Rename \/ Delete \/ PutFile \/ RemoveWorkbook \/ MarkType PROVE IInv'
  <1>0. /\ TypeOK /\ data \in [Paths -> Datasets] /\ marked \subseteq Types /\ damaged \in BOOLEAN
        /\ \A p \in Paths : KindOK(data[p]) /\ (~damaged => DataOK(data[p]) /\ FacadeOK(data[p]))
    BY DEF IInv, TypeOK, FilesInv, KindInv, DataInv, FacadeInv, Trusted
  <1>e. /\ Absent \in Datasets /\ File \in Datasets
        /\ KindOK(Absent) /\ DataOK(Absent) /\ FacadeOK(Absent)
        /\ KindOK(File) /\ DataOK(File) /\ FacadeOK(File)
    BY EmptyFiles, EmptyOK DEF Absent, File
  <1>1. CASE Rename
    <2>1. PICK p, q \in Paths :
            /\ Exists(p) /\ ~Exists(q) /\ Edit({p, q}) /\ Damages({p, q})
            /\ data' = [data EXCEPT ![q] = data[p], ![p] = Absent] /\ marked' = marked
      BY <1>1 DEF Rename
    <2>2. /\ data' \in [Paths -> Datasets] /\ data'[p] = Absent /\ data'[q] = data[p]
          /\ \A r \in Paths \ {p, q} : data'[r] = data[r]
      BY <1>0, <1>e, <2>1 DEF Exists
    <2>3. damaged' = (damaged \/ path \in {p, q})
      BY <2>1 DEF Damages
    <2> QED BY <1>0, <1>e, <2>1, <2>2, <2>3, EditStep
  <1>2. CASE Delete
    <2>1. PICK p \in Paths : /\ Edit({p}) /\ Damages({p}) /\ marked' = marked
                             /\ data' = [data EXCEPT ![p] = Absent]
      BY <1>2 DEF Delete
    <2>2. damaged' = (damaged \/ path \in {p})
      BY <2>1 DEF Damages
    <2> QED BY <1>0, <1>e, <2>1, <2>2, EditStep
  <1>3. CASE PutFile
    <2>1. PICK p \in Paths : /\ Edit({p}) /\ Damages({p}) /\ marked' = marked
                             /\ data' = [data EXCEPT ![p] = File]
      BY <1>3 DEF PutFile
    <2>2. damaged' = (damaged \/ path \in {p})
      BY <2>1 DEF Damages
    <2> QED BY <1>0, <1>e, <2>1, <2>2, EditStep
  <1>4. CASE RemoveWorkbook
    <2>1. PICK p \in Paths : /\ Edit({p}) /\ damaged' = TRUE /\ marked' = marked
                             /\ data' = [data EXCEPT ![p].workbook = NoWorkbook]
      BY <1>4 DEF RemoveWorkbook
    <2> DEFINE d == [data[p] EXCEPT !.workbook = NoWorkbook]
    <2>2. d \in Datasets
      BY <1>0, Written, EmptyFiles
    <2>3. data' = [data EXCEPT ![p] = d]
      BY <1>0, <2>1
    <2>4. d.kind = data[p].kind /\ d.facade = data[p].facade /\ d.meta = data[p].meta
      BY <1>0 DEF Datasets
    <2>5. KindOK(d)
      BY <1>0, <2>4 DEF KindOK
    <2> HIDE DEF d
    <2> QED BY <1>0, <2>1, <2>2, <2>3, <2>5, EditStep
  <1>5. CASE MarkType
    <2>1. PICK t \in Types \ marked : /\ Edit({}) /\ marked' = marked \cup {t}
                                      /\ data' = data /\ damaged' = damaged
      BY <1>5 DEF MarkType
    <2> QED BY <1>0, <2>1, EditStep
  <1> QED BY <1>1, <1>2, <1>3, <1>4, <1>5

-----------------------------------------------------------------------------
(* Theorems.                                                               *)

\* An empty container satisfies the inductive invariant.
LEMMA InitInv == ASSUME Init PROVE IInv
  <1> USE DEF Init
  <1>1. TypeOK
    BY EmptyFiles, EntityAssumption DEF TypeOK, Final
  <1>2. FilesInv
    BY EmptyOK DEF FilesInv, KindInv, DataInv, FacadeInv, Absent
  <1>3. CommandInv /\ StageInv /\ UpdateInv /\ UpdatedIsReady
    BY DEF CommandInv, StageInv, UpdateInv, UpdatedIsReady, Chart_pc, Create_pc, Dataset_pc
  <1>4. CreatedInv /\ ContainerInv
    BY DEF CreatedInv, ContainerInv, Whole
  <1> QED BY <1>1, <1>2, <1>3, <1>4 DEF IInv

\* Every step preserves it.
LEMMA NextInv == ASSUME IInv, [Next]_vars PROVE IInv'
  <1>1. CASE UNCHANGED vars
    BY <1>1 DEF vars, files, worker, history, IInv, TypeOK, CommandInv, FilesInv, KindInv,
        DataInv, FacadeInv, Trusted, StageInv, CreatedInv, Reported, ContainerInv, UpdateInv,
        UpdatedIsReady, Done, IndexReady, MetadataReady, IsDir, Describes, DescriptorFound,
        DatapackageUpdated, FacadeValid, SurfaceableSynced
  <1>2. CASE StartCreate \/ StartDataset \/ StartUpdate
    BY <1>2, Starts
  <1>3. CASE Chart
    <2>1. /\ pc = "chart" /\ Proceed(ObservedState(path)) /\ Fixed
          /\ UNCHANGED <<files, created, expected, damaged>>
      BY <1>3 DEF Chart, At, Fixed
    <2> QED BY <2>1, ProceedStep
  <1>4. CASE Validate
    <2>1. /\ pc = "validate" /\ Fixed /\ UNCHANGED <<files, created, expected, damaged>>
          /\ IF ObservedState(path) = Successor THEN Proceed(Successor) ELSE Respond("error")
      BY <1>4 DEF Validate, At, Fixed
    <2>2. CASE ObservedState(path) = Successor
      BY <2>1, <2>2, ProceedStep
    <2>3. CASE ObservedState(path) # Successor
      BY <2>1, <2>3, RaiseStep DEF Raise
    <2> QED BY <2>2, <2>3
  <1>5. CASE Perform
    BY <1>5, PerformStep
  <1>6. CASE CreateStep
    BY <1>6, SaveWorkbookStep, WriteDatapackageStep, ValidateWorkbookStep, RelateEntityStep,
       CopyFacadeStep, CopyTypeFileStep DEF CreateStep
  <1>7. CASE UpdateStep
    BY <1>7, RepairContainerStep, NextDatasetStep, RepairMetadataStep, RepairIndexStep,
       SyncPackageStep, SyncSurfaceableStep DEF UpdateStep
  <1>8. CASE StepFails \/ WriteFails \/ IndexWriteFails
    BY <1>8, StepFailsStep, WriteFailsStep, IndexWriteFailsStep
  <1>9. CASE Rename \/ Delete \/ PutFile \/ RemoveWorkbook \/ MarkType
    BY <1>9, Edits
  <1> QED BY <1>1, <1>2, <1>3, <1>4, <1>5, <1>6, <1>7, <1>8, <1>9 DEF Next, Step, ChartStep

\* The invariant holds in every reachable state.
THEOREM EntityInvariant == Spec => []IInv
  <1>1. Init => IInv
    BY InitInv
  <1>2. IInv /\ [Next]_vars => IInv'
    BY NextInv
  <1> QED BY <1>1, <1>2, PTL DEF Spec

\* The facade of a dataset is written after everything that a listing reads with it.
THEOREM FacadeIsLast == Spec => []FacadeLast
  <1>1. IInv => FacadeLast
    <2> SUFFICES ASSUME IInv, ~damaged, NEW p \in Paths, data[p].facade.status # "missing"
                 PROVE  Whole(data[p].facade) /\ Readable(p, data[p].facade.type)
      BY DEF FacadeLast
    <2>1. DataOK(data[p]) /\ FacadeOK(data[p])
      BY DEF IInv, FilesInv, DataInv, FacadeInv, Trusted
    <2>2. data[p].facade.status \in Statuses
      BY DatasetParts DEF IInv, TypeOK, Facades
    <2> QED BY <2>1, <2>2
            DEF DataOK, FacadeOK, Whole, Statuses, Readable, DescriptorFound, RowsReadable
  <1> QED BY <1>1, EntityInvariant, PTL

\* A dataset that an update would call healthy can be listed, with its entity.
THEOREM HealthyAreListed == Spec => []HealthyIsListed
  <1>1. IInv => HealthyIsListed
    <2> SUFFICES ASSUME IInv, NEW p \in Paths, Healthy(p), p \notin touched
                 PROVE  /\ Readable(p, data[p].meta.type)
                        /\ data[p].meta.instance \in data[p].workbook.rows
      BY DEF HealthyIsListed
    <2>1. DataOK(data[p])
      BY DEF IInv, FilesInv, DataInv, Trusted
    <2>2. FacadeValid(p)
      BY DEF Healthy
    <2> QED BY <2>1, <2>2 DEF DataOK, FacadeValid, Readable, DescriptorFound, RowsReadable
  <1> QED BY <1>1, EntityInvariant, PTL

\* An instance that was reported as created stays in the listing of its entity.
THEOREM CreatedAreListed == Spec => []CreatedIsListed
  <1>1. IInv => CreatedIsListed
    <2> SUFFICES ASSUME IInv, ~damaged, NEW c \in created, c.path \notin touched
                 PROVE  /\ ~ListingRaises(c.path[1])
                        /\ c.instance \in ListedRows(c.path[1])
                        /\ FacadeValid(c.path)
      BY DEF CreatedIsListed
    <2>1. /\ Reported(c) /\ c.path \in Paths /\ c.path[1] \in Types /\ Whole(container)
          /\ container.entries \subseteq Paths
          /\ \A p \in Paths : DataOK(data[p]) /\ FacadeOK(data[p])
      BY DEF IInv, TypeOK, CreatedInv, ContainerInv, FilesInv, DataInv, FacadeInv, Trusted, Paths
    <2>2. ~ListingRaises(c.path[1])
      BY <2>1 DEF ListingRaises, Named, FacadeTorn, Describes, DataOK, FacadeOK, Readable,
                  DescriptorFound, RowsReadable
    <2>3. c.instance \in ListedRows(c.path[1])
      <3>1. c.path \in {q \in Named : Describes(q, c.path[1])}
        BY <2>1 DEF Reported, IndexReady, Named
      <3> QED BY <2>1, <3>1 DEF ListedRows, Reported
    <2>4. FacadeValid(c.path)
      BY <2>1, EntityAssumption
         DEF Reported, IndexReady, MetadataReady, Describes, FacadeValid
    <2> QED BY <2>2, <2>3, <2>4
  <1> QED BY <1>1, EntityInvariant, PTL

\* An undisturbed update leaves every dataset that container.ttl names in order.
THEOREM UpdatedAreReady == Spec => []UpdatedIsReady
  <1>1. IInv => UpdatedIsReady
    BY DEF IInv
  <1> QED BY <1>1, EntityInvariant, PTL
=============================================================================
