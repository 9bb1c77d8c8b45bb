----------------------- MODULE ContainerUpdateProofs -----------------------
(***************************************************************************)
(* Four properties of storage --update, for every set of files and         *)
(* datasets and for any number of commands, edits, failures and kills.     *)
(***************************************************************************)
EXTENDS ContainerUpdate, TLAPS

(* The states of the chart that come after the datasets' step.             *)
Later == {"container_datasets_healthy", "container_cleaned",
          "container_datapackage_updated", "container_ro_crate_updated",
          "container_html_view_updated"}

(* The datasets' step is the last one of its capability.                   *)
Shape ==
    /\ todo \in Seq(StepNames)
    /\ \/ todo = <<"list", "datasets">>
       \/ todo = <<"datasets">>
       \/ \A i \in DOMAIN todo : todo[i] # "datasets"

(* dataset_path is set only while the datasets are visited, or by a        *)
(* process that was killed while it visited them.                          *)
PathInv ==
    /\ pc # "idle" => response = "none"
    /\ datasetPath # None => At("datasets") \/ (pc = "idle" /\ response = "killed")

(* While the directory is there, the marker and the later states vouch for *)
(* a visit of every dataset in this very process.                          *)
VisitInv ==
    /\ Shape
    /\ markers \in Markers
    /\ repaired \subseteq Datasets
    /\ pc # "running" => todo = <<>>
    /\ pc # "idle" => active \in {"undefined", "container_healthy"} \cup Later
    /\ pc = "running" => target \in {"container_healthy"} \cup Later
    /\ pc # "idle" /\ dir /\ markers.container_datasets_healthy => repaired = Datasets
    /\ At("datasets") /\ dir => queue \cup repaired = Datasets
    /\ pc # "idle" /\ active \in Later => repaired = Datasets
    /\ response = "updated" => repaired = Datasets
-----------------------------------------------------------------------------
(* The chart.                                                              *)

(* The position of a state of the chart is the one it is written at.       *)
LEMMA IndexOfOrdered == \A i \in 1 .. 8 : IndexOf(Ordered[i]) = i
<1>1. DOMAIN Ordered = 1 .. 8
  BY DEF Ordered
<1>2. ASSUME NEW i \in 1 .. 8, NEW j \in 1 .. 8, Ordered[i] = Ordered[j]
      PROVE  i = j
  BY <1>2 DEF Ordered
<1>3. TAKE i \in 1 .. 8
<1>4. \A j \in DOMAIN Ordered : Ordered[j] = Ordered[i] => j = i
  BY <1>1, <1>2
<1>5. QED
  BY <1>1, <1>4 DEF IndexOf

(* The positions, state by state.                                          *)
LEMMA Positions ==
    /\ IndexOf("undefined") = 1 /\ IndexOf("container_healthy") = 2
    /\ IndexOf("container_datasets_healthy") = 3 /\ IndexOf("container_cleaned") = 4
    /\ IndexOf("container_datapackage_updated") = 5
    /\ IndexOf("container_ro_crate_updated") = 6
    /\ IndexOf("container_html_view_updated") = 7 /\ IndexOf("container_updated") = 8
<1>1. /\ Ordered[1] = "undefined" /\ Ordered[2] = "container_healthy"
      /\ Ordered[3] = "container_datasets_healthy" /\ Ordered[4] = "container_cleaned"
      /\ Ordered[5] = "container_datapackage_updated"
      /\ Ordered[6] = "container_ro_crate_updated"
      /\ Ordered[7] = "container_html_view_updated" /\ Ordered[8] = "container_updated"
  BY DEF Ordered
<1>2. /\ IndexOf(Ordered[1]) = 1 /\ IndexOf(Ordered[2]) = 2 /\ IndexOf(Ordered[3]) = 3
      /\ IndexOf(Ordered[4]) = 4 /\ IndexOf(Ordered[5]) = 5 /\ IndexOf(Ordered[6]) = 6
      /\ IndexOf(Ordered[7]) = 7 /\ IndexOf(Ordered[8]) = 8
  BY IndexOfOrdered
<1>3. QED
  BY <1>1, <1>2

(* A directory that shows a later state, or reaches one, is there and has  *)
(* the datasets' marker.                                                   *)
LEMMA LaterIsMarked ==
    ASSUME NEW to \in Later, StateReaches(ObservedState, to)
    PROVE  dir /\ markers.container_datasets_healthy
<1>1. ObservedState \in {"container_invalid", "undefined", "container_healthy"} \cup Later
  BY DEF ObservedState, Later
<1>2. ObservedState \notin {"container_invalid", "undefined", "container_healthy"}
  BY Positions DEF StateReaches, Later
<1>3. QED
  BY <1>1, <1>2 DEF ObservedState

(* Where the chart goes from each state.                                   *)
LEMMA SuccessorStates ==
    ASSUME NEW from \in {"undefined", "container_healthy"} \cup Later
    PROVE  /\ Successor(from) \in FinalStates \cup {"container_healthy"} \cup Later
           /\ Successor(from) = "container_invalid" => ObservedState = "container_invalid"
           /\ Successor(from) = "container_updated" => from \in Later
<1>1. CASE from = "undefined"
  BY <1>1 DEF Successor, FinalStates, Later
<1>2. CASE from = "container_ro_crate_updated"
  BY <1>2 DEF Successor, FinalStates, Later
<1>3. CASE from \notin {"undefined", "container_ro_crate_updated"}
  <2>1. Successor(from) = Ordered[IndexOf(from) + 1]
    BY <1>3 DEF Successor
  <2>2. QED
    BY <1>3, <2>1, Positions DEF Later, FinalStates, Ordered
<1>4. QED
  BY <1>1, <1>2, <1>3

(* No capability begins with the visit of the datasets.                    *)
LEMMA StepsShape ==
    ASSUME NEW to \in {"container_healthy"} \cup Later
    PROVE  /\ Steps(to) \in Seq(StepNames) /\ Steps(to) # <<>>
           /\ Head(Steps(to)) # "datasets"
           /\ \/ Steps(to) = <<"list", "datasets">>
              \/ \A i \in DOMAIN Steps(to) : Steps(to)[i] # "datasets"
<1>1. CASE to = "container_healthy"
  <2>1. Steps(to) = <<"metadata", "index", "datapackage", "manifest", "prune", "complete">>
    BY <1>1 DEF Steps
  <2>2. QED
    BY <2>1 DEF StepNames
<1>2. CASE to = "container_datasets_healthy"
  <2>1. Steps(to) = <<"list", "datasets">>
    BY <1>2 DEF Steps
  <2>2. QED
    BY <2>1 DEF StepNames
<1>3. CASE to = "container_cleaned"
  <2>1. Steps(to) = <<"clean">>
    BY <1>3 DEF Steps
  <2>2. QED
    BY <2>1 DEF StepNames
<1>4. CASE to = "container_datapackage_updated"
  <2>1. Steps(to) = <<"datapackage">>
    BY <1>4 DEF Steps
  <2>2. QED
    BY <2>1 DEF StepNames
<1>5. CASE to = "container_ro_crate_updated"
  <2>1. Steps(to) = <<"manifest">>
    BY <1>5 DEF Steps
  <2>2. QED
    BY <2>1 DEF StepNames
<1>6. CASE to = "container_html_view_updated"
  <2>1. Steps(to) = <<"drop", "surface", "datapackage", "manifest", "mark">>
    BY <1>6 DEF Steps
  <2>2. QED
    BY <2>1 DEF StepNames
<1>7. QED
  BY <1>1, <1>2, <1>3, <1>4, <1>5, <1>6 DEF Later

(* A step that is not the listing of the datasets is not followed by their *)
(* visit.                                                                  *)
LEMMA TailShape ==
    ASSUME Shape, todo # <<>>, Head(todo) # "list", todo' = Tail(todo)
    PROVE  Shape' /\ ~At("datasets")'
<1>1. CASE todo = <<"datasets">>
  BY <1>1 DEF Shape, At
<1>2. CASE \A i \in DOMAIN todo : todo[i] # "datasets"
  BY <1>2 DEF Shape, At
<1>3. QED
  BY <1>1, <1>2 DEF Shape

-----------------------------------------------------------------------------
(* dataset_path.                                                           *)

(* The initial states have no dataset_path.                                *)
LEMMA PathInit == Init => PathInv
  BY DEF Init, PathInv

(* Every step keeps dataset_path to the visit of the datasets.             *)
LEMMA PathStep == PathInv /\ [Next]_vars => PathInv'
<1> SUFFICES ASSUME PathInv, [Next]_vars
             PROVE  PathInv'
  OBVIOUS
<1> USE DEF PathInv, At
<1>1. CASE Start
  BY <1>1 DEF Start
<1>2. CASE Finish
  BY <1>2 DEF Finish, context
<1>3. CASE Perform
  BY <1>3 DEF Perform, context
<1>4. CASE Validate
  BY <1>4 DEF Validate, EndInError, context
<1>5. CASE StepRaises
  BY <1>5 DEF StepRaises, EndInError
<1>6. CASE MetadataReady
  BY <1>6 DEF MetadataReady, Proceed, context
<1>7. CASE StorageIndexReady
  BY <1>7 DEF StorageIndexReady, Proceed, context
<1>8. CASE SyncDatapackage
  BY <1>8 DEF SyncDatapackage, Proceed, context
<1>9. CASE SyncManifest
  BY <1>9 DEF SyncManifest, Proceed, context
<1>10. CASE PruneDatapackage
  BY <1>10 DEF PruneDatapackage, Proceed, context
<1>11. CASE CompleteDatapackage
  BY <1>11 DEF CompleteDatapackage, Proceed, context
<1>12. CASE ListDatasets
  BY <1>12 DEF ListDatasets, Proceed, context
<1>13. ASSUME NEW d \in Datasets, RepairDataset(d)
      PROVE  PathInv'
  BY <1>13 DEF RepairDataset
<1>14. CASE DatasetsHealthy
  BY <1>14 DEF DatasetsHealthy, Proceed
<1>15. CASE CleanContainer
  BY <1>15 DEF CleanContainer, Proceed, context
<1>16. CASE DropView
  BY <1>16 DEF DropView, Proceed, context
<1>17. CASE GenerateSurface
  BY <1>17 DEF GenerateSurface, Proceed, context
<1>18. CASE HtmlViewUpdated
  BY <1>18 DEF HtmlViewUpdated, Proceed
<1>19. CASE StepFails
  BY <1>19 DEF StepFails, EndInError
<1>20. CASE Kill
  BY <1>20 DEF Kill, context
<1>21. ASSUME NEW f \in UserFiles, NEW c \in Contents \cup {Gone}, Edit(f, c)
      PROVE  PathInv'
  BY <1>21 DEF Edit, context, worker
<1>22. CASE DeleteView
  BY <1>22 DEF DeleteView, context, worker
<1>23. CASE DeleteDirectory
  BY <1>23 DEF DeleteDirectory, context, worker
<1>24. CASE UNCHANGED vars
  BY <1>24 DEF vars, context, worker
<1>25. QED
  BY <1>1, <1>2, <1>3, <1>4, <1>5, <1>6, <1>7, <1>8, <1>9, <1>10, <1>11, <1>12, <1>13, <1>14, <1>15, <1>16, <1>17, <1>18, <1>19, <1>20, <1>21, <1>22, <1>23, <1>24 DEF Next, Work

(* storage --update leaves no dataset_path behind when it answers, however *)
(* it ends.                                                                *)
THEOREM PathReleased == Spec => []DatasetPathReleased
<1>1. PathInv => DatasetPathReleased
  BY DEF PathInv, DatasetPathReleased, At
<1>2. QED
  BY PathInit, PathStep, <1>1, PTL DEF Spec

-----------------------------------------------------------------------------
(* The visit of the datasets.                                              *)

(* Nothing is visited and nothing vouched for at first.                    *)
LEMMA VisitInit == Init => VisitInv
<1> SUFFICES ASSUME Init
             PROVE  VisitInv
  OBVIOUS
<1>1. Shape
  BY DEF Init, Shape
<1>2. markers \in Markers
  BY DEF Init, Markers, NoMarkers
<1>3. QED
  BY <1>1, <1>2 DEF Init, VisitInv, At

(* A step of a capability, other than the listing of the datasets, that    *)
(* leaves the markers, the directory and the visited datasets alone.       *)
LEMMA OrdinaryStep ==
    ASSUME VisitInv, pc = "running", todo # <<>>, Head(todo) # "list", Proceed,
           UNCHANGED <<markers, repaired>>, dir' = dir
    PROVE  VisitInv'
<1>1. Shape' /\ ~At("datasets")'
  BY TailShape DEF VisitInv, Proceed
<1>2. QED
  BY <1>1 DEF VisitInv, Proceed

(* A command that ends without success vouches for nothing.                *)
LEMMA EndStep ==
    ASSUME VisitInv, pc' = "idle", response' # "updated", todo' = <<>>,
           UNCHANGED markers, repaired' \subseteq Datasets
    PROVE  VisitInv'
<1>1. Shape'
  BY DEF Shape
<1>2. QED
  BY <1>1 DEF VisitInv, At

(* Every step preserves the invariant.                                     *)
LEMMA VisitStep == VisitInv /\ [Next]_vars => VisitInv'
<1> SUFFICES ASSUME VisitInv, [Next]_vars
             PROVE  VisitInv'
  OBVIOUS
<1>1. CASE Start
  <2>1. markers' = NoMarkers /\ ~markers'.container_datasets_healthy
    BY <1>1 DEF Start, ClearProcessMarkers, NoMarkers
  <2>2. active' \in {"container_invalid", "undefined", "container_healthy"}
    BY <1>1, <2>1 DEF Start, ObservedState
  <2>3. Shape' /\ todo' = <<>>
    BY <1>1 DEF Start, Shape
  <2>4. markers' \in Markers
    BY <2>1 DEF Markers, NoMarkers
  <2>5. /\ pc' \in {"idle", "ready"} /\ response' # "updated" /\ repaired' = {}
        /\ pc' # "idle" => active' # "container_invalid"
    BY <1>1 DEF Start, FinalStates
  <2>6. QED
    BY <2>1, <2>2, <2>3, <2>4, <2>5 DEF VisitInv, At, Later
<1>2. CASE Finish
  <2>1. active \in {"undefined", "container_healthy"} \cup Later
    BY <1>2 DEF Finish, VisitInv
  <2>2. response' = "updated" => active \in Later
    BY <1>2, <2>1, SuccessorStates DEF Finish, FinalStates
  <2>3. response' = "updated" => repaired' = Datasets
    BY <1>2, <2>2 DEF Finish, VisitInv, history
  <2>4. Shape' /\ UNCHANGED <<markers, todo, repaired>> /\ pc' = "idle"
    BY <1>2 DEF Finish, VisitInv, Shape, context, history
  <2>5. todo = <<>>
    BY <1>2 DEF Finish, VisitInv
  <2>6. QED
    BY <2>3, <2>4, <2>5 DEF VisitInv, At
<1>3. CASE Perform
  <2>1. target' \in {"container_healthy"} \cup Later
    BY <1>3, SuccessorStates DEF Perform, VisitInv
  <2>2. todo' = <<>> \/ todo' = Steps(target')
    BY <1>3 DEF Perform
  <2>3. Shape' /\ ~At("datasets")'
    <3>1. CASE todo' = <<>>
      BY <3>1 DEF Shape, At
    <3>2. CASE todo' = Steps(target')
      BY <2>1, <3>2, StepsShape DEF Shape, At
    <3>3. QED
      BY <2>2, <3>1, <3>2
  <2>4. QED
    BY <1>3, <2>1, <2>3 DEF Perform, VisitInv, tree, context, history
<1>4. CASE Validate
  <2>1. CASE StateReaches(ObservedState, target)
    <3>1. active' = target /\ pc' = "ready" /\ target \in {"container_healthy"} \cup Later
      BY <1>4, <2>1 DEF Validate, VisitInv
    <3>2. target \in Later => repaired = Datasets
      BY <1>4, <2>1, LaterIsMarked DEF VisitInv, Validate
    <3>3. UNCHANGED <<dir, markers, todo, queue, response, repaired>>
      BY <1>4, <2>1 DEF Validate, tree, context, history
    <3>4. Shape'
      BY <3>3 DEF VisitInv, Shape
    <3>5. QED
      BY <1>4, <3>1, <3>2, <3>3, <3>4 DEF VisitInv, At, Validate, Later
  <2>2. CASE ~StateReaches(ObservedState, target)
    BY <1>4, <2>2, EndStep DEF Validate, EndInError, VisitInv, history
  <2>3. QED
    BY <2>1, <2>2
<1>5. CASE StepRaises
  BY <1>5, EndStep DEF StepRaises, EndInError, VisitInv, history
<1>6. CASE MetadataReady
  BY <1>6, OrdinaryStep DEF MetadataReady, At, tree, context, history
<1>7. CASE StorageIndexReady
  BY <1>7, OrdinaryStep DEF StorageIndexReady, At, tree, context, history
<1>8. CASE SyncDatapackage
  BY <1>8, OrdinaryStep DEF SyncDatapackage, At, tree, context, history
<1>9. CASE SyncManifest
  BY <1>9, OrdinaryStep DEF SyncManifest, At, tree, context, history
<1>10. CASE PruneDatapackage
  BY <1>10, OrdinaryStep DEF PruneDatapackage, At, tree, context, history
<1>11. CASE CompleteDatapackage
  BY <1>11, OrdinaryStep DEF CompleteDatapackage, At, tree, context, history
<1>12. CASE CleanContainer
  BY <1>12, OrdinaryStep DEF CleanContainer, At, tree, context, history
<1>13. CASE DropView
  BY <1>13, OrdinaryStep DEF DropView, At, tree, context, history
<1>14. CASE GenerateSurface
  BY <1>14, OrdinaryStep DEF GenerateSurface, At, tree, context, history
<1>15. CASE ListDatasets
  <2>1. todo = <<"list", "datasets">> \/ \A i \in DOMAIN todo : todo[i] # "datasets"
    BY <1>15 DEF ListDatasets, At, VisitInv, Shape
  <2>2. Shape'
    <3>1. CASE todo = <<"list", "datasets">>
      <4>1. todo' = <<"datasets">>
        BY <1>15, <3>1 DEF ListDatasets, Proceed
      <4>2. QED
        BY <4>1 DEF Shape, StepNames
    <3>2. CASE \A i \in DOMAIN todo : todo[i] # "datasets"
      BY <1>15, <3>2 DEF ListDatasets, Proceed, VisitInv, Shape, At
    <3>3. QED
      BY <2>1, <3>1, <3>2
  <2>3. UNCHANGED <<dir, markers, repaired, pc, active, target, response>>
    BY <1>15 DEF ListDatasets, Proceed, tree, context, history
  <2>4. dir => queue' \cup repaired' = Datasets
    BY <1>15, <2>3 DEF ListDatasets, VisitInv
  <2>5. QED
    BY <1>15, <2>2, <2>3, <2>4 DEF VisitInv, ListDatasets, At
<1>16. ASSUME NEW d \in Datasets, RepairDataset(d)
      PROVE  VisitInv'
  <2>1. UNCHANGED <<dir, markers, pc, active, target, todo, response>>
    BY <1>16 DEF RepairDataset, tree
  <2>2. queue \cup repaired = Datasets
    BY <1>16 DEF RepairDataset, VisitInv
  <2>3. queue' \cup repaired' = Datasets /\ (repaired = Datasets => repaired' = Datasets)
    BY <1>16, <2>2 DEF RepairDataset
  <2>4. Shape'
    BY <2>1 DEF VisitInv, Shape
  <2>5. QED
    BY <2>1, <2>3, <2>4 DEF VisitInv, At
<1>17. CASE DatasetsHealthy
  <2>1. Shape' /\ ~At("datasets")'
    BY <1>17, TailShape DEF DatasetsHealthy, Proceed, At, VisitInv
  <2>2. dir => repaired = Datasets
    BY <1>17 DEF DatasetsHealthy, VisitInv
  <2>3. UNCHANGED <<dir, repaired, pc, active, target, response>>
    BY <1>17 DEF DatasetsHealthy, Proceed, tree, history
  <2>4. markers' \in Markers
    BY <1>17 DEF DatasetsHealthy, VisitInv, Markers
  <2>5. QED
    BY <1>17, <2>1, <2>2, <2>3, <2>4 DEF VisitInv, DatasetsHealthy, At
<1>18. CASE HtmlViewUpdated
  <2>1. Shape' /\ ~At("datasets")'
    BY <1>18, TailShape DEF HtmlViewUpdated, Proceed, At, VisitInv
  <2>2. UNCHANGED <<dir, repaired, pc, active, target, response>>
    BY <1>18 DEF HtmlViewUpdated, Proceed, tree, history
  <2>3. /\ markers' \in Markers
        /\ markers'.container_datasets_healthy = markers.container_datasets_healthy
    BY <1>18 DEF HtmlViewUpdated, VisitInv, Markers
  <2>4. QED
    BY <1>18, <2>1, <2>2, <2>3 DEF VisitInv, HtmlViewUpdated, At
<1>19. CASE StepFails
  BY <1>19, EndStep DEF StepFails, EndInError, VisitInv
<1>20. CASE Kill
  BY <1>20, EndStep DEF Kill, VisitInv, context, history
<1>21. ASSUME NEW f \in UserFiles, NEW c \in Contents \cup {Gone}, Edit(f, c)
      PROVE  VisitInv'
  BY <1>21 DEF Edit, VisitInv, Shape, At, context, worker
<1>22. CASE DeleteView
  BY <1>22 DEF DeleteView, VisitInv, Shape, At, context, worker
<1>23. CASE DeleteDirectory
  BY <1>23 DEF DeleteDirectory, VisitInv, Shape, At, context, worker
<1>24. CASE UNCHANGED vars
  BY <1>24 DEF vars, VisitInv, Shape, At, tree, context, worker, history
<1>25. QED
    BY <1>1, <1>2, <1>3, <1>4, <1>5, <1>6, <1>7, <1>8, <1>9, <1>10, <1>11, <1>12, <1>13,
     <1>14, <1>15, <1>16, <1>17, <1>18, <1>19, <1>20, <1>21, <1>22, <1>23, <1>24 DEF Next,
     Work

(* A successful storage --update visited every registered dataset itself.  *)
THEOREM EveryDatasetVisited == Spec => []DatasetsVisited
<1>1. VisitInv => DatasetsVisited
  BY DEF VisitInv, DatasetsVisited
<1>2. QED
  BY VisitInit, VisitStep, <1>1, PTL DEF Spec
-----------------------------------------------------------------------------
(* An update that nobody disturbs: where it ends and why it fails.         *)

(* What the directory shows once the chart has passed state s.             *)
Shows(s) ==
    /\ dir
    /\ s # "undefined" => metadata = "ready" /\ storageIndex = "ready"
    /\ s \in Later => markers.container_datasets_healthy
    /\ s \in Later \ {"container_datasets_healthy"} => Cleaned
    /\ s \in {"container_datapackage_updated", "container_ro_crate_updated",
              "container_html_view_updated"} => DatapackageUpdated
    /\ s \in {"container_ro_crate_updated", "container_html_view_updated"} => ManifestSynced
    /\ s = "container_html_view_updated" =>
         view = Gathered /\ markers.container_html_view_updated

(* What holds before each step of the capabilities: the previous states'   *)
(* facts, and what the capability's own earlier steps have done.           *)
HealthySteps ==
    /\ target = "container_healthy" /\ dir
    /\ \/ todo = <<"metadata", "index", "datapackage", "manifest", "prune", "complete">>
       \/ /\ todo = <<"index", "datapackage", "manifest", "prune", "complete">>
          /\ metadata = "ready"
       \/ /\ todo = <<"datapackage", "manifest", "prune", "complete">>
          /\ Shows("container_healthy")
       \/ /\ todo = <<"manifest", "prune", "complete">>
          /\ Shows("container_healthy") /\ datapackage.status = "written"
       \/ /\ todo \in {<<"prune", "complete">>, <<"complete">>}
          /\ Shows("container_healthy")
          /\ datapackage.status = "written" /\ crate.status = "written"

MiddleSteps ==
    \/ /\ target = "container_datasets_healthy" /\ todo \in {<<"list", "datasets">>, <<"datasets">>}
       /\ Shows("container_healthy")
    \/ /\ target = "container_cleaned" /\ todo = <<"clean">>
       /\ Shows("container_datasets_healthy")
    \/ /\ target = "container_datapackage_updated" /\ todo = <<"datapackage">>
       /\ Shows("container_cleaned")
    \/ /\ target = "container_ro_crate_updated" /\ todo = <<"manifest">>
       /\ Shows("container_datapackage_updated")

ViewSteps ==
    /\ target = "container_html_view_updated"
    /\ \/ /\ todo = <<"drop", "surface", "datapackage", "manifest", "mark">>
          /\ Shows("container_ro_crate_updated") /\ view # Gone
       \/ /\ todo = <<"surface", "datapackage", "manifest", "mark">>
          /\ Shows("container_cleaned")
       \/ /\ todo = <<"datapackage", "manifest", "mark">>
          /\ Shows("container_cleaned") /\ view = Gathered
       \/ /\ todo = <<"manifest", "mark">>
          /\ Shows("container_datapackage_updated") /\ view = Gathered
       \/ /\ todo = <<"mark">>
          /\ Shows("container_ro_crate_updated") /\ view = Gathered

OnCourse ==
    \/ todo = <<>> /\ Shows(target)
    \/ HealthySteps \/ MiddleSteps \/ ViewSteps

(* The view is there if it was at first, but for the moment between its    *)
(* removal and its generation; and the marker vouches for a view that was  *)
(* generated in this process, after which the files do not change.         *)
ViewKept ==
    /\ IF At("surface") THEN viewed ELSE viewed <=> view # Gone
    /\ markers.container_html_view_updated =>
         /\ view = Gathered
         /\ \/ pc = "ready" /\ active = "container_html_view_updated"
            \/ pc = "running" /\ target = "container_html_view_updated" /\ todo = <<>>

Calm ==
    /\ ViewKept
    /\ pc = "ready" => Shows(active)
    /\ pc = "running" => OnCourse

CalmInv ==
    /\ files \in [UserFiles -> Contents \cup {Gone}]
    /\ pc \in {"idle", "ready", "running"}
    /\ pc # "idle" /\ ~disturbed => Calm
(* The files decide what is gathered and whether the directory is clean.   *)
LEMMA SameFiles ==
    ASSUME files' = files
    PROVE  Gathered' = Gathered /\ (Cleaned' <=> Cleaned)
<1>1. Gathered' = Gathered
  BY DEF Gathered, Published
<1>2. \A f \in Junk : f \in UserFiles /\ f # IndexFile
  BY UpdateAssumption DEF UserFiles
<1>3. Cleaned <=> \A f \in Junk : files[f] = Gone
  BY <1>2 DEF Cleaned, Present, ContentOf
<1>4. Cleaned' <=> \A f \in Junk : files'[f] = Gone
  BY <1>2 DEF Cleaned, Present, ContentOf
<1>5. QED
  BY <1>1, <1>3, <1>4

(* The files and the view decide what the descriptors should list.         *)
LEMMA SameTree ==
    ASSUME UNCHANGED <<files, view>>
    PROVE  Inventory' = Inventory /\ Manifest' = Manifest
<1>1. Present' = Present /\ \A f : ContentOf(f)' = ContentOf(f)
  BY DEF Present, ContentOf
<1>2. QED
  BY <1>1 DEF Inventory, Manifest, ContentOf

(* A generated view is a view.                                             *)
LEMMA GatheredIsView ==
    ASSUME files \in [UserFiles -> Contents \cup {Gone}]
    PROVE  Gathered # Gone
<1>1. Published = Tabular \cup Opaque
  BY UpdateAssumption DEF Published, Blocked, UserFiles
<1>2. Gathered \in [Tabular \cup Opaque -> Contents \cup {Gone}]
  BY <1>1 DEF Gathered, UserFiles
<1>3. QED
  BY <1>2, UpdateAssumption

(* What reaches a state shows it.                                          *)
LEMMA ReachedIsShown ==
    ASSUME NEW s \in {"container_healthy"} \cup Later, StateReaches(ObservedState, s),
           markers.container_html_view_updated => view = Gathered
    PROVE  Shows(s)
<1>1. ObservedState \in {"container_invalid", "undefined", "container_healthy"} \cup Later
  BY DEF ObservedState, Later
<1>2. ObservedState \notin {"container_invalid", "undefined"}
  BY Positions DEF StateReaches, Later
<1>3. dir /\ metadata = "ready" /\ storageIndex = "ready"
  BY <1>2 DEF ObservedState
<1>4. s \in Later => markers.container_datasets_healthy
  BY LaterIsMarked
<1>5. ASSUME s \in Later \ {"container_datasets_healthy"}
      PROVE  Cleaned
  <2>1. ObservedState \in Later \ {"container_datasets_healthy"}
    BY <1>1, <1>2, <1>5, Positions DEF StateReaches, Later
  <2>2. QED
    BY <2>1, <1>3 DEF ObservedState, Later
<1>6. ASSUME s \in {"container_datapackage_updated", "container_ro_crate_updated",
                    "container_html_view_updated"}
      PROVE  DatapackageUpdated
  <2>1. ObservedState \in {"container_datapackage_updated", "container_ro_crate_updated",
                           "container_html_view_updated"}
    BY <1>1, <1>2, <1>6, Positions DEF StateReaches, Later
  <2>2. QED
    BY <2>1, <1>3 DEF ObservedState
<1>7. ASSUME s \in {"container_ro_crate_updated", "container_html_view_updated"}
      PROVE  ManifestSynced
  <2>1. ObservedState \in {"container_ro_crate_updated", "container_html_view_updated"}
    BY <1>1, <1>2, <1>7, Positions DEF StateReaches, Later
  <2>2. QED
    BY <2>1, <1>3 DEF ObservedState
<1>8. ASSUME s = "container_html_view_updated"
      PROVE  view = Gathered /\ markers.container_html_view_updated
  <2>1. ObservedState = "container_html_view_updated"
    BY <1>1, <1>2, <1>8, Positions DEF StateReaches, Later
  <2>2. QED
    BY <2>1, <1>3 DEF ObservedState
<1>9. QED
  BY <1>3, <1>4, <1>5, <1>6, <1>7, <1>8 DEF Shows

(* What shows a state reaches it, unless datapackage.json cannot be read.  *)
LEMMA ShownIsReached ==
    ASSUME NEW s \in {"container_healthy"} \cup Later, Shows(s), datapackage # Corrupt,
           files \in [UserFiles -> Contents \cup {Gone}]
    PROVE  StateReaches(ObservedState, s)
<1>0. Gathered # Gone
  BY GatheredIsView
<1>1. dir /\ metadata = "ready" /\ storageIndex = "ready"
  BY DEF Shows, Later
<1>2. CASE s = "container_healthy"
  <2>1. ObservedState \in {"container_healthy"} \cup Later
    BY <1>1 DEF ObservedState, Later
  <2>2. QED
    BY <1>2, <2>1, Positions DEF StateReaches, Later
<1>3. CASE s = "container_datasets_healthy"
  <2>1. ObservedState \in Later
    BY <1>1, <1>3 DEF ObservedState, Later, Shows
  <2>2. QED
    BY <1>3, <2>1, Positions DEF StateReaches, Later
<1>4. CASE s = "container_cleaned"
  <2>1. ObservedState \in Later \ {"container_datasets_healthy"}
    BY <1>1, <1>4 DEF ObservedState, Later, Shows
  <2>2. QED
    BY <1>4, <2>1, Positions DEF StateReaches, Later
<1>5. CASE s = "container_datapackage_updated"
  <2>1. ObservedState \in {"container_datapackage_updated", "container_ro_crate_updated",
                           "container_html_view_updated"}
    BY <1>1, <1>5 DEF ObservedState, Later, Shows
  <2>2. QED
    BY <1>5, <2>1, Positions DEF StateReaches, Later
<1>6. CASE s = "container_ro_crate_updated"
  <2>1. ObservedState \in {"container_ro_crate_updated", "container_html_view_updated"}
    BY <1>1, <1>6 DEF ObservedState, Later, Shows
  <2>2. QED
    BY <1>6, <2>1, Positions DEF StateReaches, Later
<1>7. CASE s = "container_html_view_updated"
  <2>1. ObservedState = "container_html_view_updated"
    BY <1>0, <1>1, <1>7 DEF ObservedState, Later, Shows
  <2>2. QED
    BY <1>7, <2>1 DEF StateReaches
<1>8. QED
  BY <1>2, <1>3, <1>4, <1>5, <1>6, <1>7 DEF Later

(* The chart's transitions, one by one.                                    *)
LEMMA Successors ==
    /\ Successor("undefined") \in {"container_invalid", "container_healthy"}
    /\ Successor("container_healthy") = "container_datasets_healthy"
    /\ Successor("container_datasets_healthy") = "container_cleaned"
    /\ Successor("container_cleaned") = "container_datapackage_updated"
    /\ Successor("container_datapackage_updated") = "container_ro_crate_updated"
    /\ Successor("container_ro_crate_updated") =
         IF view # Gone THEN "container_html_view_updated" ELSE "container_updated"
    /\ Successor("container_html_view_updated") = "container_updated"
  BY Positions DEF Successor, Ordered

(* A step that changes nothing the checks look at keeps what is shown.     *)
LEMMA ShownIsKept ==
    ASSUME UNCHANGED <<dir, files, view, datapackage, crate, metadata, storageIndex, markers>>,
           NEW s
    PROVE  Shows(s)' <=> Shows(s)
  BY SameFiles, SameTree DEF Shows, DatapackageUpdated, ManifestSynced, Written
-----------------------------------------------------------------------------
(* The steps of an update that nobody disturbs.                            *)

(* Before a step of a capability the view is not marked.                   *)
LEMMA Unmarked ==
    ASSUME Calm, pc = "running", todo # <<>>
    PROVE  /\ ~markers.container_html_view_updated
           /\ IF Head(todo) = "surface" THEN viewed ELSE viewed <=> view # Gone
  BY DEF Calm, ViewKept, At

(* A step that leaves the view and the markers alone, and does not come    *)
(* before the generation, keeps the view's part of the invariant.          *)
LEMMA SameView ==
    ASSUME Calm, pc = "running", todo # <<>>, Head(todo) # "surface",
           pc' = pc, UNCHANGED <<view, viewed>>,
           markers'.container_html_view_updated = markers.container_html_view_updated,
           ~At("surface")'
    PROVE  ViewKept'
  BY Unmarked DEF ViewKept

(* Which stages begin with each step.                                      *)
LEMMA StagesAt ==
    ASSUME Calm, pc = "running"
    PROVE  /\ At("metadata") =>
                /\ target = "container_healthy" /\ dir
                /\ todo = <<"metadata", "index", "datapackage", "manifest", "prune", "complete">>
           /\ At("index") =>
                /\ target = "container_healthy" /\ dir /\ metadata = "ready"
                /\ todo = <<"index", "datapackage", "manifest", "prune", "complete">>
           /\ At("prune") =>
                /\ target = "container_healthy" /\ todo = <<"prune", "complete">>
                /\ Shows("container_healthy")
                /\ datapackage.status = "written" /\ crate.status = "written"
           /\ At("complete") =>
                /\ target = "container_healthy" /\ todo = <<"complete">>
                /\ Shows("container_healthy")
                /\ datapackage.status = "written" /\ crate.status = "written"
           /\ At("list") =>
                /\ target = "container_datasets_healthy" /\ todo = <<"list", "datasets">>
                /\ Shows("container_healthy")
           /\ At("datasets") =>
                /\ target = "container_datasets_healthy" /\ todo = <<"datasets">>
                /\ Shows("container_healthy")
           /\ At("clean") =>
                /\ target = "container_cleaned" /\ todo = <<"clean">>
                /\ Shows("container_datasets_healthy")
           /\ At("drop") =>
                /\ target = "container_html_view_updated"
                /\ todo = <<"drop", "surface", "datapackage", "manifest", "mark">>
                /\ Shows("container_ro_crate_updated") /\ view # Gone
           /\ At("surface") =>
                /\ target = "container_html_view_updated"
                /\ todo = <<"surface", "datapackage", "manifest", "mark">>
                /\ Shows("container_cleaned")
           /\ At("mark") =>
                /\ target = "container_html_view_updated" /\ todo = <<"mark">>
                /\ Shows("container_ro_crate_updated") /\ view = Gathered
  BY DEF Calm, OnCourse, HealthySteps, MiddleSteps, ViewSteps, At

(* The two synchronizations are steps of three capabilities each.          *)
LEMMA SyncsAt ==
    ASSUME Calm, pc = "running"
    PROVE  /\ At("datapackage") =>
                \/ /\ target = "container_healthy" /\ Shows("container_healthy")
                   /\ todo = <<"datapackage", "manifest", "prune", "complete">>
                \/ /\ target = "container_datapackage_updated" /\ Shows("container_cleaned")
                   /\ todo = <<"datapackage">>
                \/ /\ target = "container_html_view_updated" /\ Shows("container_cleaned")
                   /\ view = Gathered /\ todo = <<"datapackage", "manifest", "mark">>
           /\ At("manifest") =>
                \/ /\ target = "container_healthy" /\ Shows("container_healthy")
                   /\ todo = <<"manifest", "prune", "complete">>
                   /\ datapackage.status = "written"
                \/ /\ target = "container_ro_crate_updated" /\ todo = <<"manifest">>
                   /\ Shows("container_datapackage_updated")
                \/ /\ target = "container_html_view_updated" /\ view = Gathered
                   /\ todo = <<"manifest", "mark">> /\ Shows("container_datapackage_updated")
  BY DEF Calm, OnCourse, HealthySteps, MiddleSteps, ViewSteps, At

(* The steps that make the container healthy.                              *)
LEMMA HealthyCalm ==
    ASSUME Calm, pc = "running",
           MetadataReady \/ StorageIndexReady \/ PruneDatapackage \/ CompleteDatapackage
    PROVE  Calm'
<1> USE DEF tree, context, history, bounds
<1>0. todo # <<>> /\ Head(todo) \notin {"surface", "drop"} /\ UNCHANGED <<pc, active, target>>
  BY DEF MetadataReady, StorageIndexReady, PruneDatapackage, CompleteDatapackage, At, Proceed
<1>a. UNCHANGED <<dir, files, view, viewed, markers>> /\ todo' = Tail(todo)
  BY DEF MetadataReady, StorageIndexReady, PruneDatapackage, CompleteDatapackage, Proceed
<1>1. OnCourse' /\ ~At("surface")'
  <2>1. CASE MetadataReady
    <3>1. At("metadata") /\ metadata' = "ready"
      BY <2>1 DEF MetadataReady
    <3>2. /\ todo = <<"metadata", "index", "datapackage", "manifest", "prune", "complete">>
          /\ target = "container_healthy" /\ dir
      BY <3>1, StagesAt
    <3>3. todo' = <<"index", "datapackage", "manifest", "prune", "complete">>
      BY <1>a, <3>2
    <3>4. QED
      BY <1>0, <1>a, <3>1, <3>2, <3>3 DEF OnCourse, HealthySteps, At
  <2>2. CASE StorageIndexReady
    <3>1. At("index") /\ storageIndex' = "ready" /\ metadata' = metadata
      BY <2>2 DEF StorageIndexReady
    <3>2. /\ todo = <<"index", "datapackage", "manifest", "prune", "complete">>
          /\ target = "container_healthy" /\ dir /\ metadata = "ready"
      BY <3>1, StagesAt
    <3>3. todo' = <<"datapackage", "manifest", "prune", "complete">>
      BY <1>a, <3>2
    <3>4. Shows("container_healthy")'
      BY <1>a, <3>1, <3>2 DEF Shows, Later
    <3>5. QED
      BY <1>0, <1>a, <3>2, <3>3, <3>4 DEF OnCourse, HealthySteps, At
  <2>3. CASE PruneDatapackage
    <3>1. At("prune") /\ UNCHANGED <<metadata, storageIndex, crate>>
      BY <2>3 DEF PruneDatapackage, registration
    <3>2. /\ target = "container_healthy" /\ todo = <<"prune", "complete">>
          /\ Shows("container_healthy") /\ crate.status = "written"
      BY <3>1, StagesAt
    <3>3. todo' = <<"complete">>
      BY <1>a, <3>2
    <3>4. datapackage'.status = "written"
      BY <2>3 DEF PruneDatapackage, Written
    <3>5. Shows("container_healthy")'
      BY <1>a, <3>1, <3>2 DEF Shows, Later
    <3>6. dir'
      BY <3>5 DEF Shows
    <3>7. QED
      BY <1>0, <3>1, <3>2, <3>3, <3>4, <3>5, <3>6 DEF OnCourse, HealthySteps, At
  <2>4. CASE CompleteDatapackage
    <3>1. At("complete") /\ UNCHANGED <<metadata, storageIndex>>
      BY <2>4 DEF CompleteDatapackage, registration
    <3>2. /\ target = "container_healthy" /\ todo = <<"complete">>
          /\ Shows("container_healthy")
      BY <3>1, StagesAt
    <3>3. todo' = <<>>
      BY <1>a, <3>2
    <3>4. Shows("container_healthy")'
      BY <1>a, <3>1, <3>2 DEF Shows, Later
    <3>5. QED
      BY <1>0, <3>2, <3>3, <3>4 DEF OnCourse, At
  <2>5. QED
    BY <2>1, <2>2, <2>3, <2>4
<1>2. ViewKept'
  BY <1>0, <1>1, <1>a, SameView
<1>3. QED
  BY <1>0, <1>1, <1>2 DEF Calm

(* The synchronization of datapackage.json.                                *)
LEMMA SyncDatapackageCalm ==
    ASSUME Calm, pc = "running", SyncDatapackage
    PROVE  Calm'
<1>0. /\ todo # <<>> /\ Head(todo) = "datapackage" /\ todo' = Tail(todo)
      /\ UNCHANGED <<pc, active, target, dir, files, view, viewed, markers, metadata,
                     storageIndex, crate>>
  BY DEF SyncDatapackage, At, Proceed, tree, registration, context, history
<1>1. datapackage'.status = "written" /\ DatapackageUpdated'
  BY <1>0, SameTree DEF SyncDatapackage, DatapackageUpdated, Written
<1>2. (Cleaned' <=> Cleaned) /\ Gathered' = Gathered
  BY <1>0, SameFiles
<1>3. OnCourse' /\ ~At("surface")'
  <2>1. CASE /\ target = "container_healthy" /\ Shows("container_healthy")
             /\ todo = <<"datapackage", "manifest", "prune", "complete">>
    <3>1. todo' = <<"manifest", "prune", "complete">>
      BY <1>0, <2>1
    <3>2. Shows("container_healthy")'
      BY <1>0, <2>1 DEF Shows, Later
    <3>3. QED
      BY <1>0, <1>1, <2>1, <3>1, <3>2 DEF OnCourse, HealthySteps, At, Shows
  <2>2. CASE /\ target = "container_datapackage_updated" /\ Shows("container_cleaned")
             /\ todo = <<"datapackage">>
    <3>1. todo' = <<>>
      BY <1>0, <2>2
    <3>2. Shows("container_datapackage_updated")'
      BY <1>0, <1>1, <1>2, <2>2 DEF Shows, Later
    <3>3. QED
      BY <1>0, <2>2, <3>1, <3>2 DEF OnCourse, At
  <2>3. CASE /\ target = "container_html_view_updated" /\ Shows("container_cleaned")
             /\ view = Gathered /\ todo = <<"datapackage", "manifest", "mark">>
    <3>1. todo' = <<"manifest", "mark">>
      BY <1>0, <2>3
    <3>2. Shows("container_datapackage_updated")'
      BY <1>0, <1>1, <1>2, <2>3 DEF Shows, Later
    <3>3. QED
      BY <1>0, <1>2, <2>3, <3>1, <3>2 DEF OnCourse, ViewSteps, At
  <2>4. QED
    BY <1>0, <2>1, <2>2, <2>3, SyncsAt DEF At
<1>4. ViewKept'
  BY <1>0, <1>3, SameView
<1>5. QED
  BY <1>0, <1>3, <1>4 DEF Calm

(* The synchronization of the RO-Crate.                                    *)
LEMMA SyncManifestCalm ==
    ASSUME Calm, pc = "running", SyncManifest
    PROVE  Calm'
<1>0. /\ todo # <<>> /\ Head(todo) = "manifest" /\ todo' = Tail(todo)
      /\ UNCHANGED <<pc, active, target, dir, files, view, viewed, markers, metadata,
                     storageIndex, datapackage>>
  BY DEF SyncManifest, At, Proceed, tree, registration, context, history
<1>1. crate'.status = "written" /\ ManifestSynced'
  BY <1>0, SameTree DEF SyncManifest, ManifestSynced, Written
<1>2. (Cleaned' <=> Cleaned) /\ Gathered' = Gathered /\ (DatapackageUpdated' <=> DatapackageUpdated)
  BY <1>0, SameFiles, SameTree DEF DatapackageUpdated, Written
<1>3. OnCourse' /\ ~At("surface")'
  <2>1. CASE /\ target = "container_healthy" /\ Shows("container_healthy")
             /\ todo = <<"manifest", "prune", "complete">> /\ datapackage.status = "written"
    <3>1. todo' = <<"prune", "complete">>
      BY <1>0, <2>1
    <3>2. Shows("container_healthy")'
      BY <1>0, <2>1 DEF Shows, Later
    <3>3. QED
      BY <1>0, <1>1, <2>1, <3>1, <3>2 DEF OnCourse, HealthySteps, At, Shows
  <2>2. CASE /\ target = "container_ro_crate_updated" /\ todo = <<"manifest">>
             /\ Shows("container_datapackage_updated")
    <3>1. todo' = <<>>
      BY <1>0, <2>2
    <3>2. Shows("container_ro_crate_updated")'
      BY <1>0, <1>1, <1>2, <2>2 DEF Shows, Later
    <3>3. QED
      BY <1>0, <2>2, <3>1, <3>2 DEF OnCourse, At
  <2>3. CASE /\ target = "container_html_view_updated" /\ view = Gathered
             /\ todo = <<"manifest", "mark">> /\ Shows("container_datapackage_updated")
    <3>1. todo' = <<"mark">>
      BY <1>0, <2>3
    <3>2. Shows("container_ro_crate_updated")'
      BY <1>0, <1>1, <1>2, <2>3 DEF Shows, Later
    <3>3. QED
      BY <1>0, <1>2, <2>3, <3>1, <3>2 DEF OnCourse, ViewSteps, At
  <2>4. QED
    BY <1>0, <2>1, <2>2, <2>3, SyncsAt DEF At
<1>4. ViewKept'
  BY <1>0, <1>3, SameView
<1>5. QED
  BY <1>0, <1>3, <1>4 DEF Calm
(* The visit of the datasets.                                              *)
LEMMA DatasetsCalm ==
    ASSUME VisitInv, Calm, pc = "running",
           ListDatasets \/ DatasetsHealthy \/ \E d \in Datasets : RepairDataset(d)
    PROVE  Calm'
<1>0. /\ todo # <<>> /\ Head(todo) \in {"list", "datasets"}
      /\ UNCHANGED <<pc, active, target, dir, files, view, viewed, metadata, storageIndex,
                     datapackage, crate>>
  BY DEF ListDatasets, DatasetsHealthy, RepairDataset, At, Proceed, tree, descriptors,
         registration, history
<1>1. markers'.container_html_view_updated = markers.container_html_view_updated
  BY DEF VisitInv, Markers, ListDatasets, DatasetsHealthy, RepairDataset, context
<1>2. OnCourse' /\ ~At("surface")'
  <2>1. CASE ListDatasets
    <3>1. At("list") /\ todo' = Tail(todo)
      BY <2>1 DEF ListDatasets, Proceed
    <3>2. /\ target = "container_datasets_healthy" /\ todo = <<"list", "datasets">>
          /\ Shows("container_healthy")
      BY <3>1, StagesAt
    <3>3. todo' = <<"datasets">>
      BY <3>1, <3>2
    <3>4. Shows("container_healthy")'
      BY <1>0, <3>2 DEF Shows, Later
    <3>5. QED
      BY <1>0, <3>2, <3>3, <3>4 DEF OnCourse, MiddleSteps, At
  <2>2. CASE DatasetsHealthy
    <3>1. At("datasets") /\ todo' = Tail(todo)
      BY <2>2 DEF DatasetsHealthy, Proceed
    <3>2. /\ target = "container_datasets_healthy" /\ todo = <<"datasets">>
          /\ Shows("container_healthy")
      BY <3>1, StagesAt
    <3>3. todo' = <<>>
      BY <3>1, <3>2
    <3>4. markers'.container_datasets_healthy
      BY <2>2 DEF DatasetsHealthy, VisitInv, Markers
    <3>5. Shows("container_datasets_healthy")'
      BY <1>0, <3>2, <3>4 DEF Shows, Later
    <3>6. QED
      BY <1>0, <3>2, <3>3, <3>5 DEF OnCourse, At
  <2>3. ASSUME NEW d \in Datasets, RepairDataset(d)
        PROVE  OnCourse' /\ ~At("surface")'
    <3>1. At("datasets") /\ todo' = todo
      BY <2>3 DEF RepairDataset
    <3>2. /\ target = "container_datasets_healthy" /\ todo = <<"datasets">>
          /\ Shows("container_healthy")
      BY <3>1, StagesAt
    <3>3. Shows("container_healthy")'
      BY <1>0, <3>2 DEF Shows, Later
    <3>4. QED
      BY <1>0, <3>1, <3>2, <3>3 DEF OnCourse, MiddleSteps, At
  <2>4. QED
    BY <2>1, <2>2, <2>3
<1>3. ViewKept'
  BY <1>0, <1>1, <1>2, SameView
<1>4. QED
  BY <1>0, <1>2, <1>3 DEF Calm

(* The cleaning.                                                           *)
LEMMA CleanCalm ==
    ASSUME Calm, pc = "running", CleanContainer
    PROVE  Calm'
<1>0. /\ At("clean") /\ todo # <<>> /\ Head(todo) = "clean" /\ todo' = Tail(todo)
      /\ UNCHANGED <<pc, active, target, dir, view, viewed, metadata, storageIndex, markers>>
  BY DEF CleanContainer, At, Proceed, registration, context, history
<1>1. /\ target = "container_cleaned" /\ todo = <<"clean">>
      /\ Shows("container_datasets_healthy")
  BY <1>0, StagesAt
<1>2. Cleaned'
  <2>1. \A f \in Junk : f \in UserFiles /\ f # IndexFile
    BY UpdateAssumption DEF UserFiles
  <2>2. \A f \in Junk : files'[f] = Gone
    BY <2>1 DEF CleanContainer
  <2>3. QED
    BY <2>1, <2>2 DEF Cleaned, Present, ContentOf
<1>3. todo' = <<>>
  BY <1>0, <1>1
<1>4. Shows("container_cleaned")'
  BY <1>0, <1>1, <1>2 DEF Shows, Later
<1>5. OnCourse' /\ ~At("surface")'
  BY <1>0, <1>1, <1>3, <1>4 DEF OnCourse, At
<1>6. ViewKept'
  BY <1>0, <1>5, SameView
<1>7. QED
  BY <1>0, <1>5, <1>6 DEF Calm

(* The view is removed, generated from the files as they are, and marked   *)
(* once the descriptors list it.                                           *)
LEMMA ViewCalm ==
    ASSUME VisitInv, Calm, pc = "running", files \in [UserFiles -> Contents \cup {Gone}],
           DropView \/ GenerateSurface \/ HtmlViewUpdated
    PROVE  Calm'
<1>0. /\ todo # <<>> /\ todo' = Tail(todo)
      /\ UNCHANGED <<pc, active, target, dir, files, viewed, metadata, storageIndex,
                     datapackage, crate>>
  BY DEF DropView, GenerateSurface, HtmlViewUpdated, At, Proceed, tree, descriptors,
         registration, history
<1>1. (Cleaned' <=> Cleaned) /\ Gathered' = Gathered /\ Gathered # Gone
  BY <1>0, SameFiles, GatheredIsView
<1>2. CASE DropView
  <2>1. At("drop") /\ view' = Gone /\ markers' = markers
    BY <1>2 DEF DropView, context
  <2>2. /\ target = "container_html_view_updated"
        /\ todo = <<"drop", "surface", "datapackage", "manifest", "mark">>
        /\ Shows("container_ro_crate_updated") /\ view # Gone
    BY <2>1, StagesAt
  <2>3. todo' = <<"surface", "datapackage", "manifest", "mark">>
    BY <1>0, <2>2
  <2>4. Shows("container_cleaned")'
    BY <1>0, <1>1, <2>1, <2>2 DEF Shows, Later
  <2>5. OnCourse'
    BY <1>0, <2>2, <2>3, <2>4 DEF OnCourse, ViewSteps
  <2>6. ~markers.container_html_view_updated /\ viewed
    BY <1>0, <2>1, <2>2, Unmarked DEF At
  <2>7. ViewKept'
    <3>0. pc' = "running" /\ todo' # <<>> /\ Head(todo') = "surface"
      <4>1. pc' = "running"
        BY <1>0
      <4>2. QED
        BY <2>3, <4>1
    <3>1. At("surface")'
      BY <3>0 DEF At
    <3>2. viewed' /\ ~markers'.container_html_view_updated
      BY <1>0, <2>1, <2>6
    <3>3. QED
      BY <3>1, <3>2 DEF ViewKept
  <2>8. QED
    BY <1>0, <2>5, <2>7 DEF Calm
<1>3. CASE GenerateSurface
  <2>1. At("surface") /\ view' = Gathered /\ markers' = markers
    BY <1>3 DEF GenerateSurface, context
  <2>2. /\ target = "container_html_view_updated"
        /\ todo = <<"surface", "datapackage", "manifest", "mark">>
        /\ Shows("container_cleaned")
    BY <2>1, StagesAt
  <2>3. todo' = <<"datapackage", "manifest", "mark">>
    BY <1>0, <2>2
  <2>4. Shows("container_cleaned")'
    BY <1>0, <1>1, <2>1, <2>2 DEF Shows, Later
  <2>5. OnCourse'
    BY <1>0, <1>1, <2>1, <2>2, <2>3, <2>4 DEF OnCourse, ViewSteps
  <2>6. ~markers.container_html_view_updated /\ viewed
    BY <1>0, <2>1, <2>2, Unmarked DEF At
  <2>7. ViewKept'
    <3>1. ~At("surface")'
      BY <1>0, <2>3 DEF At
    <3>2. viewed' /\ view' # Gone /\ ~markers'.container_html_view_updated
      BY <1>0, <1>1, <2>1, <2>6
    <3>3. QED
      BY <3>1, <3>2 DEF ViewKept
  <2>8. QED
    BY <1>0, <2>5, <2>7 DEF Calm
<1>4. CASE HtmlViewUpdated
  <2>1. At("mark") /\ view' = view
    BY <1>4 DEF HtmlViewUpdated, tree
  <2>2. /\ target = "container_html_view_updated" /\ todo = <<"mark">>
        /\ Shows("container_ro_crate_updated") /\ view = Gathered
    BY <2>1, StagesAt
  <2>3. todo' = <<>>
    BY <1>0, <2>2
  <2>4. /\ markers'.container_html_view_updated
        /\ markers'.container_datasets_healthy = markers.container_datasets_healthy
    BY <1>4 DEF HtmlViewUpdated, VisitInv, Markers
  <2>5. (DatapackageUpdated' <=> DatapackageUpdated) /\ (ManifestSynced' <=> ManifestSynced)
    BY <1>0, <2>1, SameTree DEF DatapackageUpdated, ManifestSynced, Written
  <2>6. Shows("container_html_view_updated")'
    BY <1>0, <1>1, <2>1, <2>2, <2>4, <2>5 DEF Shows, Later
  <2>7. OnCourse'
    BY <1>0, <2>2, <2>3, <2>6 DEF OnCourse
  <2>8. viewed <=> view # Gone
    BY <1>0, <2>2, Unmarked
  <2>9. ViewKept'
    <3>1. ~At("surface")' /\ (viewed' <=> view' # Gone)
      BY <1>0, <2>1, <2>3, <2>8 DEF At
    <3>2. view' = Gathered' /\ pc' = "running" /\ target' = "container_html_view_updated"
      BY <1>0, <1>1, <2>1, <2>2
    <3>3. QED
      BY <2>3, <3>1, <3>2 DEF ViewKept
  <2>10. QED
    BY <1>0, <2>7, <2>9 DEF Calm
<1>5. QED
  BY <1>2, <1>3, <1>4
(* A command that starts shows the state it begins in.                     *)
LEMMA StartCalm ==
    ASSUME Start, pc' # "idle"
    PROVE  Calm'
<1>1. /\ pc' = "ready" /\ active' = ObservedState' /\ ~markers'.container_html_view_updated
      /\ ~markers'.container_datasets_healthy /\ (viewed' <=> view' # Gone)
      /\ active' # "container_invalid"
  BY DEF Start, ClearProcessMarkers, NoMarkers, FinalStates, tree
<1>2. active' \in {"undefined", "container_healthy"}
  BY <1>1 DEF ObservedState
<1>3. dir' /\ (active' # "undefined" => metadata' = "ready" /\ storageIndex' = "ready")
  BY <1>1 DEF ObservedState
<1>4. Shows(active)'
  BY <1>2, <1>3 DEF Shows, Later
<1>5. ViewKept'
  BY <1>1 DEF ViewKept, At
<1>6. QED
  BY <1>1, <1>4, <1>5 DEF Calm

(* A transition starts with what the active state shows, or is skipped.    *)
LEMMA PerformCalm ==
    ASSUME VisitInv, Calm, Perform
    PROVE  Calm'
<1>0. /\ pc = "ready" /\ pc' = "running" /\ target' = Successor(active)
      /\ Successor(active) \notin FinalStates
      /\ UNCHANGED <<active, dir, files, view, viewed, markers, metadata, storageIndex,
                     datapackage, crate>>
  BY DEF Perform, tree, descriptors, registration, context, history
<1>1. active \in {"undefined", "container_healthy"} \cup Later /\ Shows(active)
  BY <1>0 DEF VisitInv, Calm
<1>2. \A s : Shows(s)' <=> Shows(s)
  BY <1>0, ShownIsKept
<1>3. ~markers.container_html_view_updated /\ (viewed <=> view # Gone)
  <2>1. active # "container_html_view_updated"
    BY <1>0, Successors DEF FinalStates
  <2>2. QED
    BY <1>0, <2>1 DEF Calm, ViewKept, At
<1>4. CASE todo' = <<>> /\ StateReaches(ObservedState, target')
  <2>1. target' \in {"container_healthy"} \cup Later
    BY <1>0, <1>1, SuccessorStates
  <2>2. Shows(Successor(active))
    BY <1>0, <1>3, <1>4, <2>1, ReachedIsShown
  <2>3. Shows(target)'
    <3>1. PICK s : s = Successor(active)
      OBVIOUS
    <3>2. target' = s /\ Shows(s)'
      BY <1>0, <1>2, <2>2, <3>1
    <3>3. QED
      BY <3>2 DEF Shows
  <2>4. OnCourse' /\ ~At("surface")'
    BY <1>4, <2>3 DEF OnCourse, At
  <2>5. ViewKept'
    BY <1>0, <1>3, <2>4 DEF ViewKept
  <2>6. QED
    BY <1>0, <2>4, <2>5 DEF Calm
<1>5. CASE todo' = Steps(target')
  <2>1. OnCourse' /\ ~At("surface")'
    <3>1. CASE active = "undefined"
      <4>1. target' = "container_healthy"
        BY <1>0, <3>1, Successors DEF FinalStates
      <4>2. todo' = <<"metadata", "index", "datapackage", "manifest", "prune", "complete">>
        BY <1>5, <4>1 DEF Steps
      <4>3. dir'
        BY <1>0, <1>1 DEF Shows
      <4>4. QED
        BY <4>1, <4>2, <4>3 DEF OnCourse, HealthySteps, At
    <3>2. CASE active = "container_healthy"
      <4>1. target' = "container_datasets_healthy"
        BY <1>0, <3>2, Successors
      <4>2. todo' = <<"list", "datasets">>
        BY <1>5, <4>1 DEF Steps
      <4>3. Shows("container_healthy")'
        BY <1>1, <1>2, <3>2
      <4>4. QED
        BY <4>1, <4>2, <4>3 DEF OnCourse, MiddleSteps, At
    <3>3. CASE active = "container_datasets_healthy"
      <4>1. target' = "container_cleaned"
        BY <1>0, <3>3, Successors
      <4>2. todo' = <<"clean">>
        BY <1>5, <4>1 DEF Steps
      <4>3. Shows("container_datasets_healthy")'
        BY <1>1, <1>2, <3>3
      <4>4. QED
        BY <4>1, <4>2, <4>3 DEF OnCourse, MiddleSteps, At
    <3>4. CASE active = "container_cleaned"
      <4>1. target' = "container_datapackage_updated"
        BY <1>0, <3>4, Successors
      <4>2. todo' = <<"datapackage">>
        BY <1>5, <4>1 DEF Steps
      <4>3. Shows("container_cleaned")'
        BY <1>1, <1>2, <3>4
      <4>4. QED
        BY <4>1, <4>2, <4>3 DEF OnCourse, MiddleSteps, At
    <3>5. CASE active = "container_datapackage_updated"
      <4>1. target' = "container_ro_crate_updated"
        BY <1>0, <3>5, Successors
      <4>2. todo' = <<"manifest">>
        BY <1>5, <4>1 DEF Steps
      <4>3. Shows("container_datapackage_updated")'
        BY <1>1, <1>2, <3>5
      <4>4. QED
        BY <4>1, <4>2, <4>3 DEF OnCourse, MiddleSteps, At
    <3>6. CASE active = "container_ro_crate_updated"
      <4>1. target' = "container_html_view_updated" /\ view # Gone
        BY <1>0, <3>6, Successors DEF FinalStates
      <4>2. todo' = <<"drop", "surface", "datapackage", "manifest", "mark">>
        BY <1>5, <4>1 DEF Steps
      <4>3. Shows("container_ro_crate_updated")' /\ view' # Gone
        BY <1>0, <1>1, <1>2, <3>6, <4>1
      <4>4. QED
        BY <4>1, <4>2, <4>3 DEF OnCourse, ViewSteps, At
    <3>7. active # "container_html_view_updated"
      BY <1>0, Successors DEF FinalStates
    <3>8. QED
      BY <1>1, <3>1, <3>2, <3>3, <3>4, <3>5, <3>6, <3>7 DEF Later
  <2>2. ViewKept'
    BY <1>0, <1>3, <2>1 DEF ViewKept
  <2>3. QED
    BY <1>0, <2>1, <2>2 DEF Calm
<1>6. QED
  BY <1>4, <1>5 DEF Perform

(* The contract of a transition.                                           *)
LEMMA ValidateCalm ==
    ASSUME VisitInv, Calm, Validate, pc' # "idle"
    PROVE  Calm'
<1>0. /\ pc = "running" /\ pc' = "ready" /\ todo = <<>> /\ todo' = <<>> /\ active' = target
      /\ UNCHANGED <<dir, files, view, viewed, markers, metadata, storageIndex, datapackage,
                     crate>>
  BY DEF Validate, EndInError, tree, descriptors, registration, context, history
<1>1. Shows(target)
  BY <1>0 DEF Calm, OnCourse, HealthySteps, MiddleSteps, ViewSteps
<1>2. Shows(active)'
  <2>1. PICK s : s = target
    OBVIOUS
  <2>2. active' = s /\ Shows(s)'
    BY <1>0, <1>1, <2>1, ShownIsKept
  <2>3. QED
    BY <2>2 DEF Shows
<1>3. Gathered' = Gathered
  BY <1>0, SameFiles
<1>4. ViewKept'
  BY <1>0, <1>3 DEF Calm, ViewKept, At
<1>5. QED
  BY <1>0, <1>2, <1>4 DEF Calm
(* The update's own steps keep the invariant while nobody disturbs it.     *)
LEMMA WorkCalm ==
    ASSUME VisitInv, CalmInv, Work, ~disturbed, pc' # "idle"
    PROVE  Calm'
<1>1. pc # "idle"
  BY DEF Work, Finish, Perform, Validate, StepRaises, Impossible, MetadataReady,
         StorageIndexReady, SyncDatapackage, SyncManifest, PruneDatapackage,
         CompleteDatapackage, ListDatasets, RepairDataset, DatasetsHealthy, CleanContainer,
         DropView, GenerateSurface, HtmlViewUpdated, At
<1>2. Calm /\ files \in [UserFiles -> Contents \cup {Gone}]
  BY <1>1 DEF CalmInv
<1>3. CASE Finish \/ StepRaises
  BY <1>3 DEF Finish, StepRaises, EndInError
<1>4. CASE Perform
  BY <1>2, <1>4, PerformCalm
<1>5. CASE Validate
  BY <1>2, <1>5, ValidateCalm
<1>6. CASE MetadataReady \/ StorageIndexReady \/ PruneDatapackage \/ CompleteDatapackage
  BY <1>2, <1>6, HealthyCalm DEF MetadataReady, StorageIndexReady, PruneDatapackage,
     CompleteDatapackage, At
<1>7. CASE SyncDatapackage
  BY <1>2, <1>7, SyncDatapackageCalm DEF SyncDatapackage, At
<1>8. CASE SyncManifest
  BY <1>2, <1>8, SyncManifestCalm DEF SyncManifest, At
<1>9. CASE ListDatasets \/ DatasetsHealthy \/ \E d \in Datasets : RepairDataset(d)
  BY <1>2, <1>9, DatasetsCalm DEF ListDatasets, DatasetsHealthy, RepairDataset, At
<1>10. CASE CleanContainer
  BY <1>2, <1>10, CleanCalm DEF CleanContainer, At
<1>11. CASE DropView \/ GenerateSurface \/ HtmlViewUpdated
  BY <1>2, <1>11, ViewCalm DEF DropView, GenerateSurface, HtmlViewUpdated, At
<1>12. QED
  BY <1>3, <1>4, <1>5, <1>6, <1>7, <1>8, <1>9, <1>10, <1>11 DEF Work

(* The files stay files, whatever happens.                                 *)
LEMMA FilesStep ==
    ASSUME files \in [UserFiles -> Contents \cup {Gone}], pc \in {"idle", "ready", "running"},
           [Next]_vars
    PROVE  /\ files' \in [UserFiles -> Contents \cup {Gone}]
           /\ pc' \in {"idle", "ready", "running"}
<1> USE DEF tree, worker, Proceed, EndInError
<1>1. CASE Start \/ Finish \/ Perform \/ Validate \/ StepRaises
  BY <1>1 DEF Start, Finish, Perform, Validate, StepRaises
<1>2. CASE MetadataReady \/ StorageIndexReady \/ SyncDatapackage \/ SyncManifest
  BY <1>2 DEF MetadataReady, StorageIndexReady, SyncDatapackage, SyncManifest
<1>3. CASE PruneDatapackage \/ CompleteDatapackage \/ ListDatasets \/ DatasetsHealthy
  BY <1>3 DEF PruneDatapackage, CompleteDatapackage, ListDatasets, DatasetsHealthy
<1>4. CASE (\E d \in Datasets : RepairDataset(d)) \/ CleanContainer
  BY <1>4 DEF RepairDataset, CleanContainer
<1>5. CASE DropView \/ GenerateSurface \/ HtmlViewUpdated \/ StepFails \/ Kill
  BY <1>5 DEF DropView, GenerateSurface, HtmlViewUpdated, StepFails, Kill, Interrupted
<1>6. CASE \/ \E f \in UserFiles, c \in Contents \cup {Gone} : Edit(f, c)
           \/ DeleteView \/ DeleteDirectory
  BY <1>6 DEF Edit, DeleteView, DeleteDirectory
<1>7. CASE UNCHANGED vars
  BY <1>7 DEF vars
<1>8. QED
  BY <1>1, <1>2, <1>3, <1>4, <1>5, <1>6, <1>7 DEF Next, Work

(* Every step preserves the invariant.                                     *)
LEMMA CalmStep == VisitInv /\ CalmInv /\ [Next]_vars => CalmInv'
<1> SUFFICES ASSUME VisitInv, CalmInv, [Next]_vars
             PROVE  CalmInv'
  OBVIOUS
<1>1. /\ files' \in [UserFiles -> Contents \cup {Gone}]
      /\ pc' \in {"idle", "ready", "running"}
  BY FilesStep DEF CalmInv
<1>2. ASSUME pc' # "idle", ~disturbed'
      PROVE  Calm'
  <2>1. CASE Start
    BY <1>2, <2>1, StartCalm
  <2>2. CASE Work
    <3>1. disturbed' = disturbed
      BY <2>2 DEF Work, Finish, Perform, Validate, StepRaises, MetadataReady,
         StorageIndexReady, SyncDatapackage, SyncManifest, PruneDatapackage,
         CompleteDatapackage, ListDatasets, RepairDataset, DatasetsHealthy, CleanContainer,
         DropView, GenerateSurface, HtmlViewUpdated, history
    <3>2. QED
      BY <1>2, <2>2, <3>1, WorkCalm
  <2>3. CASE StepFails \/ Kill
    BY <1>2, <2>3 DEF StepFails, Kill, EndInError
  <2>4. CASE \/ \E f \in UserFiles, c \in Contents \cup {Gone} : Edit(f, c)
             \/ DeleteView \/ DeleteDirectory
    BY <1>2, <2>4 DEF Edit, DeleteView, DeleteDirectory
  <2>5. CASE UNCHANGED vars
    <3>1. UNCHANGED <<dir, files, view, datapackage, crate, metadata, storageIndex, markers,
                      pc, active, target, todo, viewed, disturbed>>
      BY <2>5 DEF vars, tree, descriptors, registration, context, worker, history
    <3>2. Calm
      BY <1>2, <3>1 DEF CalmInv
    <3>3. QED
      BY <3>1, <3>2 DEF Calm, ViewKept, OnCourse, HealthySteps, MiddleSteps, ViewSteps, At,
         Shows, Cleaned, DatapackageUpdated, ManifestSynced, Inventory, Manifest, Gathered,
         Present, ContentOf, Written
  <2>6. QED
    BY <2>1, <2>2, <2>3, <2>4, <2>5 DEF Next
<1>3. QED
  BY <1>1, <1>2 DEF CalmInv

(* The invariants of an update that nobody disturbs.                       *)
LEMMA CalmHolds == Spec => [](PathInv /\ VisitInv /\ CalmInv)
<1>1. Init => CalmInv
  <2>1. {Original, Gone} \subseteq Contents \cup {Gone}
    BY UpdateAssumption
  <2>2. QED
    BY <2>1 DEF Init, CalmInv
<1>2. QED
  BY <1>1, PathInit, PathStep, VisitInit, VisitStep, CalmStep, PTL DEF Spec

(* What UpdateConverges asks of the directory.                             *)
Converged ==
    /\ Cleaned /\ DatapackageUpdated /\ ManifestSynced
    /\ view = (IF viewed THEN Gathered ELSE Gone)

(* A command that answers "updated" has converged: it ends at the RO-Crate *)
(* with no view, or at the view that this process has marked.              *)
LEMMA FinishConverges ==
    ASSUME VisitInv, CalmInv, Finish, response' = "updated", ~disturbed
    PROVE  Converged
<1>1. /\ pc = "ready" /\ Successor(active) \in FinalStates
      /\ ObservedState # "container_invalid"
  BY DEF Finish
<1>2. /\ active \in {"undefined", "container_healthy"} \cup Later
      /\ Shows(active) /\ ViewKept /\ todo = <<>>
      /\ files \in [UserFiles -> Contents \cup {Gone}]
  BY <1>1 DEF VisitInv, CalmInv, Calm
<1>3. Successor(active) = "container_updated"
  BY <1>1, <1>2, SuccessorStates DEF FinalStates
<1>4. \/ active = "container_ro_crate_updated" /\ view = Gone
      \/ active = "container_html_view_updated"
  BY <1>2, <1>3, Successors DEF Later
<1>5. viewed <=> view # Gone
  BY <1>1, <1>2 DEF ViewKept, At
<1>6. Gathered # Gone
  BY <1>2, GatheredIsView
<1>7. CASE active = "container_ro_crate_updated" /\ view = Gone
  BY <1>2, <1>5, <1>7 DEF Shows, Later, Converged
<1>8. CASE active = "container_html_view_updated"
  BY <1>2, <1>5, <1>6, <1>8 DEF Shows, Later, Converged
<1>9. QED
  BY <1>4, <1>7, <1>8

(* What no hotfix repairs.                                                 *)
Excused ==
    \/ metadata = "broken" \/ storageIndex = "broken" \/ datapackage = Corrupt
    \/ \E d \in Datasets : health[d] = "broken"

(* A step or a contract fails only on what no hotfix repairs: each step    *)
(* finds what the steps before it have left, and each contract what its    *)
(* capability has done.                                                    *)
LEMMA ErrorExcused ==
    ASSUME VisitInv, CalmInv, ~disturbed,
           StepRaises \/ (Validate /\ pc' = "idle")
    PROVE  Excused
<1>1. pc = "running"
  BY DEF StepRaises, Impossible, Validate, At
<1>2. Calm /\ files \in [UserFiles -> Contents \cup {Gone}]
  BY <1>1 DEF CalmInv
<1>3. CASE Validate /\ pc' = "idle"
  <2>1. todo = <<>> /\ ~StateReaches(ObservedState, target)
    BY <1>3 DEF Validate
  <2>2. Shows(target) /\ target \in {"container_healthy"} \cup Later
    BY <1>1, <1>2, <2>1 DEF Calm, OnCourse, HealthySteps, MiddleSteps, ViewSteps, VisitInv
  <2>3. QED
    BY <1>2, <2>1, <2>2, ShownIsReached DEF Excused
<1>4. CASE StepRaises
  <2>0. Impossible
    BY <1>4 DEF StepRaises
  <2>1. CASE At("metadata") /\ (~dir \/ metadata = "broken")
    BY <1>1, <1>2, <2>1, StagesAt DEF Excused
  <2>2. CASE At("index") /\ (~dir \/ storageIndex = "broken")
    BY <1>1, <1>2, <2>2, StagesAt DEF Excused
  <2>3. CASE At("datapackage") /\ (~dir \/ datapackage = Corrupt)
    BY <1>1, <1>2, <2>3, SyncsAt DEF Excused, Shows
  <2>4. CASE At("manifest") /\ (~dir \/ storageIndex # "ready")
    BY <1>1, <1>2, <2>4, SyncsAt DEF Shows
  <2>5. CASE At("prune") /\ (~dir \/ datapackage.status # "written")
    BY <1>1, <1>2, <2>5, StagesAt DEF Shows
  <2>6. CASE /\ At("complete")
             /\ ~dir \/ datapackage.status # "written" \/ crate.status # "written"
    BY <1>1, <1>2, <2>6, StagesAt DEF Shows
  <2>7. CASE /\ At("datasets") /\ queue # {}
             /\ ~dir \/ \E d \in queue : health[d] = "broken"
    <3>1. dir
      BY <1>1, <1>2, <2>7, StagesAt DEF Shows
    <3>2. queue \subseteq Datasets
      BY <2>7, <3>1 DEF VisitInv
    <3>3. QED
      BY <2>7, <3>1, <3>2 DEF Excused
  <2>8. CASE At("clean") /\ ~dir
    BY <1>1, <1>2, <2>8, StagesAt DEF Shows
  <2>9. CASE At("drop") /\ view = Gone
    BY <1>1, <1>2, <2>9, StagesAt
  <2>10. CASE At("surface") /\ ~dir
    BY <1>1, <1>2, <2>10, StagesAt DEF Shows
  <2>11. QED
    BY <2>0, <2>1, <2>2, <2>3, <2>4, <2>5, <2>6, <2>7, <2>8, <2>9, <2>10 DEF Impossible
<1>5. QED
  BY <1>3, <1>4

(* A step of a command that runs, and does not end it, answers nothing.    *)
LEMMA Unanswered ==
    ASSUME PathInv, [Next]_vars, response' \in {"updated", "error"}
    PROVE  \/ Finish /\ response' = "updated"
           \/ (StepRaises \/ (Validate /\ pc' = "idle")) /\ response' = "error"
           \/ StepFails
           \/ disturbed'
           \/ /\ response' = response
              /\ UNCHANGED <<dir, files, view, viewed, datapackage, crate, metadata,
                             storageIndex, health, disturbed, raised>>
<1> USE DEF PathInv
<1>1. CASE Start \/ Kill
  BY <1>1 DEF Start, Kill
<1>2. CASE Finish \/ StepRaises \/ StepFails
  BY <1>2 DEF Finish, StepRaises, EndInError
<1>3. CASE Validate
  BY <1>3 DEF Validate, EndInError
<1>4. CASE Perform \/ ListDatasets \/ DatasetsHealthy \/ HtmlViewUpdated
  BY <1>4 DEF Perform, ListDatasets, DatasetsHealthy, HtmlViewUpdated, Proceed, At
<1>5. CASE MetadataReady \/ StorageIndexReady \/ SyncDatapackage \/ SyncManifest
  BY <1>5 DEF MetadataReady, StorageIndexReady, SyncDatapackage, SyncManifest, Proceed, At
<1>6. CASE PruneDatapackage \/ CompleteDatapackage \/ CleanContainer \/ DropView
           \/ GenerateSurface \/ \E d \in Datasets : RepairDataset(d)
  BY <1>6 DEF PruneDatapackage, CompleteDatapackage, CleanContainer, DropView,
     GenerateSurface, RepairDataset, Proceed, At
<1>7. CASE \/ \E f \in UserFiles, c \in Contents \cup {Gone} : Edit(f, c)
           \/ DeleteView \/ DeleteDirectory
  BY <1>7 DEF Edit, DeleteView, DeleteDirectory
<1>8. CASE UNCHANGED vars
  BY <1>8 DEF vars, tree, descriptors, registration, worker, history
<1>9. QED
  BY <1>1, <1>2, <1>3, <1>4, <1>5, <1>6, <1>7, <1>8 DEF Next, Work

(* UpdateConverges: an update that nobody disturbs and that answers        *)
(* "updated" leaves a clean directory, descriptors that list exactly what  *)
(* is there, and a view of the files as they are, whatever earlier         *)
(* commands failed, were killed or left in the context.                    *)
THEOREM UpdateHasConverged == Spec => []UpdateConverges
<1>1. Init => UpdateConverges
  BY DEF Init, UpdateConverges
<1>2. PathInv /\ VisitInv /\ CalmInv /\ UpdateConverges /\ [Next]_vars => UpdateConverges'
  <2> SUFFICES ASSUME PathInv, VisitInv, CalmInv, UpdateConverges, [Next]_vars,
                      response' = "updated", ~disturbed'
               PROVE  Converged'
    BY DEF UpdateConverges, Converged
  <2>1. CASE Finish
    <3>1. ~disturbed /\ UNCHANGED <<files, view, viewed, datapackage, crate, storageIndex>>
      BY <2>1 DEF Finish, tree, descriptors, registration, history
    <3>2. Converged
      BY <2>1, <3>1, FinishConverges
    <3>3. QED
      BY <3>1, <3>2, SameFiles, SameTree DEF Converged, DatapackageUpdated, ManifestSynced,
         Written
  <2>2. CASE StepFails
    BY <2>2 DEF StepFails, EndInError
  <2>3. CASE /\ response' = response
             /\ UNCHANGED <<dir, files, view, viewed, datapackage, crate, metadata,
                            storageIndex, health, disturbed, raised>>
    <3>1. Converged
      BY <2>3 DEF UpdateConverges, Converged
    <3>2. QED
      BY <2>3, <3>1, SameFiles, SameTree DEF Converged, DatapackageUpdated, ManifestSynced,
         Written
  <2>4. QED
    BY <2>1, <2>2, <2>3, Unanswered
<1>3. QED
  BY <1>1, <1>2, CalmHolds, PTL DEF Spec

(* NoSpuriousError: an update that ends in an error met an edit, an I/O    *)
(* error, or a file that no hotfix repairs.                                *)
THEOREM ErrorsHaveACause == Spec => []NoSpuriousError
<1>1. Init => NoSpuriousError
  BY DEF Init, NoSpuriousError
<1>2. PathInv /\ VisitInv /\ CalmInv /\ NoSpuriousError /\ [Next]_vars => NoSpuriousError'
  <2> SUFFICES ASSUME PathInv, VisitInv, CalmInv, NoSpuriousError, [Next]_vars,
                      response' = "error", ~disturbed', ~raised'
               PROVE  Excused'
    BY DEF NoSpuriousError, Excused
  <2>1. CASE StepRaises \/ (Validate /\ pc' = "idle")
    <3>1. ~disturbed /\ UNCHANGED <<metadata, storageIndex, datapackage, health>>
      BY <2>1 DEF StepRaises, Validate, descriptors, registration, history
    <3>2. Excused
      BY <2>1, <3>1, ErrorExcused
    <3>3. QED
      BY <3>1, <3>2 DEF Excused, Corrupt
  <2>2. CASE StepFails
    BY <2>2 DEF StepFails
  <2>3. CASE /\ response' = response
             /\ UNCHANGED <<dir, files, view, viewed, datapackage, crate, metadata,
                            storageIndex, health, disturbed, raised>>
    BY <2>3 DEF NoSpuriousError, Excused, Corrupt
  <2>4. QED
    BY <2>1, <2>2, <2>3, Unanswered
<1>3. QED
  BY <1>1, <1>2, CalmHolds, PTL DEF Spec
=============================================================================
