------------------------ MODULE EntityLearningProofs ------------------------
(***************************************************************************)
(* The step files of --learn-from and --analyse, for every set of PDFs, of *)
(* entities and of candidates, every vector, and every number of commands, *)
(* edits, failures and kills.                                              *)
(*                                                                         *)
(* A directory of step files is filled from the front, so that the one     *)
(* number that observed_state computes says which files there are: that is *)
(* Upto.  A capability writes only behind that front.  So it never         *)
(* replaces a file that a later one was computed from, and what Derived    *)
(* says of two files of a directory stays true once both are there.        *)
(***************************************************************************)
EXTENDS EntityLearning, WellFoundedInduction, NaturalsInduction, TLAPS

-----------------------------------------------------------------------------
(* A directory of step files, as a function from names to files            *)

\* The place of a step in its chart; the charts differ in the fifth.
Rank(s) ==
    CASE s = "identified" -> 1
      [] s = "extracted" -> 2
      [] s = "spatialized" -> 3
      [] s = "aligned" -> 4
      [] s = "published" -> 5
      [] s = "origin_resolved" -> 5
      [] s = "vectors_loaded" -> 6
      [] s = "scored" -> 7
      [] s = "analysed" -> 8

Common == {"identified", "extracted", "spatialized", "aligned"}

StepsOf(k) ==
    Common \cup IF k = "learning" THEN {"published"}
                ELSE {"origin_resolved", "vectors_loaded", "scored", "analysed"}

\* The files of directory d are the first n of its chart.
Upto(k, d, n) ==
    \A s \in StepNames : d[s].status # "missing" <=> s \in StepsOf(k) /\ Rank(s) <= n

\* observed_state, of a directory.
Shown(k, d) ==
    LET there == {i \in 1 .. Length(k) : d[Order(k)[i]].status # "missing"}
    IN IF there = {} THEN 0 ELSE CHOOSE i \in there : \A j \in there : j <= i

Weighted(loaded) == \A c \in DOMAIN loaded : loaded[c].weight \in Nat

IsDone(d, s) == d[s].status = "done"

\* The file f of step s follows from the files of directory d.
Follows(s, d, f) ==
    f.status = "done" =>
      /\ s = "identified" => f.value \in Paths
      /\ s = "spatialized" => f.value \in Contents
      /\ s = "aligned" =>
           IsDone(d, "spatialized") /\ f.value = WeightOf[d["spatialized"].value]
      /\ s = "published" =>
           /\ IsDone(d, "identified") /\ f.value.path = d["identified"].value
           /\ IsDone(d, "aligned") /\ f.value.weight = d["aligned"].value
      /\ s = "vectors_loaded" => Weighted(f.value)
      /\ s = "scored" =>
           /\ IsDone(d, "aligned") /\ IsDone(d, "vectors_loaded")
           /\ f.value = Scores(d["aligned"].value, d["vectors_loaded"].value)
      /\ s = "analysed" => IsDone(d, "scored") /\ f.value = BestMatch(d["scored"].value)

Derived(d) == \A s \in StepNames : Follows(s, d, d[s])

Statuses(d) ==
    /\ DOMAIN d = StepNames
    /\ \A s \in StepNames : d[s].status \in {"missing", "torn", "done"}

DirInv(k, d) ==
    /\ Statuses(d)
    /\ Shown(k, d) \in 0 .. Length(k) /\ Upto(k, d, Shown(k, d))
    /\ Derived(d)

-----------------------------------------------------------------------------
(* The inductive invariant                                                 *)

StepsInv ==
    /\ DOMAIN steps = Kinds
    /\ \A k \in Kinds : DOMAIN steps[k] = Contents
    /\ \A k \in Kinds, h \in Contents : DirInv(k, steps[k][h])

Context == [records : [Contents -> Records \cup {None}], parameters : BOOLEAN]

\* The running chart stands in the state that its directory shows.
WorkInv ==
    /\ pc \in {"ready", "reset", "record", "respond"} =>
         path \in Paths /\ hash \in Contents /\ active = Observed(kind, hash)
    /\ pc \in {"ready", "reset", "record"} => active < Length(kind)
    /\ pc \in {"reset", "record"} =>
         /\ kind = "learning" /\ active = 4
         /\ Readable(kind, hash, "identified") /\ Readable(kind, hash, "aligned")
    /\ pc # "idle" /\ kind = "learning" => entity \in Entities

FilesTyped ==
    /\ source \in [Paths -> Contents \cup {None}]
    /\ local \in [Candidates -> Nat \cup {None}]
    /\ cached \in [Candidates -> Nat \cup {None}]
    /\ remote \in [Candidates -> Nat \cup {None}]

WorkerTyped ==
    /\ pc \in {"idle", "open", "ready", "reset", "record", "respond"}
    /\ kind \in Kinds /\ active \in 0 .. Length(kind) /\ jobs \subseteq Paths
    /\ path \in Paths \cup {None} /\ hash \in Contents \cup {None}
    /\ entity \in Entities \cup {None} /\ reported \subseteq Contents
    /\ response \in {"none", "learned", "analysed", "failed", "killed"}

CountersTyped ==
    /\ commands \in 0 .. MaxCommands /\ edits \in 0 .. MaxEdits
    /\ failures \in 0 .. MaxFailures

IInv ==
    /\ FilesTyped /\ WorkerTyped /\ CountersTyped
    /\ contextFile \in Context /\ memory \in Context
    /\ StepsInv
    /\ WorkInv

-----------------------------------------------------------------------------
(* The nearest candidate                                                   *)

\* A non-empty set of natural numbers has a least element.
LEMMA LeastNumber ==
    ASSUME NEW S \in SUBSET Nat, S # {}
    PROVE  \E n \in S : \A m \in S : n <= m
  <1> DEFINE R == OpToRel(<, Nat)
  <1>1. IsWellFoundedOn(R, Nat)
    BY NatLessThanWellFounded
  <1>2. PICK n \in S : \A m \in S : ~(<<m, n>> \in R)
    BY <1>1, WFMin
  <1>3. \A m \in S : ~(m < n)
    BY <1>2 DEF OpToRel
  <1> QED BY <1>3

\* A distance is a natural number.
LEMMA DistanceIsNat ==
    ASSUME NEW a \in Nat, NEW b \in Nat
    PROVE  Distance(a, b) \in Nat
  BY DEF Distance

\* Neither filter of analysed drops the nearest candidate when it keeps another one.
LEMMA FilterKeepsNearest ==
    ASSUME NEW D, NEW f \in [D -> Nat], NEW c \in Filtered(f)
    PROVE  c \in D /\ \E m \in Filtered(f) : \A e \in D : f[m] <= f[e]
  <1> DEFINE twice == {x \in D : \A e \in D : f[x] <= 2 * f[e]}
  <1> DEFINE S == {f[x] : x \in D}
  <1>1. Filtered(f) = {x \in twice : \E g \in twice :
                         (\A e \in twice : f[e] <= f[g]) /\ 5 * f[x] <= 4 * f[g]}
    BY DEF Filtered
  <1>2. c \in twice /\ c \in D
    BY <1>1
  <1>3. PICK g \in twice : (\A e \in twice : f[e] <= f[g]) /\ 5 * f[c] <= 4 * f[g]
    BY <1>1
  <1>4. PICK m \in D : \A e \in D : f[m] <= f[e]
    <2>1. S \in SUBSET Nat /\ S # {}
      BY <1>2
    <2>2. PICK n \in S : \A v \in S : n <= v
      BY <2>1, LeastNumber
    <2> QED BY <2>2
  <1>5. m \in twice
    <2>1. ASSUME NEW e \in D PROVE f[m] <= 2 * f[e]
      <3>1. f[m] \in Nat /\ f[e] \in Nat /\ f[m] <= f[e]
        BY <1>4
      <3> QED BY <3>1
    <2> QED BY <2>1, <1>4
  <1>6. 5 * f[m] <= 4 * f[g]
    <2>1. f[m] \in Nat /\ f[c] \in Nat /\ f[g] \in Nat /\ f[m] <= f[c]
      BY <1>2, <1>4
    <2> QED BY <2>1, <1>3
  <1>7. m \in Filtered(f)
    BY <1>1, <1>3, <1>5, <1>6
  <1> QED BY <1>2, <1>4, <1>7

\* The best match is a candidate, and none is nearer.
LEMMA BestIsNearest ==
    ASSUME NEW D, NEW f \in [D -> Nat], BestMatch(f) # None
    PROVE  BestMatch(f) \in D /\ \A e \in D : f[BestMatch(f)] <= f[e]
  <1>1. Filtered(f) # {} /\ BestMatch(f) = CHOOSE c \in Filtered(f) : \A d \in Filtered(f) : f[c] <= f[d]
    BY DEF BestMatch
  <1>2. PICK c : c \in Filtered(f)
    BY <1>1
  <1>3. PICK m \in Filtered(f) : \A e \in D : f[m] <= f[e]
    BY <1>2, FilterKeepsNearest
  <1>4. \A x \in Filtered(f) : x \in D
    BY FilterKeepsNearest
  <1>5. \A d \in Filtered(f) : f[m] <= f[d]
    BY <1>3, <1>4
  <1> DEFINE best == CHOOSE x \in Filtered(f) : \A d \in Filtered(f) : f[x] <= f[d]
  <1>6. best \in Filtered(f) /\ \A d \in Filtered(f) : f[best] <= f[d]
    BY <1>3, <1>5
  <1>7. best = BestMatch(f)
    BY <1>1
  <1> HIDE DEF best
  <1>8. best \in D /\ f[best] <= f[m] /\ m \in D
    BY <1>3, <1>4, <1>6
  <1>9. ASSUME NEW e \in D PROVE f[best] <= f[e]
    <2>1. f[best] \in Nat /\ f[m] \in Nat /\ f[e] \in Nat /\ f[m] <= f[e]
      BY <1>3, <1>8
    <2> QED BY <2>1, <1>8
  <1> QED BY <1>7, <1>8, <1>9

\* The best match of the scores of a vector is within max_distance, and no suited
\* candidate that was loaded is nearer.
LEMMA BestOfScores ==
    ASSUME NEW w \in Nat, NEW loaded, Weighted(loaded),
           NEW best, best = BestMatch(Scores(w, loaded)), best # None
    PROVE  /\ Distance(w, loaded[best].weight) <= MaxDistance
           /\ \A c \in DOMAIN loaded \ Unsuited :
                Distance(w, loaded[best].weight) <= Distance(w, loaded[c].weight)
  <1> DEFINE D == Near(w, loaded)
  <1> DEFINE far(c) == Distance(w, loaded[c].weight)
  <1>1. \A c \in DOMAIN loaded : far(c) \in Nat
    BY DistanceIsNat DEF Weighted
  <1>2. \A c : c \in D <=> c \in DOMAIN loaded \ Unsuited /\ far(c) <= MaxDistance
    BY DEF Near
  <1>3. Scores(w, loaded) = [c \in D |-> far(c)]
    BY DEF Scores
  <1> HIDE DEF D, far
  <1>4. Scores(w, loaded) \in [D -> Nat] /\ \A c \in D : Scores(w, loaded)[c] = far(c)
    BY <1>1, <1>2, <1>3
  <1>5. best \in D /\ \A e \in D : far(best) <= far(e)
    BY <1>4, BestIsNearest
  <1>6. ASSUME NEW c \in DOMAIN loaded \ Unsuited PROVE far(best) <= far(c)
    <2>1. far(best) \in Nat /\ far(c) \in Nat /\ MaxDistance \in Nat /\ far(best) <= MaxDistance
      BY <1>1, <1>2, <1>5, LearningAssumption
    <2> QED BY <1>2, <1>5, <2>1
  <1> QED BY <1>2, <1>5, <1>6 DEF far

-----------------------------------------------------------------------------
(* A directory is filled from the front                                    *)

\* The i-th state of a chart is the step of rank i.
LEMMA RankOfOrder ==
    ASSUME NEW k \in Kinds
    PROVE  /\ Length(k) \in 1 .. 8
           /\ \A i \in 1 .. Length(k) :
                Order(k)[i] \in StepsOf(k) /\ Order(k)[i] \in StepNames /\ Rank(Order(k)[i]) = i
           /\ \A s \in StepsOf(k) :
                s \in StepNames /\ Rank(s) \in 1 .. Length(k) /\ Order(k)[Rank(s)] = s
  <1>1. CASE k = "learning"
    <2>1. /\ Length(k) = 5 /\ Order(k) = LearningOrder
          /\ StepsOf(k) = {"identified", "extracted", "spatialized", "aligned", "published"}
      BY <1>1 DEF Length, Order, StepsOf, Common
    <2>2. /\ LearningOrder[1] = "identified" /\ LearningOrder[2] = "extracted"
          /\ LearningOrder[3] = "spatialized" /\ LearningOrder[4] = "aligned"
          /\ LearningOrder[5] = "published"
      BY DEF LearningOrder
    <2>3. \A i \in 1 .. 5 : i = 1 \/ i = 2 \/ i = 3 \/ i = 4 \/ i = 5
      OBVIOUS
    <2> QED BY <2>1, <2>2, <2>3 DEF Rank, StepNames
  <1>2. CASE k = "analysis"
    <2>1. /\ Length(k) = 8 /\ Order(k) = AnalysisOrder
          /\ StepsOf(k) = {"identified", "extracted", "spatialized", "aligned",
                           "origin_resolved", "vectors_loaded", "scored", "analysed"}
      BY <1>2 DEF Length, Order, StepsOf, Common
    <2>2. /\ AnalysisOrder[1] = "identified" /\ AnalysisOrder[2] = "extracted"
          /\ AnalysisOrder[3] = "spatialized" /\ AnalysisOrder[4] = "aligned"
          /\ AnalysisOrder[5] = "origin_resolved" /\ AnalysisOrder[6] = "vectors_loaded"
          /\ AnalysisOrder[7] = "scored" /\ AnalysisOrder[8] = "analysed"
      BY DEF AnalysisOrder
    <2>3. \A i \in 1 .. 8 : i = 1 \/ i = 2 \/ i = 3 \/ i = 4 \/ i = 5 \/ i = 6 \/ i = 7 \/ i = 8
      OBVIOUS
    <2> QED BY <2>1, <2>2, <2>3 DEF Rank, StepNames
  <1> QED BY <1>1, <1>2 DEF Kinds

\* A directory that is filled up to its n-th file shows the n-th state.
LEMMA ShownIsFront ==
    ASSUME NEW k \in Kinds, NEW d, NEW n \in 0 .. Length(k), Upto(k, d, n)
    PROVE  Shown(k, d) = n
  <1> DEFINE there == {i \in 1 .. Length(k) : d[Order(k)[i]].status # "missing"}
  <1>1. Length(k) \in Nat
    BY RankOfOrder
  <1>2. \A i \in 1 .. Length(k) : i \in there <=> i <= n
    BY RankOfOrder DEF Upto
  <1>3. Shown(k, d) = IF there = {} THEN 0 ELSE CHOOSE i \in there : \A j \in there : j <= i
    BY DEF Shown
  <1>4. there \subseteq 1 .. Length(k)
    OBVIOUS
  <1> HIDE DEF there
  <1>5. CASE n = 0
    <2>1. there = {}
      BY <1>1, <1>2, <1>4, <1>5
    <2> QED BY <1>3, <1>5, <2>1
  <1>6. CASE n > 0
    <2>1. n \in there /\ \A j \in there : j <= n
      BY <1>1, <1>2, <1>4, <1>6
    <2>2. \A i \in there : (\A j \in there : j <= i) => i = n
      BY <1>1, <1>4, <2>1
    <2> QED BY <1>3, <2>1, <2>2
  <1> QED BY <1>1, <1>5, <1>6

\* Writing the file behind the front keeps the directory in order and every file
\* that is there consistent with those it was computed from.
LEMMA WriteBehindFront ==
    ASSUME NEW k \in Kinds, NEW d, DirInv(k, d),
           NEW n \in 0 .. Length(k) - 1, n = Shown(k, d),
           NEW f, f.status \in {"missing", "torn", "done"},
           NEW s, s = Order(k)[n + 1], Follows(s, d, f),
           NEW e, DOMAIN e = StepNames,
           \A t \in StepNames : e[t] = IF t = s THEN f ELSE d[t]
    PROVE  /\ DirInv(k, e)
           /\ f.status # "missing" => Shown(k, e) = n + 1
           /\ \A t \in StepNames : Rank(t) <= n => e[t] = d[t]
  <1>1. Length(k) \in 1 .. 8 /\ n + 1 \in 1 .. Length(k)
    BY RankOfOrder
  <1>2. s \in StepsOf(k) /\ s \in StepNames /\ Rank(s) = n + 1
    BY <1>1, RankOfOrder
  <1>3. \A t \in StepNames : Rank(t) \in 1 .. 8
    BY DEF Rank, StepNames
  <1>4. \A t \in StepNames : t \in StepsOf(k) /\ Rank(t) = n + 1 => t = s
    BY <1>1, RankOfOrder
  <1>5. \A t \in StepNames : d[t].status # "missing" <=> t \in StepsOf(k) /\ Rank(t) <= n
    BY DEF DirInv, Upto
  <1>6. Statuses(e)
    BY DEF DirInv, Statuses
  <1>7. /\ Shown(k, e) \in 0 .. Length(k) /\ Upto(k, e, Shown(k, e))
        /\ f.status # "missing" => Shown(k, e) = n + 1
    <2>1. CASE f.status = "missing"
      <3>1. Upto(k, e, n)
        BY <1>1, <1>2, <1>3, <1>5, <2>1 DEF Upto
      <3>2. Shown(k, e) = n
        BY <1>1, <3>1, ShownIsFront
      <3> QED BY <1>1, <2>1, <3>1, <3>2
    <2>2. CASE f.status # "missing"
      <3>1. Upto(k, e, n + 1)
        BY <1>1, <1>2, <1>3, <1>4, <1>5, <2>2 DEF Upto
      <3>2. n + 1 \in 0 .. Length(k)
        BY <1>1
      <3>3. Shown(k, e) = n + 1
        BY <3>1, <3>2, ShownIsFront
      <3> QED BY <3>1, <3>2, <3>3
    <2> QED BY <2>1, <2>2
  <1>8. \A t \in StepNames : Rank(t) <= n => e[t] = d[t]
    BY <1>1, <1>2, <1>3
  <1>9. Derived(e)
    <2>1. \A t \in StepNames : Follows(t, d, d[t])
      BY DEF DirInv, Derived
    <2>2. \A t \in StepNames : IsDone(d, t) => Rank(t) <= n
      BY <1>5 DEF IsDone
    <2>3. \A t \in StepNames : IsDone(d, t) => e[t] = d[t] /\ IsDone(e, t)
      BY <1>8, <2>2 DEF IsDone
    <2>4. ASSUME NEW t \in StepNames, NEW g, Follows(t, d, g) PROVE Follows(t, e, g)
      BY <2>3, <2>4 DEF Follows, StepNames
    <2>5. Follows(s, e, f)
      BY <1>2, <2>4
    <2>6. \A t \in StepNames : Follows(t, e, d[t])
      BY <2>1, <2>4
    <2> QED BY <2>5, <2>6 DEF Derived
  <1> QED BY <1>6, <1>7, <1>8, <1>9 DEF DirInv

-----------------------------------------------------------------------------
(* The steps of the worker                                                 *)

\* observed_state reads one directory.
LEMMA ObservedIsShown ==
    /\ \A k, h : Observed(k, h) = Shown(k, steps[k][h])
    /\ \A k, h : Observed(k, h)' = Shown(k, steps'[k][h])
  BY DEF Observed, Shown, Exists

\* While the worker is at work, its target is the file behind the front of its
\* directory.
LEMMA TargetIsNext ==
    ASSUME IInv, pc \in {"ready", "reset", "record"}
    PROVE  /\ kind \in Kinds /\ hash \in Contents
           /\ active \in 0 .. Length(kind) - 1
           /\ active = Shown(kind, steps[kind][hash])
           /\ Target = Order(kind)[active + 1] /\ Target \in StepNames
           /\ DirInv(kind, steps[kind][hash])
  <1>1. kind \in Kinds /\ hash \in Contents /\ active \in 0 .. Length(kind)
    BY DEF IInv, WorkerTyped, WorkInv
  <1>2. active \in 0 .. Length(kind) - 1
    BY <1>1, RankOfOrder DEF IInv, WorkInv
  <1>3. active = Shown(kind, steps[kind][hash])
    BY ObservedIsShown DEF IInv, WorkInv
  <1>4. Target \in StepNames
    BY <1>1, <1>2, RankOfOrder DEF Target
  <1> QED BY <1>1, <1>2, <1>3, <1>4 DEF Target, IInv, StepsInv

\* A write of the worker's target keeps every directory consistent; when it leaves a
\* file, the directory shows the next state.
LEMMA TargetWritten ==
    ASSUME IInv, pc \in {"ready", "reset", "record"},
           NEW f, f.status \in {"missing", "torn", "done"},
           Follows(Target, steps[kind][hash], f),
           Write(Target, f),
           NEW k \in Kinds, NEW h \in Contents, k = kind, h = hash
    PROVE  /\ StepsInv'
           /\ f.status # "missing" => Observed(k, h)' = active + 1
  <1> DEFINE d == steps[k][h]
             e == steps'[k][h]
  <1>1. /\ active \in 0 .. Length(k) - 1 /\ active = Shown(k, d)
        /\ Target = Order(k)[active + 1] /\ Target \in StepNames /\ DirInv(k, d)
    BY TargetIsNext
  <1>2. /\ DOMAIN steps = Kinds
        /\ \A j \in Kinds : DOMAIN steps[j] = Contents
        /\ \A j \in Kinds, g \in Contents : DirInv(j, steps[j][g])
    BY DEF IInv, StepsInv
  <1>3. steps' = [steps EXCEPT ![k][h][Target] = f]
    BY DEF Write
  <1>4. DOMAIN d = StepNames
    BY <1>1 DEF DirInv, Statuses
  <1>5. /\ DOMAIN steps' = Kinds
        /\ \A j \in Kinds : DOMAIN steps'[j] = Contents
        /\ \A j \in Kinds, g \in Contents : j # k \/ g # h => steps'[j][g] = steps[j][g]
    BY <1>2, <1>3
  <1>6. e = [d EXCEPT ![Target] = f]
    BY <1>2, <1>3
  <1>7. /\ DOMAIN e = StepNames
        /\ \A t \in StepNames : e[t] = IF t = Target THEN f ELSE d[t]
    BY <1>1, <1>4, <1>6
  <1>8. Follows(Target, d, f)
    OBVIOUS
  <1> HIDE DEF d, e
  <1>9. DirInv(k, e) /\ (f.status # "missing" => Shown(k, e) = active + 1)
    BY <1>1, <1>7, <1>8, WriteBehindFront
  <1>10. StepsInv'
    <2>1. \A j \in Kinds, g \in Contents : DirInv(j, steps'[j][g])
      BY <1>2, <1>5, <1>9 DEF e
    <2> QED BY <1>5, <2>1 DEF StepsInv
  <1> QED BY <1>9, <1>10, ObservedIsShown DEF e

\* observed_state is a state of the chart.
LEMMA ObservedInRange ==
    ASSUME IInv, NEW k \in Kinds, NEW h \in Contents
    PROVE  Observed(k, h) \in 0 .. Length(k)
  BY ObservedIsShown DEF IInv, StepsInv, DirInv

-----------------------------------------------------------------------------
(* What the capabilities write                                             *)

\* The weights of the candidates of the ontology are those of vector files.
LEMMA OntologyIsWeighted ==
    ASSUME FilesTyped, NEW origins
    PROVE  \A c \in DOMAIN OntologyCandidates(origins) :
             OntologyCandidates(origins)[c].weight \in Nat
  <1> DEFINE inProject == {c \in Candidates : <<"local", c>> \in origins /\ local[c] # None}
             inCache == {c \in Candidates : <<"cached", c>> \in origins /\ cached[c] # None}
             w(c) == IF c \in inProject THEN local[c] ELSE cached[c]
  <1>1. OntologyCandidates(origins) =
          [c \in inProject \cup inCache |-> [type |-> c, weight |-> w(c)]]
    BY DEF OntologyCandidates
  <1>2. \A c \in inProject \cup inCache : w(c) \in Nat
    BY DEF FilesTyped
  <1> HIDE DEF inProject, inCache, w
  <1> QED BY <1>1, <1>2

\* The weights of the learning records are natural numbers.
LEMMA RecordsAreWeighted ==
    ASSUME contextFile \in Context
    PROVE  \A h \in DOMAIN RecordCandidates : RecordCandidates[h].weight \in Nat
  <1> DEFINE D == {x \in Contents : contextFile.records[x] # None}
  <1>1. RecordCandidates =
          [h \in D |-> [type |-> contextFile.records[h].entity,
                        weight |-> contextFile.records[h].weight]]
    BY DEF RecordCandidates
  <1>2. \A h \in D : contextFile.records[h] \in Records
    BY DEF Context
  <1>3. \A h \in D : contextFile.records[h].weight \in Nat
    BY <1>2 DEF Records
  <1> HIDE DEF D
  <1> QED BY <1>1, <1>3

\* vectors_loaded writes candidates with their weights, or raises.
LEMMA VectorsFollow ==
    ASSUME FilesTyped, contextFile \in Context, VectorsLoaded # Missing
    PROVE  VectorsLoaded.status = "done" /\ Weighted(VectorsLoaded.value)
  <1> DEFINE ontology == OntologyCandidates(Value(kind, hash, "origin_resolved"))
             all == DOMAIN ontology \cup DOMAIN RecordCandidates
             v == [c \in all |-> IF c \in DOMAIN ontology THEN ontology[c]
                                 ELSE RecordCandidates[c]]
  <1>1. VectorsLoaded = Done(v)
    BY DEF VectorsLoaded
  <1>2. \A c \in DOMAIN ontology : ontology[c].weight \in Nat
    BY OntologyIsWeighted
  <1>3. \A c \in DOMAIN RecordCandidates : RecordCandidates[c].weight \in Nat
    BY RecordsAreWeighted
  <1> HIDE DEF ontology
  <1>4. \A c \in all : v[c].weight \in Nat
    BY <1>2, <1>3
  <1>5. DOMAIN v = all
    OBVIOUS
  <1> HIDE DEF v, all
  <1> QED BY <1>1, <1>4, <1>5 DEF Done, Weighted

\* scored writes the scores of the vector and the candidates on disk, or raises.
LEMMA ScoresFollow ==
    ASSUME Scored # Missing
    PROVE  /\ Scored.status = "done"
           /\ Readable(kind, hash, "aligned") /\ Readable(kind, hash, "vectors_loaded")
           /\ Scored.value = Scores(Value(kind, hash, "aligned"), Value(kind, hash, "vectors_loaded"))
  <1> DEFINE loaded == Value(kind, hash, "vectors_loaded")
             weight == Value(kind, hash, "aligned")
  <1>1. /\ \A s \in {"identified", "aligned", "vectors_loaded"} : Readable(kind, hash, s)
        /\ Scored = Done(Scores(weight, loaded))
    BY DEF Scored
  <1> QED BY <1>1 DEF Done

\* What a capability writes follows from the files of its directory.
LEMMA ResultFollows ==
    ASSUME IInv, pc = "ready", Target \notin {"origin_resolved", "published"},
           Result(Target) # Missing
    PROVE  Result(Target).status = "done" /\ Follows(Target, steps[kind][hash], Result(Target))
  <1> DEFINE d == steps[kind][hash]
  <1>1. Target \in StepNames /\ DirInv(kind, d)
    BY TargetIsNext
  <1>2. \A s : Readable(kind, hash, s) <=> IsDone(d, s)
    BY DEF Readable, IsDone
  <1>3. \A s : Value(kind, hash, s) = d[s].value
    BY DEF Value
  <1>4. \A v : Done(v).status = "done" /\ Done(v).value = v
    BY DEF Done
  <1>5. IsDone(d, "identified") => d["identified"].value \in Paths
    BY <1>1 DEF DirInv, Derived, Follows, IsDone, StepNames
  <1>6. source \in [Paths -> Contents \cup {None}]
    BY DEF IInv, FilesTyped
  <1> HIDE DEF d
  <1>7. CASE Target = "identified"
    <2>1. Result(Target) = Done(path) /\ path \in Paths
      BY <1>7 DEF Result, Identified, IInv, WorkInv
    <2> QED BY <1>4, <1>7, <2>1 DEF Follows, d
  <1>8. CASE Target = "extracted"
    <2>1. Result(Target) = Extracted
      BY <1>8 DEF Result
    <2>2. Extracted.status = "done"
      BY <1>4, <2>1 DEF Extracted
    <2> QED BY <1>8, <2>1, <2>2 DEF Follows, d
  <1>9. CASE Target = "spatialized"
    <2>1. Result(Target) = Spatialized
      BY <1>9 DEF Result
    <2>2. Spatialized.status = "done" /\ Spatialized.value \in Contents
      BY <1>2, <1>3, <1>4, <1>5, <1>6, <2>1 DEF Spatialized
    <2> QED BY <1>9, <2>1, <2>2 DEF Follows, d
  <1>10. CASE Target = "aligned"
    <2>1. Result(Target) = Aligned
      BY <1>10 DEF Result
    <2>2. /\ IsDone(d, "spatialized")
          /\ Aligned.status = "done" /\ Aligned.value = WeightOf[d["spatialized"].value]
      BY <1>2, <1>3, <1>4, <2>1 DEF Aligned
    <2> QED BY <1>10, <2>1, <2>2 DEF Follows, d
  <1>11. CASE Target = "vectors_loaded"
    <2>1. Result(Target) = VectorsLoaded
      BY <1>11 DEF Result
    <2>2. VectorsLoaded.status = "done" /\ Weighted(VectorsLoaded.value)
      BY <2>1, VectorsFollow DEF IInv
    <2> QED BY <1>11, <2>1, <2>2 DEF Follows, d
  <1>12. CASE Target = "scored"
    <2>1. Result(Target) = Scored
      BY <1>12 DEF Result
    <2>2. /\ IsDone(d, "aligned") /\ IsDone(d, "vectors_loaded") /\ Scored.status = "done"
          /\ Scored.value = Scores(d["aligned"].value, d["vectors_loaded"].value)
      BY <1>2, <1>3, <2>1, ScoresFollow
    <2> QED BY <1>12, <2>1, <2>2 DEF Follows, d
  <1>13. CASE Target = "analysed"
    <2>1. Result(Target) = Analysed
      BY <1>13 DEF Result
    <2>2. /\ IsDone(d, "scored") /\ Analysed.status = "done"
          /\ Analysed.value = BestMatch(d["scored"].value)
      BY <1>2, <1>3, <1>4, <2>1 DEF Analysed
    <2> QED BY <1>13, <2>1, <2>2 DEF Follows, d
  <1> QED BY <1>1, <1>7, <1>8, <1>9, <1>10, <1>11, <1>12, <1>13 DEF StepNames

-----------------------------------------------------------------------------
(* The actions                                                             *)

\* A command that fails or is killed leaves the worker idle.
LEMMA FailStep ==
    ASSUME IInv, NEW r \in {"failed", "killed"}, FailCommand(r),
           FilesTyped', CountersTyped', contextFile' \in Context, memory' \in Context, StepsInv'
    PROVE  IInv'
  <1>1. /\ pc' = "idle" /\ response' = r /\ jobs' = {}
        /\ UNCHANGED <<kind, path, hash, entity, active, reported>>
    BY DEF FailCommand
  <1>2. WorkerTyped'
    BY <1>1 DEF IInv, WorkerTyped
  <1>3. WorkInv'
    BY <1>1 DEF WorkInv
  <1> QED BY <1>2, <1>3 DEF IInv

\* A capability that wrote its step file brings the chart to the state that the
\* directory shows now.
LEMMA ArriveStep ==
    ASSUME IInv, pc \in {"ready", "record"}, Arrive, SaveContext,
           NEW f, f.status = "done", Follows(Target, steps[kind][hash], f), Write(Target, f),
           FilesTyped', UNCHANGED <<commands, edits, failures>>
    PROVE  IInv'
  <1>1. PICK k \in Kinds, h \in Contents : k = kind /\ h = hash
    BY TargetIsNext
  <1>2. StepsInv' /\ Observed(k, h)' = active + 1
    BY <1>1, TargetWritten
  <1>3. /\ active' = active + 1
        /\ pc' = IF active' = Length(kind) THEN "respond" ELSE "ready"
        /\ UNCHANGED <<kind, jobs, path, hash, entity, reported, response>>
    BY DEF Arrive
  <1>4. active \in 0 .. Length(k) - 1 /\ Length(k) \in 1 .. 8
    BY <1>1, TargetIsNext, RankOfOrder
  <1>5. active' \in 0 .. Length(k) /\ (active' # Length(k) => active' < Length(k))
    BY <1>3, <1>4
  <1>6. WorkerTyped'
    BY <1>1, <1>3, <1>5 DEF IInv, WorkerTyped
  <1>7. CountersTyped'
    BY DEF IInv, CountersTyped
  <1>8. contextFile' \in Context /\ memory' \in Context
    BY DEF SaveContext, IInv
  <1>9. WorkInv'
    <2>1. pc' \in {"ready", "respond"} /\ kind' = k /\ hash' = h
      BY <1>1, <1>3
    <2>2. path' \in Paths /\ (kind = "learning" => entity' \in Entities)
      BY <1>3 DEF IInv, WorkInv
    <2>3. active' = Observed(kind, hash)'
      BY <1>2, <1>3, <2>1
    <2>4. pc' = "ready" => active' < Length(k)
      BY <1>1, <1>3, <1>5
    <2> QED BY <1>1, <2>1, <2>2, <2>3, <2>4 DEF WorkInv
  <1> QED BY <1>2, <1>6, <1>7, <1>8, <1>9 DEF IInv

\* A new command loads its context from context.ttl.
LEMMA CommandStep ==
    ASSUME IInv, NEW k \in Kinds, NEW sources \in SUBSET Paths, Command(k, sources),
           entity' \in Entities \cup {None}, k = "learning" => entity' \in Entities
    PROVE  IInv'
  <1>1. /\ pc' = "open" /\ kind' = k /\ jobs' = sources
        /\ path' = None /\ hash' = None /\ active' = 0 /\ reported' = {} /\ response' = "none"
        /\ memory' = contextFile /\ contextFile' = contextFile /\ steps' = steps
        /\ UNCHANGED <<source, local, cached, remote, edits, failures>>
    BY DEF Command, files
  <1>2. commands' \in 0 .. MaxCommands
    BY LearningAssumption DEF Command, IInv, CountersTyped
  <1>3. WorkerTyped'
    BY <1>1, RankOfOrder DEF WorkerTyped
  <1>4. WorkInv'
    BY <1>1 DEF WorkInv
  <1>5. FilesTyped' /\ CountersTyped' /\ StepsInv'
    BY <1>1, <1>2 DEF IInv, FilesTyped, CountersTyped, StepsInv
  <1> QED BY <1>1, <1>3, <1>4, <1>5 DEF IInv

\* --learn-from takes the PDFs that are there.
LEMMA LearnFromStep ==
    ASSUME IInv, LearnFrom
    PROVE  IInv'
  <1> DEFINE present == {p \in Paths : source[p] # None}
  <1>1. PICK e \in Entities, sources \in {{p} : p \in present} \cup {present} :
          Command("learning", sources) /\ entity' = e
    BY DEF LearnFrom
  <1>2. sources \in SUBSET Paths /\ "learning" \in Kinds
    BY DEF Kinds
  <1> QED BY <1>1, <1>2, CommandStep

\* --analyse takes one PDF.
LEMMA AnalyseStep ==
    ASSUME IInv, Analyse
    PROVE  IInv'
  <1>1. PICK p \in {x \in Paths : source[x] # None} :
          Command("analysis", {p}) /\ UNCHANGED entity
    BY DEF Analyse
  <1>2. {p} \in SUBSET Paths /\ "analysis" \in Kinds
    BY DEF Kinds
  <1>3. entity' \in Entities \cup {None}
    BY <1>1 DEF IInv, WorkerTyped
  <1> QED BY <1>1, <1>2, <1>3, CommandStep

\* The worker starts in the state that the directory of its PDF shows.
LEMMA OpenStep ==
    ASSUME IInv, Open
    PROVE  IInv'
  <1>1. PICK p \in jobs :
         IF source[p] = None THEN FailCommand("failed")
         ELSE /\ path' = p /\ hash' = source[p]
              /\ jobs' = jobs \ {p}
              /\ active' = Observed(kind, source[p])
              /\ pc' = IF active' = Length(kind) THEN "respond" ELSE "ready"
              /\ UNCHANGED <<kind, entity, reported, response>>
    BY DEF Open
  <1>2. /\ UNCHANGED <<source, local, cached, remote, steps, contextFile, memory>>
        /\ UNCHANGED <<commands, edits, failures>> /\ pc = "open"
    BY DEF Open, files, context
  <1>3. /\ FilesTyped' /\ CountersTyped' /\ StepsInv'
        /\ contextFile' \in Context /\ memory' \in Context
    BY <1>2 DEF IInv, FilesTyped, CountersTyped, StepsInv
  <1>4. CASE source[p] = None
    BY <1>1, <1>3, <1>4, FailStep
  <1>5. CASE source[p] # None
    <2>1. p \in Paths
      BY DEF IInv, WorkerTyped
    <2>2. PICK k \in Kinds, h \in Contents : k = kind /\ h = source[p]
      BY <1>5, <2>1 DEF IInv, WorkerTyped, FilesTyped
    <2>3. /\ path' = p /\ hash' = h /\ jobs' = jobs \ {p}
          /\ active' = Observed(k, h)
          /\ pc' = IF active' = Length(k) THEN "respond" ELSE "ready"
          /\ UNCHANGED <<kind, entity, reported, response>>
      BY <1>1, <1>5, <2>2
    <2>4. Observed(k, h)' = Observed(k, h)
      BY <1>2 DEF Observed, Exists
    <2>5. Observed(k, h) \in 0 .. Length(k) /\ Length(k) \in 1 .. 8
      BY ObservedInRange, RankOfOrder
    <2>6. WorkerTyped'
      BY <2>1, <2>2, <2>3, <2>5 DEF IInv, WorkerTyped
    <2>7. WorkInv'
      BY <1>2, <2>1, <2>2, <2>3, <2>4, <2>5 DEF IInv, WorkInv
    <2> QED BY <1>3, <2>6, <2>7 DEF IInv
  <1> QED BY <1>4, <1>5

\* A capability that only writes its step writes what follows from the directory.
LEMMA TransformStep ==
    ASSUME IInv, Transform
    PROVE  IInv'
  <1>1. /\ pc = "ready" /\ Target \notin {"origin_resolved", "published"}
        /\ UNCHANGED <<source, local, cached, remote, commands, edits, failures>>
    BY DEF Transform, files
  <1>2. FilesTyped' /\ CountersTyped'
    BY <1>1 DEF IInv, FilesTyped, CountersTyped
  <1>3. CASE Result(Target) = Missing
    <2>1. FailCommand("failed") /\ UNCHANGED <<steps, contextFile, memory>>
      BY <1>3 DEF Transform, context
    <2>2. StepsInv' /\ contextFile' \in Context /\ memory' \in Context
      BY <2>1 DEF IInv, StepsInv
    <2> QED BY <1>2, <2>1, <2>2, FailStep
  <1>4. CASE Result(Target) # Missing
    <2>1. Write(Target, Result(Target)) /\ Arrive /\ SaveContext
      BY <1>4 DEF Transform
    <2>2. Result(Target).status = "done" /\ Follows(Target, steps[kind][hash], Result(Target))
      BY <1>1, <1>4, ResultFollows
    <2> QED BY <1>1, <1>2, <2>1, <2>2, ArriveStep
  <1> QED BY <1>3, <1>4

\* Synchronizing the cache puts vector files into it.
LEMMA CacheIsTyped ==
    ASSUME IInv, NEW missed,
           cached' = [c \in Candidates |-> IF remote[c] # None /\ c \notin missed
                                           THEN remote[c] ELSE cached[c]],
           UNCHANGED <<source, local, remote>>
    PROVE  FilesTyped'
  BY DEF IInv, FilesTyped

\* origin_resolved writes the origins, or fails when there is none.
LEMMA ResolveOriginsStep ==
    ASSUME IInv, ResolveOrigins
    PROVE  IInv'
  <1>1. /\ pc = "ready" /\ Target = "origin_resolved"
        /\ UNCHANGED <<source, local, remote, commands, edits, failures>>
        /\ cached' = [c \in Candidates |-> IF remote[c] # None THEN remote[c] ELSE cached[c]]
    BY DEF ResolveOrigins
  <1>2. FilesTyped' /\ CountersTyped'
    BY <1>1 DEF IInv, FilesTyped, CountersTyped
  <1>3. CASE Origins(cached') = {}
    <2>1. FailCommand("failed") /\ UNCHANGED <<steps, contextFile, memory>>
      BY <1>3 DEF ResolveOrigins, context
    <2>2. StepsInv' /\ contextFile' \in Context /\ memory' \in Context
      BY <2>1 DEF IInv, StepsInv
    <2> QED BY <1>2, <2>1, <2>2, FailStep
  <1>4. CASE Origins(cached') # {}
    <2> DEFINE f == Done(Origins(cached'))
    <2>1. Write(Target, f) /\ Arrive /\ SaveContext
      BY <1>4 DEF ResolveOrigins
    <2>2. f.status = "done" /\ Follows(Target, steps[kind][hash], f)
      BY <1>1 DEF Done, Follows
    <2> HIDE DEF f
    <2> QED BY <1>1, <1>2, <2>1, <2>2, ArriveStep
  <1> QED BY <1>3, <1>4

\* A failed download leaves the files before it in the cache.
LEMMA DownloadFailsStep ==
    ASSUME IInv, DownloadFails
    PROVE  IInv'
  <1>1. /\ FailCommand("failed")
        /\ UNCHANGED <<source, local, remote, steps, contextFile, memory, commands, edits>>
    BY DEF DownloadFails, context
  <1>2. PICK missed :
         cached' = [c \in Candidates |-> IF remote[c] # None /\ c \notin missed
                                         THEN remote[c] ELSE cached[c]]
    BY DEF DownloadFails
  <1>3. FilesTyped'
    BY <1>1, <1>2, CacheIsTyped
  <1>4. CountersTyped'
    BY <1>1, LearningAssumption DEF DownloadFails, IInv, CountersTyped
  <1>5. StepsInv' /\ contextFile' \in Context /\ memory' \in Context
    BY <1>1 DEF IInv, StepsInv
  <1> QED BY <1>1, <1>3, <1>4, <1>5, FailStep

\* The hotfix writes a new context.ttl only when the record can be computed.
LEMMA ResetContextStep ==
    ASSUME IInv, ResetContext
    PROVE  IInv'
  <1>1. /\ pc = "ready" /\ Target = "published"
        /\ UNCHANGED <<source, local, cached, remote, steps, commands, edits, failures>>
    BY DEF ResetContext, files
  <1>2. FilesTyped' /\ CountersTyped' /\ StepsInv'
    BY <1>1 DEF IInv, FilesTyped, CountersTyped, StepsInv
  <1>3. CASE Readable(kind, hash, "identified") /\ Readable(kind, hash, "aligned")
    <2>1. /\ contextFile' = [records |-> NoRecords, parameters |-> FALSE] /\ pc' = "reset"
          /\ UNCHANGED <<memory, kind, jobs, path, hash, entity, active, reported, response>>
      BY <1>3 DEF ResetContext
    <2>2. contextFile' \in Context /\ memory' \in Context
      BY <2>1 DEF Context, NoRecords, IInv
    <2>3. WorkerTyped'
      BY <2>1 DEF IInv, WorkerTyped
    <2>4. kind \in Kinds /\ active \in 0 .. Length(kind) - 1 /\ Target = Order(kind)[active + 1]
      BY <1>1, TargetIsNext
    <2>5. active + 1 = 5 /\ "published" \in StepsOf(kind)
      <3>1. Length(kind) \in 1 .. 8 /\ active + 1 \in 1 .. Length(kind)
        BY <2>4, RankOfOrder
      <3>2. Rank(Target) = active + 1 /\ Target \in StepsOf(kind)
        BY <2>4, <3>1, RankOfOrder
      <3> QED BY <1>1, <3>2 DEF Rank
    <2>6. kind = "learning" /\ active = 4
      BY <2>4, <2>5, RankOfOrder DEF StepsOf, Common, Kinds
    <2>7. PICK h \in Contents : h = hash
      BY <1>1 DEF IInv, WorkInv
    <2>8. /\ Observed("learning", h)' = Observed("learning", h)
          /\ Readable("learning", h, "identified")' = Readable("learning", h, "identified")
          /\ Readable("learning", h, "aligned")' = Readable("learning", h, "aligned")
      BY <1>1 DEF Observed, Exists, Readable
    <2>9. WorkInv'
      BY <1>1, <1>3, <2>1, <2>6, <2>7, <2>8 DEF IInv, WorkInv
    <2> QED BY <1>2, <2>2, <2>3, <2>9 DEF IInv
  <1>4. CASE ~(Readable(kind, hash, "identified") /\ Readable(kind, hash, "aligned"))
    <2>1. FailCommand("failed") /\ UNCHANGED <<contextFile, memory>>
      BY <1>4 DEF ResetContext, context
    <2>2. contextFile' \in Context /\ memory' \in Context
      BY <2>1 DEF IInv
    <2> QED BY <1>2, <2>1, <2>2, FailStep
  <1> QED BY <1>3, <1>4

\* The record of a directory whose files are there.
LEMMA RecordIsTyped ==
    ASSUME IInv, pc \in {"reset", "record"}
    PROVE  /\ Record \in Records
           /\ Record.path = Value("learning", hash, "identified")
           /\ Record.weight = Value("learning", hash, "aligned")
  <1> DEFINE d == steps["learning"][hash]
  <1>1. /\ kind = "learning" /\ IsDone(d, "identified") /\ IsDone(d, "aligned")
        /\ entity \in Entities
    BY DEF IInv, WorkInv, Readable, IsDone
  <1>2. DirInv("learning", d)
    BY <1>1, TargetIsNext
  <1>3. \A s \in StepNames : Follows(s, d, d[s])
    BY <1>2 DEF DirInv, Derived
  <1> HIDE DEF d
  <1>4. d["identified"].value \in Paths
    BY <1>1, <1>3 DEF Follows, StepNames, IsDone
  <1>5. d["aligned"].value = WeightOf[d["spatialized"].value] /\ d["spatialized"].value \in Contents
    BY <1>1, <1>3 DEF Follows, StepNames, IsDone
  <1>6. d["aligned"].value \in Nat
    BY <1>5, LearningAssumption
  <1> QED BY <1>1, <1>4, <1>6 DEF Record, Records, Value, d

\* The record goes into the new context.ttl.
LEMMA WriteRecordStep ==
    ASSUME IInv, WriteRecord
    PROVE  IInv'
  <1>1. /\ pc = "reset" /\ pc' = "record"
        /\ contextFile' = [contextFile EXCEPT !.records[hash] = Record]
        /\ UNCHANGED <<source, local, cached, remote, steps, memory, kind, jobs, path, hash, entity,
                       active, reported, response, commands, edits, failures>>
    BY DEF WriteRecord, files
  <1>2. FilesTyped' /\ CountersTyped' /\ StepsInv' /\ WorkerTyped'
    BY <1>1 DEF IInv, FilesTyped, CountersTyped, StepsInv, WorkerTyped
  <1>3. contextFile' \in Context /\ memory' \in Context
    <2>1. Record \in Records
      BY <1>1, RecordIsTyped
    <2>2. PICK r : r = Record
      OBVIOUS
    <2> QED BY <1>1, <2>1, <2>2 DEF IInv, Context
  <1>4. PICK h \in Contents : h = hash
    BY <1>1 DEF IInv, WorkInv
  <1>5. /\ Observed("learning", h)' = Observed("learning", h)
        /\ Readable("learning", h, "identified")' = Readable("learning", h, "identified")
        /\ Readable("learning", h, "aligned")' = Readable("learning", h, "aligned")
    BY <1>1 DEF Observed, Exists, Readable
  <1>6. WorkInv'
    BY <1>1, <1>4, <1>5 DEF IInv, WorkInv
  <1> QED BY <1>2, <1>3, <1>6 DEF IInv

\* The published file has the path and the vector that are on disk.
LEMMA WritePublishedStep ==
    ASSUME IInv, WritePublished
    PROVE  IInv'
  <1> DEFINE f == Done(Record)
  <1>1. /\ pc = "record" /\ Write("published", f) /\ Arrive /\ SaveContext
        /\ UNCHANGED <<source, local, cached, remote, commands, edits, failures>>
    BY DEF WritePublished, files
  <1>2. FilesTyped'
    BY <1>1 DEF IInv, FilesTyped
  <1>3. /\ kind = "learning" /\ active = 4
        /\ Readable(kind, hash, "identified") /\ Readable(kind, hash, "aligned")
    BY <1>1 DEF IInv, WorkInv
  <1>4. Target = "published"
    BY <1>3 DEF Target, Order, LearningOrder
  <1>5. f.status = "done" /\ Follows(Target, steps[kind][hash], f)
    BY <1>1, <1>3, <1>4, RecordIsTyped DEF Done, Follows, IsDone, Readable, Value
  <1> HIDE DEF f
  <1> QED BY <1>1, <1>2, <1>4, <1>5, ArriveStep

\* A capability that raises leaves its file missing or half written.
LEMMA TransformFailsStep ==
    ASSUME IInv, TransformFails
    PROVE  IInv'
  <1>1. /\ pc \in {"ready", "reset", "record"} /\ FailCommand("failed")
        /\ UNCHANGED <<source, local, cached, remote, contextFile, memory, commands, edits>>
    BY DEF TransformFails, files, context
  <1>2. PICK f \in {Missing, Torn} : Write(Target, f)
    BY DEF TransformFails
  <1>3. f.status \in {"missing", "torn"} /\ Follows(Target, steps[kind][hash], f)
    BY <1>2 DEF Missing, Torn, Follows
  <1>4. PICK k \in Kinds, h \in Contents : k = kind /\ h = hash
    BY <1>1, TargetIsNext
  <1>5. StepsInv'
    BY <1>1, <1>2, <1>3, <1>4, TargetWritten
  <1>6. FilesTyped' /\ contextFile' \in Context /\ memory' \in Context
    BY <1>1 DEF IInv, FilesTyped
  <1>7. CountersTyped'
    BY <1>1, LearningAssumption DEF TransformFails, IInv, CountersTyped
  <1> QED BY <1>1, <1>5, <1>6, <1>7, FailStep

\* A kill may leave the file of the running capability half written.
LEMMA KillStep ==
    ASSUME IInv, Kill
    PROVE  IInv'
  <1>1. /\ FailCommand("killed")
        /\ UNCHANGED <<source, local, cached, remote, contextFile, memory, commands, edits>>
    BY DEF Kill, files, context
  <1>2. StepsInv'
    <2>1. CASE UNCHANGED steps
      BY <2>1 DEF IInv, StepsInv
    <2>2. CASE pc \in {"ready", "record"} /\ Write(Target, Torn)
      <3>1. Torn.status = "torn" /\ Follows(Target, steps[kind][hash], Torn)
        BY DEF Torn, Follows
      <3>2. PICK k \in Kinds, h \in Contents : k = kind /\ h = hash
        BY <2>2, TargetIsNext
      <3> QED BY <2>2, <3>1, <3>2, TargetWritten
    <2> QED BY <2>1, <2>2 DEF Kill
  <1>3. FilesTyped' /\ contextFile' \in Context /\ memory' \in Context
    BY <1>1 DEF IInv, FilesTyped
  <1>4. CountersTyped'
    BY <1>1, LearningAssumption DEF Kill, IInv, CountersTyped
  <1> QED BY <1>1, <1>2, <1>3, <1>4, FailStep

\* The response is built from the last step file.
LEMMA EndStep ==
    ASSUME IInv, EndLearning \/ EndAnalysis
    PROVE  IInv'
  <1>1. /\ pc = "respond"
        /\ UNCHANGED <<source, local, cached, remote, steps, contextFile, memory, commands, edits, failures>>
    BY DEF EndLearning, EndAnalysis, files, context
  <1>2. /\ FilesTyped' /\ CountersTyped' /\ StepsInv'
        /\ contextFile' \in Context /\ memory' \in Context
    BY <1>1 DEF IInv, FilesTyped, CountersTyped, StepsInv
  <1>3. CASE FailCommand("failed")
    BY <1>2, <1>3, FailStep
  <1>4. CASE ~FailCommand("failed")
    <2>1. hash \in Contents
      BY <1>1 DEF IInv, WorkInv
    <2>2. /\ UNCHANGED <<kind, jobs, path, hash, entity, active>>
          /\ pc' \in {"idle", "open"} /\ response' \in {"none", "learned", "analysed"}
          /\ reported' \subseteq reported \cup {hash}
      BY <1>4 DEF EndLearning, EndAnalysis
    <2>3. WorkerTyped'
      BY <2>1, <2>2 DEF IInv, WorkerTyped
    <2>4. WorkInv'
      BY <1>1, <2>2 DEF IInv, WorkInv
    <2> QED BY <1>2, <2>3, <2>4 DEF IInv
  <1> QED BY <1>3, <1>4

\* The owner touches neither the step files nor the context.
LEMMA EditStep ==
    ASSUME IInv, Edit
    PROVE  IInv'
  <1>1. UNCHANGED <<cached, steps, contextFile, memory, pc, kind, jobs, path, hash, entity, active,
                    reported, response, commands, failures>>
    BY DEF Edit, context, worker
  <1>2. FilesTyped'
    BY <1>1, LearningAssumption DEF Edit, IInv, FilesTyped
  <1>3. CountersTyped'
    BY <1>1, LearningAssumption DEF Edit, IInv, CountersTyped
  <1>4. WorkerTyped' /\ StepsInv' /\ contextFile' \in Context /\ memory' \in Context
    BY <1>1 DEF IInv, WorkerTyped, StepsInv
  <1>5. WorkInv'
    BY <1>1 DEF IInv, WorkInv, Observed, Exists, Readable
  <1> QED BY <1>2, <1>3, <1>4, <1>5 DEF IInv

-----------------------------------------------------------------------------
(* The theorems                                                            *)

\* The inductive invariant holds in every state of every behaviour.
THEOREM LearningInvariant == Spec => []IInv
  <1>1. Init => IInv
    <2> SUFFICES ASSUME Init PROVE IInv
      OBVIOUS
    <2>1. FilesTyped
      BY LearningAssumption DEF Init, FilesTyped
    <2>2. WorkerTyped /\ CountersTyped /\ WorkInv
      BY LearningAssumption DEF Init, WorkerTyped, CountersTyped, WorkInv, Length, Kinds
    <2>3. contextFile \in Context /\ memory \in Context
      BY DEF Init, Context, NoRecords
    <2>4. StepsInv
      <3>1. ASSUME NEW k \in Kinds, NEW h \in Contents PROVE DirInv(k, steps[k][h])
        <4> DEFINE d == steps[k][h]
        <4>1. DOMAIN d = StepNames /\ \A s \in StepNames : d[s].status = "missing"
          BY DEF Init, Missing
        <4> HIDE DEF d
        <4>2. Upto(k, d, 0)
          BY <4>1 DEF Upto, StepNames, Rank
        <4>3. 0 \in 0 .. Length(k)
          BY DEF Length
        <4>4. Shown(k, d) = 0
          BY <4>2, <4>3, ShownIsFront
        <4>5. Derived(d)
          BY <4>1 DEF Derived, Follows
        <4> QED BY <4>1, <4>2, <4>3, <4>4, <4>5 DEF DirInv, Statuses, d
      <3>2. DOMAIN steps = Kinds /\ \A k \in Kinds : DOMAIN steps[k] = Contents
        BY DEF Init
      <3> QED BY <3>1, <3>2 DEF StepsInv
    <2> QED BY <2>1, <2>2, <2>3, <2>4 DEF IInv
  <1>2. IInv /\ [Next]_vars => IInv'
    <2> SUFFICES ASSUME IInv, [Next]_vars PROVE IInv'
      OBVIOUS
    <2>1. CASE LearnFrom
      BY <2>1, LearnFromStep
    <2>2. CASE Analyse
      BY <2>2, AnalyseStep
    <2>3. CASE Open
      BY <2>3, OpenStep
    <2>4. CASE Transform
      BY <2>4, TransformStep
    <2>5. CASE ResolveOrigins
      BY <2>5, ResolveOriginsStep
    <2>6. CASE ResetContext
      BY <2>6, ResetContextStep
    <2>7. CASE WriteRecord
      BY <2>7, WriteRecordStep
    <2>8. CASE WritePublished
      BY <2>8, WritePublishedStep
    <2>9. CASE EndLearning \/ EndAnalysis
      BY <2>9, EndStep
    <2>10. CASE TransformFails
      BY <2>10, TransformFailsStep
    <2>11. CASE DownloadFails
      BY <2>11, DownloadFailsStep
    <2>12. CASE Kill
      BY <2>12, KillStep
    <2>13. CASE Edit
      BY <2>13, EditStep
    <2>14. CASE UNCHANGED vars
      <3>1. UNCHANGED <<source, local, cached, remote, steps, contextFile, memory, pc, kind, jobs,
                        path, hash, entity, active, reported, response, commands, edits, failures>>
        BY <2>14 DEF vars, files, context, worker
      <3>2. FilesTyped' /\ WorkerTyped' /\ CountersTyped' /\ StepsInv'
        BY <3>1 DEF IInv, FilesTyped, WorkerTyped, CountersTyped, StepsInv
      <3>3. WorkInv'
        BY <3>1 DEF IInv, WorkInv, Observed, Exists, Readable
      <3> QED BY <3>1, <3>2, <3>3 DEF IInv
    <2> QED BY <2>1, <2>2, <2>3, <2>4, <2>5, <2>6, <2>7, <2>8, <2>9, <2>10, <2>11, <2>12,
               <2>13, <2>14 DEF Next, Work
  <1> QED BY <1>1, <1>2, PTL DEF Spec

\* Every variable has a value of its kind.
THEOREM TypeCorrect == Spec => []TypeOK
  <1>1. IInv => TypeOK
    BY DEF IInv, FilesTyped, WorkerTyped, CountersTyped, Context, StepsInv, DirInv, Statuses, TypeOK
  <1> QED BY <1>1, LearningInvariant, PTL

\* A step file is there only when all the earlier ones are, and a running chart is in
\* the state that its directory shows: resuming from observed_state is sound.
THEOREM StepsAreInOrder == Spec => []StepsInOrder
  <1>1. IInv => StepsInOrder
    <2> SUFFICES ASSUME IInv PROVE StepsInOrder
      OBVIOUS
    <2>1. ASSUME NEW k \in Kinds, NEW h \in Contents, NEW i \in 2 .. Length(k),
                 Exists(k, h, Order(k)[i])
          PROVE  Exists(k, h, Order(k)[i - 1])
      <3> DEFINE n == Shown(k, steps[k][h])
      <3>1. Length(k) \in 1 .. 8 /\ i \in 1 .. Length(k) /\ i - 1 \in 1 .. Length(k)
        BY RankOfOrder
      <3>2. n \in 0 .. Length(k) /\ Upto(k, steps[k][h], n)
        BY DEF IInv, StepsInv, DirInv
      <3> HIDE DEF n
      <3>3. i <= n
        BY <2>1, <3>1, <3>2, RankOfOrder DEF Upto, Exists
      <3>4. i - 1 <= n
        BY <3>1, <3>2, <3>3
      <3> QED BY <3>1, <3>2, <3>4, RankOfOrder DEF Upto, Exists
    <2>2. pc \in {"ready", "reset", "record", "respond"} => active = Observed(kind, hash)
      BY DEF IInv, WorkInv
    <2> QED BY <2>1, <2>2 DEF StepsInOrder
  <1> QED BY <1>1, LearningInvariant, PTL

\* The steps of one directory belong together, also when several commands wrote them:
\* each whole file follows from the whole files that are on disk now.
THEOREM LineageHolds == Spec => []Lineage
  <1>1. IInv => Lineage
    <2> SUFFICES ASSUME IInv, NEW k \in Kinds, NEW h \in Contents
                 PROVE  /\ Readable(k, h, "aligned") =>
                             /\ Readable(k, h, "spatialized")
                             /\ Value(k, h, "aligned") = WeightOf[Value(k, h, "spatialized")]
                        /\ Readable(k, h, "published") =>
                             /\ Readable(k, h, "identified") /\ Readable(k, h, "aligned")
                             /\ Value(k, h, "published").path = Value(k, h, "identified")
                             /\ Value(k, h, "published").weight = Value(k, h, "aligned")
                        /\ Readable(k, h, "scored") =>
                             /\ Readable(k, h, "aligned") /\ Readable(k, h, "vectors_loaded")
                             /\ Value(k, h, "scored") =
                                  Scores(Value(k, h, "aligned"), Value(k, h, "vectors_loaded"))
                        /\ Readable(k, h, "analysed") =>
                             /\ Readable(k, h, "scored")
                             /\ Value(k, h, "analysed") = BestMatch(Value(k, h, "scored"))
      BY DEF Lineage
    <2>1. \A s \in StepNames : Follows(s, steps[k][h], steps[k][h][s])
      BY DEF IInv, StepsInv, DirInv, Derived
    <2> QED BY <2>1 DEF Follows, IsDone, StepNames, Readable, Value
  <1> QED BY <1>1, LearningInvariant, PTL

\* A best match is within max_distance, and no suited candidate that was loaded is
\* nearer, whatever the filters of scored and analysed dropped.
THEOREM BestMatchIsNearest == Spec => []BestMatchNearest
  <1>1. IInv => BestMatchNearest
    <2> SUFFICES ASSUME IInv, NEW h \in Contents, Readable("analysis", h, "analysed"),
                        Value("analysis", h, "analysed") # None
                 PROVE  LET loaded == Value("analysis", h, "vectors_loaded")
                            far(c) == Distance(Value("analysis", h, "aligned"), loaded[c].weight)
                            best == Value("analysis", h, "analysed")
                        IN /\ far(best) <= MaxDistance
                           /\ \A c \in DOMAIN loaded \ Unsuited : far(best) <= far(c)
      BY DEF BestMatchNearest
    <2> DEFINE d == steps["analysis"][h]
    <2>1. \A s \in StepNames : Follows(s, d, d[s])
      BY DEF IInv, StepsInv, DirInv, Derived, Kinds
    <2>2. IsDone(d, "analysed") /\ \A s : Value("analysis", h, s) = d[s].value
      BY DEF Readable, Value, IsDone
    <2> HIDE DEF d
    <2>3. IsDone(d, "scored") /\ d["analysed"].value = BestMatch(d["scored"].value)
      BY <2>1, <2>2 DEF Follows, StepNames, IsDone
    <2>4. /\ IsDone(d, "aligned") /\ IsDone(d, "vectors_loaded")
          /\ d["scored"].value = Scores(d["aligned"].value, d["vectors_loaded"].value)
      BY <2>1, <2>3 DEF Follows, StepNames, IsDone
    <2>5. Weighted(d["vectors_loaded"].value)
      BY <2>1, <2>4 DEF Follows, StepNames, IsDone
    <2>6. /\ IsDone(d, "spatialized") /\ d["aligned"].value = WeightOf[d["spatialized"].value]
          /\ d["spatialized"].value \in Contents
      BY <2>1, <2>4 DEF Follows, StepNames, IsDone
    <2>7. d["aligned"].value \in Nat
      BY <2>6, LearningAssumption
    <2> QED BY <2>2, <2>3, <2>4, <2>5, <2>7, BestOfScores
  <1> QED BY <1>1, LearningInvariant, PTL
=============================================================================
