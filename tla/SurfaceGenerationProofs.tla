---------------------- MODULE SurfaceGenerationProofs -----------------------
(***************************************************************************)
(* Theorems about SurfaceGeneration, for any containers, entities and      *)
(* Components, any number of commands, edits, retries and faults.          *)
(*                                                                         *)
(* The argument: while a command runs, index.html is exactly Doc(n, g),    *)
(* the document of the state n that was written last, for the graph g that *)
(* the command gathered.  A read that lags returns Doc(n - 1, g), which    *)
(* fails the check of state n; so require_check lets the chart go on only  *)
(* from the document that was written.                                     *)
(***************************************************************************)
EXTENDS SurfaceGeneration, WellFoundedInduction, NaturalsInduction, TLAPS

-----------------------------------------------------------------------------
(* The inductive invariant of the Surface.                                 *)

\* A document, section by section.
Record(m, h, j, c, t, l, x, r) ==
    [marker |-> m, host |-> h, jsonld |-> j, config |-> c, matches |-> t, layouts |-> l,
     tiles |-> x, runtime |-> r]

\* The host element is there.
Host == TRUE

\* The default layouts of the installed ontobdc_view.
Layouts == IF installed = 0 THEN None ELSE installed

\* index.html in state n of a command that gathered graph g.
Doc(n, g) ==
    Record(n, Host,
           IF n >= 5 THEN g ELSE None,
           IF n >= 6 THEN "scroll" ELSE None,
           IF n >= 8 THEN AllMatches(g) ELSE IF n = 7 THEN DefaultMatches(g) ELSE None,
           IF n >= 8 THEN Layouts ELSE None,
           IF n >= 9 THEN AllMatches(g) ELSE None,
           IF n >= 10 THEN RequiredTags(AllMatches(g)) ELSE None)

\* A document has these sections and no others.
IsRecord(d) ==
    d = Record(d.marker, d.host, d.jsonld, d.config, d.matches, d.layouts, d.tiles, d.runtime)

\* The scripts come last: a document that has one of them has all of its tiles.
Complete(d) == d.host /\ d.runtime # None => d.tiles = d.matches

\* A document that a command may find, also one that was cut.
Sound(d) == IsRecord(d) /\ IsDocument(d) /\ Complete(d)

\* The part of TypeOK that is not about the documents.
Control ==
    /\ pc \in {"idle", "remove", "begin", "work", "require", "scripts", "mark", "respond"}
    /\ target \in Containers /\ surfacePath \in Containers \cup {None}
    /\ active \in 0 .. Last /\ script \in 0 .. Scripts /\ attempt \in 1 .. MaxAttempts
    /\ lagging \subseteq Containers /\ held \in BOOLEAN /\ scriptsError \in BOOLEAN
    /\ response \in {"none", "generated", "failed", "killed"} /\ removing \in {"page", "etl"}

\* A runtime script on disk.
Script == [version : Nat, fresh : BOOLEAN]

\* The sources, the installed package and the artefacts: each is its container's own.
SourcesInv ==
    /\ source \in [Containers -> [Entities -> Cells \cup {None}]]
    /\ installed \in Nat
    /\ DOMAIN etl = Containers
    /\ \A c \in Containers : etl[c] = None \/ etl[c].owner = c

\* index.html, its entity pages and its scripts, of every container.
SurfaceInv ==
    /\ DOMAIN page = Containers /\ DOMAIN behind = Containers /\ DOMAIN detail = Containers
    /\ scripts \in [Containers -> [1 .. Scripts -> Script \cup {None}]]
    /\ \A c \in Containers : page[c] = None \/ Sound(page[c])
    /\ \A c \in Containers : behind[c] = None \/ Sound(behind[c])

\* Where the running command writes.
Here == SurfaceOf(target)

\* The command has gathered its graph.
Past == pc \in {"require", "scripts", "mark", "respond"} \/ (pc = "work" /\ active >= 3)

\* The state that index.html is in or has been written for.
Stage == IF pc = "require" THEN active + 1 ELSE active

\* The artefact is a graph of the sources as they were at some time of the command.
GraphInv ==
    /\ pc # "idle" => source[target] \in since
    /\ Past => \E s \in since : etl[target] = GraphOf(target, s)
    /\ Past /\ Stage >= 5 => etl[target] # None
    /\ Past /\ Stage >= 10 => installed # 0

\* Between the removal of index.html and its first write.
Removed ==
    \/ pc = "remove" /\ removing = "etl"
    \/ pc = "begin"
    \/ pc = "work" /\ active <= 3

\* What index.html is at each place of the command, and what a lagging read returns.
PageInv ==
    /\ Removed => page[Here] = None /\ behind[Here] = None
    /\ pc = "begin" => etl[target] = None
    /\ pc = "work" => active <= 11
    /\ pc = "work" /\ active >= 4 => page[Here] = Doc(active, etl[target]) /\ Here \notin lagging
    /\ pc = "require" =>
         /\ active \in 3 .. 10
         /\ page[Here] = Doc(active + 1, etl[target])
         /\ behind[Here] = IF active = 3 THEN None ELSE Doc(active, etl[target])
    /\ pc \in {"scripts", "mark"} =>
         active = 11 /\ page[Here] = Doc(11, etl[target]) /\ Here \notin lagging
    /\ pc = "respond" =>
         active = 12 /\ page[Here] = Doc(12, etl[target]) /\ behind[Here] = Doc(11, etl[target])

\* The entity pages show the graph.
DetailInv ==
    pc \in {"scripts", "mark", "respond"} =>
      \A e \in WorkStreams \cap DOMAIN etl[target].size : detail[Here][e] = etl[target].size[e]

\* The first n scripts are the ones of the installed package.
Current(c, n) == \A j \in 1 .. n : scripts[c][j] = [version |-> installed, fresh |-> TRUE]

\* No script is fresh before the script chart runs; it leaves current ones behind.
ScriptInv ==
    /\ pc \in {"remove", "begin", "work", "require"} => script = 0
    /\ pc = "require" \/ (pc = "work" /\ active >= 4) => \A j \in 1 .. Scripts : ~Fresh(Here, j)
    /\ pc = "scripts" => Current(Here, script)
    /\ pc = "mark" /\ script = Scripts => Current(Here, Scripts)

\* The inductive invariant.
IInv ==
    /\ Control /\ SourcesInv /\ SurfaceInv
    /\ GraphInv /\ PageInv /\ DetailInv /\ ScriptInv

-----------------------------------------------------------------------------
(* The matches depend on the installed package and the graph only.         *)

\* Which components match does not change while the package does not.
LEMMA SameMatching ==
    ASSUME installed' = installed
    PROVE  /\ \A e : Matching(e)' = Matching(e)
           /\ \A t : OfTileClass(t)' = OfTileClass(t)
           /\ \A t, r : ChromeMatch(t, r)' = ChromeMatch(t, r)
<1>1. Registered' = Registered
  BY DEF Registered
<1>2. (\A e : Matching(e)' = Matching(e)) /\ (\A t : OfTileClass(t)' = OfTileClass(t))
  BY <1>1 DEF Matching, OfTileClass
<1>3. \A t, r : ChromeMatch(t, r)' = ChromeMatch(t, r)
  BY <1>2 DEF ChromeMatch
<1> QED BY <1>2, <1>3

\* surface_matched finds the same matches again.
LEMMA SameDefault ==
    ASSUME installed' = installed, NEW g
    PROVE  DefaultMatches(g)' = DefaultMatches(g)
<1>1. \A e : ContentMatch(g, e)' = ContentMatch(g, e)
  BY SameMatching DEF ContentMatch
<1>2. AutoMatched(g)' = AutoMatched(g)
  BY SameMatching DEF AutoMatched
<1> QED BY <1>1, <1>2, SameMatching DEF DefaultMatches

\* surface_operational_matched finds the same matches again.
LEMMA SameOperation ==
    ASSUME installed' = installed, NEW m
    PROVE  OperationMatches(m)' = OperationMatches(m)
<1>1. {x \in Layout : OfTileClass(x)' # {}} = {x \in Layout : OfTileClass(x) # {}}
  BY SameMatching
<1>2. {ChromeMatch(t, "operation")' : t \in {x \in Layout : OfTileClass(x)' # {}}}
        = {ChromeMatch(t, "operation") : t \in {x \in Layout : OfTileClass(x) # {}}}
  BY <1>1, SameMatching
<1> QED
  BY <1>2 DEF OperationMatches

\* A document that is right stays right while the package is not upgraded.
LEMMA SameDoc ==
    ASSUME installed' = installed
    PROVE  \A n, g : Doc(n, g)' = Doc(n, g)
<1>1. \A g : DefaultMatches(g)' = DefaultMatches(g)
  BY SameDefault
<1>2. \A g : AllMatches(g)' = AllMatches(g)
  BY <1>1, SameOperation DEF AllMatches
<1>3. Layouts' = Layouts
  BY DEF Layouts
<1> QED
  BY <1>1, <1>2, <1>3 DEF Doc

-----------------------------------------------------------------------------
(* What each capability makes of the document of the one before.           *)

\* The documents of a command, section by section.
LEMMA Documents ==
    ASSUME NEW g
    PROVE  /\ InitialHtml = Record(4, Host, None, None, None, None, None, None)
           /\ Doc(4, g) = Record(4, Host, None, None, None, None, None, None)
           /\ Doc(5, g) = Record(5, Host, g, None, None, None, None, None)
           /\ Doc(6, g) = Record(6, Host, g, "scroll", None, None, None, None)
           /\ Doc(7, g) = Record(7, Host, g, "scroll", DefaultMatches(g), None, None, None)
           /\ Doc(8, g) = Record(8, Host, g, "scroll", AllMatches(g), Layouts, None, None)
           /\ Doc(9, g) = Record(9, Host, g, "scroll", AllMatches(g), Layouts, AllMatches(g), None)
           /\ \A n \in 10 .. 12 :
                Doc(n, g) = Record(n, Host, g, "scroll", AllMatches(g), Layouts, AllMatches(g),
                                   RequiredTags(AllMatches(g)))
<1>1. InitialHtml = Record(4, Host, None, None, None, None, None, None)
  BY DEF InitialHtml, Record, Host
<1>2. /\ Doc(4, g) = Record(4, Host, None, None, None, None, None, None)
      /\ Doc(5, g) = Record(5, Host, g, None, None, None, None, None)
      /\ Doc(6, g) = Record(6, Host, g, "scroll", None, None, None, None)
  BY DEF Doc
<1>3. /\ Doc(7, g) = Record(7, Host, g, "scroll", DefaultMatches(g), None, None, None)
      /\ Doc(8, g) = Record(8, Host, g, "scroll", AllMatches(g), Layouts, None, None)
      /\ Doc(9, g) = Record(9, Host, g, "scroll", AllMatches(g), Layouts, AllMatches(g), None)
  BY DEF Doc
<1>4. \A n \in 10 .. 12 :
        Doc(n, g) = Record(n, Host, g, "scroll", AllMatches(g), Layouts, AllMatches(g),
                           RequiredTags(AllMatches(g)))
  BY DEF Doc
<1> QED BY <1>1, <1>2, <1>3, <1>4

\* surface_initialized: the initial document.
LEMMA Initialized ==
    ASSUME NEW g
    PROVE  [InitialHtml EXCEPT !.marker = 4] = Doc(4, g)
BY Documents DEF Record

\* surface_enriched embeds the graph.
LEMMA Enriched ==
    ASSUME NEW g
    PROVE  [[Doc(4, g) EXCEPT !.jsonld = g] EXCEPT !.marker = 5] = Doc(5, g)
<1>1. [Doc(4, g) EXCEPT !.jsonld = g] = Record(4, Host, g, None, None, None, None, None)
  BY Documents DEF Record
<1>2. [Record(4, Host, g, None, None, None, None, None) EXCEPT !.marker = 5] = Doc(5, g)
  BY Documents DEF Record
<1> QED BY <1>1, <1>2

\* surface_set adds the configuration.
LEMMA Configured ==
    ASSUME NEW g
    PROVE  [[Doc(5, g) EXCEPT !.config = "scroll"] EXCEPT !.marker = 6] = Doc(6, g)
<1>1. [Doc(5, g) EXCEPT !.config = "scroll"] = Record(5, Host, g, "scroll", None, None, None, None)
  BY Documents DEF Record
<1>2. [Record(5, Host, g, "scroll", None, None, None, None) EXCEPT !.marker = 6] = Doc(6, g)
  BY Documents DEF Record
<1> QED BY <1>1, <1>2

\* surface_matched adds the default matches.
LEMMA Matched ==
    ASSUME NEW g
    PROVE  [[Doc(6, g) EXCEPT !.matches = DefaultMatches(g)] EXCEPT !.marker = 7] = Doc(7, g)
<1> DEFINE r == Record(6, Host, g, "scroll", DefaultMatches(g), None, None, None)
<1>1. [Doc(6, g) EXCEPT !.matches = DefaultMatches(g)] = r
  BY Documents DEF Record
<1>2. [r EXCEPT !.marker = 7] = Doc(7, g)
  BY Documents DEF Record
<1> QED BY <1>1, <1>2

\* surface_operational_matched adds the operation region and the default layouts.
LEMMA OperationalMatched ==
    ASSUME NEW g
    PROVE  [[Doc(7, g) EXCEPT !.matches = @ \cup OperationMatches(Doc(7, g).matches),
                              !.layouts = IF installed = 0 THEN @ ELSE installed]
               EXCEPT !.marker = 8] = Doc(8, g)
<1> DEFINE r == Record(7, Host, g, "scroll", AllMatches(g), None, None, None)
           l == Record(7, Host, g, "scroll", AllMatches(g), Layouts, None, None)
<1>1. Doc(7, g).matches \cup OperationMatches(Doc(7, g).matches) = AllMatches(g)
  <2>1. Doc(7, g).matches = DefaultMatches(g)
    BY Documents DEF Record
  <2> QED BY <2>1 DEF AllMatches
<1>2. (IF installed = 0 THEN Doc(7, g).layouts ELSE installed) = Layouts
  BY Documents DEF Record, Layouts
<1>3. [Doc(7, g) EXCEPT !.matches = AllMatches(g)] = r
  <2>1. Doc(7, g) = Record(7, Host, g, "scroll", DefaultMatches(g), None, None, None)
    BY Documents
  <2> QED BY <2>1 DEF Record
<1>4. [r EXCEPT !.layouts = Layouts] = l
  BY DEF Record
<1>5. [Doc(7, g) EXCEPT !.matches = AllMatches(g), !.layouts = Layouts]
        = [[Doc(7, g) EXCEPT !.matches = AllMatches(g)] EXCEPT !.layouts = Layouts]
  OBVIOUS
<1>6. [l EXCEPT !.marker = 8] = Doc(8, g)
  BY Documents DEF Record
<1> HIDE DEF r, l
<1>7. [Doc(7, g) EXCEPT !.matches = AllMatches(g), !.layouts = Layouts] = l
  BY <1>3, <1>4, <1>5
<1> QED BY <1>1, <1>2, <1>6, <1>7

\* surface_assembled makes a tile of each match.
LEMMA Assembled ==
    ASSUME NEW g
    PROVE  [[Doc(8, g) EXCEPT !.tiles = Doc(8, g).matches] EXCEPT !.marker = 9] = Doc(9, g)
<1> DEFINE r == Record(8, Host, g, "scroll", AllMatches(g), Layouts, AllMatches(g), None)
<1>1. Doc(8, g).matches = AllMatches(g)
  BY Documents DEF Record
<1>2. [Doc(8, g) EXCEPT !.tiles = AllMatches(g)] = r
  BY Documents DEF Record
<1>3. [r EXCEPT !.marker = 9] = Doc(9, g)
  BY Documents DEF Record
<1> HIDE DEF r
<1> QED BY <1>1, <1>2, <1>3

\* surface_packaged embeds the runtime.
LEMMA Packaged ==
    ASSUME NEW g
    PROVE  [[Doc(9, g) EXCEPT !.runtime = RequiredTags(Doc(9, g).matches)] EXCEPT !.marker = 10]
             = Doc(10, g)
<1> DEFINE r == Record(9, Host, g, "scroll", AllMatches(g), Layouts, AllMatches(g),
                       RequiredTags(AllMatches(g)))
<1>1. Doc(9, g).matches = AllMatches(g)
  BY Documents DEF Record
<1>2. [Doc(9, g) EXCEPT !.runtime = RequiredTags(AllMatches(g))] = r
  BY Documents DEF Record
<1>3. [r EXCEPT !.marker = 10] = Doc(10, g)
  BY Documents DEF Record
<1> HIDE DEF r
<1> QED BY <1>1, <1>2, <1>3

\* surface_validated and the last state only move the marker.
LEMMA Marked ==
    ASSUME NEW g, NEW n \in {10, 11}
    PROVE  [Doc(n, g) EXCEPT !.marker = n + 1] = Doc(n + 1, g)
<1>1. n \in 10 .. 12 /\ n + 1 \in 10 .. 12
  OBVIOUS
<1> QED BY <1>1, Documents DEF Record

\* The document of a state is sound.
LEMMA DocIsSound ==
    ASSUME NEW n \in 4 .. 12, NEW g, g = None \/ g.owner \in Containers
    PROVE  Sound(Doc(n, g))
BY DEF Doc, Record, Host, Sound, IsRecord, IsDocument, Complete, Last

\* A write may be cut anywhere: where one of the scripts is there, all of the tiles are.
LEMMA CutIsSound ==
    ASSUME NEW d, Sound(d), NEW x \in Cut(d)
    PROVE  Sound(x)
<1> DEFINE no == FALSE
           whole == [d EXCEPT !.runtime = None]
<1>1. ~no /\ no \in BOOLEAN
  OBVIOUS
<1>2. \/ \E m \in {0, d.marker} : x = [InitialHtml EXCEPT !.marker = m, !.host = no]
      \/ x = [d EXCEPT !.host = no, !.tiles = None, !.runtime = None]
      \/ x = [d EXCEPT !.tiles = None, !.runtime = None]
      \/ x = whole
      \/ d.runtime # None /\ \E r : x = [whole EXCEPT !.runtime = r]
  BY DEF Cut
<1>3. d = Record(d.marker, d.host, d.jsonld, d.config, d.matches, d.layouts, d.tiles, d.runtime)
  BY DEF Sound, IsRecord
<1>4. /\ d.marker \in 0 .. Last /\ d.host \in BOOLEAN
      /\ d.jsonld = None \/ d.jsonld.owner \in Containers
      /\ d.host /\ d.runtime # None => d.tiles = d.matches
  BY DEF Sound, IsDocument, Complete
<1>5. whole = Record(d.marker, d.host, d.jsonld, d.config, d.matches, d.layouts, d.tiles, None)
  BY <1>3 DEF Record
<1> HIDE DEF no, whole
<1>6. ASSUME NEW m \in {0, d.marker}, x = [InitialHtml EXCEPT !.marker = m, !.host = no]
      PROVE  Sound(x)
  <2> DEFINE r == [InitialHtml EXCEPT !.marker = m]
  <2>1. x = [r EXCEPT !.host = no]
    BY <1>6
  <2>2. r = Record(m, Host, None, None, None, None, None, None)
    BY Documents DEF Record
  <2> HIDE DEF r
  <2>3. x = Record(m, no, None, None, None, None, None, None)
    BY <2>1, <2>2 DEF Record
  <2> QED BY <1>1, <1>4, <2>3 DEF Record, Sound, IsRecord, IsDocument, Complete, Last
<1>7. CASE x = [d EXCEPT !.host = no, !.tiles = None, !.runtime = None]
  <2> DEFINE h == [d EXCEPT !.host = no]
             t == [h EXCEPT !.tiles = None]
  <2>1. x = [t EXCEPT !.runtime = None]
    BY <1>7
  <2>2. h = Record(d.marker, no, d.jsonld, d.config, d.matches, d.layouts, d.tiles, d.runtime)
    BY <1>3 DEF Record
  <2> HIDE DEF h
  <2>3. t = Record(d.marker, no, d.jsonld, d.config, d.matches, d.layouts, None, d.runtime)
    BY <2>2 DEF Record
  <2> HIDE DEF t
  <2>4. x = Record(d.marker, no, d.jsonld, d.config, d.matches, d.layouts, None, None)
    BY <2>1, <2>3 DEF Record
  <2> QED BY <1>1, <1>4, <2>4 DEF Record, Sound, IsRecord, IsDocument, Complete
<1>8. CASE x = [d EXCEPT !.tiles = None, !.runtime = None]
  <2> DEFINE t == [d EXCEPT !.tiles = None]
  <2>1. x = [t EXCEPT !.runtime = None]
    BY <1>8
  <2>2. t = Record(d.marker, d.host, d.jsonld, d.config, d.matches, d.layouts, None, d.runtime)
    BY <1>3 DEF Record
  <2> HIDE DEF t
  <2>3. x = Record(d.marker, d.host, d.jsonld, d.config, d.matches, d.layouts, None, None)
    BY <2>1, <2>2 DEF Record
  <2> QED BY <1>4, <2>3 DEF Record, Sound, IsRecord, IsDocument, Complete
<1>9. CASE x = whole
  BY <1>4, <1>5, <1>9 DEF Record, Sound, IsRecord, IsDocument, Complete
<1>10. ASSUME d.runtime # None, NEW r, x = [whole EXCEPT !.runtime = r]
       PROVE  Sound(x)
  <2>1. x = Record(d.marker, d.host, d.jsonld, d.config, d.matches, d.layouts, d.tiles, r)
    BY <1>5, <1>10 DEF Record
  <2>2. /\ x.marker = d.marker /\ x.host = d.host /\ x.jsonld = d.jsonld /\ x.config = d.config
        /\ x.matches = d.matches /\ x.layouts = d.layouts /\ x.tiles = d.tiles /\ x.runtime = r
    BY <2>1 DEF Record
  <2>3. Complete(x)
    BY <1>4, <1>10, <2>2, Zenon DEF Complete
  <2>4. IsRecord(x)
    BY <2>1, <2>2 DEF IsRecord
  <2>5. IsDocument(x)
    BY <1>4, <2>2 DEF IsDocument
  <2> QED BY <2>3, <2>4, <2>5 DEF Sound
<1> QED BY <1>2, <1>6, <1>7, <1>8, <1>9, <1>10

-----------------------------------------------------------------------------
(* Steps that leave most of the state alone.                               *)

\* surface_path is one of the containers.
LEMMA HereIsContainer ==
    ASSUME Control
    PROVE  Here \in Containers
BY SurfaceAssumption DEF Control, Here, SurfaceOf

\* Sources that stay as they are stay right.
LEMMA SameSources ==
    ASSUME SourcesInv, UNCHANGED <<source, etl, installed>>
    PROVE  SourcesInv'
BY DEF SourcesInv

\* Files of the Surface that stay as they are stay right.
LEMMA SameSurface ==
    ASSUME SurfaceInv, UNCHANGED surface
    PROVE  SurfaceInv'
<1>1. UNCHANGED <<page, behind, lagging, detail, scripts>>
  BY DEF surface
<1>2. /\ \A c \in Containers : page'[c] = None \/ Sound(page'[c])
      /\ \A c \in Containers : behind'[c] = None \/ Sound(behind'[c])
  BY <1>1 DEF SurfaceInv
<1> QED BY <1>1, <1>2 DEF SurfaceInv

\* When no command runs, only the files count.
LEMMA IdleStep ==
    ASSUME Control', SourcesInv', SurfaceInv', pc' = "idle"
    PROVE  IInv'
BY DEF IInv, GraphInv, Past, PageInv, Removed, DetailInv, ScriptInv

\* The command stays where it is; the sources may have changed under it.
LEMMA WaitStep ==
    ASSUME IInv, Control', SourcesInv', SurfaceInv',
           UNCHANGED <<page, behind, etl, scripts, detail, installed, surfacePath, pc, target,
                       removing, active, script>>,
           lagging' \subseteq lagging, since \subseteq since',
           pc # "idle" => source'[target] \in since'
    PROVE  IInv'
<1> USE DEF IInv
<1>1. Here' = Here
  BY DEF Here, SurfaceOf
<1>2. Past' = Past /\ Stage' = Stage /\ Removed' = Removed
  BY DEF Past, Stage, Removed
<1>3. GraphInv'
  BY <1>2 DEF GraphInv
<1>4. PageInv'
  BY <1>1, <1>2, SameDoc DEF PageInv
<1>5. DetailInv'
  BY <1>1 DEF DetailInv
<1>6. ScriptInv'
  BY <1>1 DEF ScriptInv, Current, Fresh
<1> QED BY <1>3, <1>4, <1>5, <1>6

\* A step that ends the command and writes no file.
LEMMA EndStep ==
    ASSUME IInv, pc' = "idle", response' \in {"generated", "failed", "killed"},
           UNCHANGED <<files, surfacePath, target, removing, active, script, attempt, held,
                       scriptsError>>
    PROVE  IInv'
<1>1. Control'
  BY DEF IInv, Control, files, surface
<1> QED BY <1>1, SameSources, SameSurface, IdleStep DEF IInv, files

-----------------------------------------------------------------------------
(* The capabilities.                                                       *)

\* A write of index.html leaves no script fresh.
LEMMA OutdatedIsStale ==
    ASSUME NEW old \in [1 .. Scripts -> Script \cup {None}]
    PROVE  /\ Outdated(old) \in [1 .. Scripts -> Script \cup {None}]
           /\ \A j \in 1 .. Scripts : ~(Outdated(old)[j] # None /\ Outdated(old)[j].fresh)
<1>1. ASSUME NEW j \in 1 .. Scripts
      PROVE  /\ Outdated(old)[j] \in Script \cup {None}
             /\ Outdated(old)[j] # None => Outdated(old)[j].fresh = FALSE
  <2>1. CASE old[j] = None
    BY <2>1 DEF Outdated
  <2>2. CASE old[j] # None
    <3>1. old[j] \in Script
      BY <2>2
    <3>2. Outdated(old)[j] = [old[j] EXCEPT !.fresh = FALSE]
      BY <2>2 DEF Outdated
    <3> QED BY <3>1, <3>2 DEF Script
  <2> QED BY <2>1, <2>2
<1> QED BY <1>1 DEF Outdated

\* What a write leaves of the files.
LEMMA WriteSurfaceStep ==
    ASSUME Control, SourcesInv, SurfaceInv, NEW d, Sound(d), WriteSurface(d)
    PROVE  /\ SourcesInv' /\ SurfaceInv' /\ lagging' \subseteq Containers
           /\ page'[Here] = d /\ behind'[Here] = Read(Here)
           /\ \A j \in 1 .. Scripts : ~(scripts'[Here][j] # None /\ scripts'[Here][j].fresh)
<1>1. Here \in Containers
  BY HereIsContainer
<1>2. /\ page' = [page EXCEPT ![Here] = d]
      /\ behind' = [behind EXCEPT ![Here] = Read(Here)]
      /\ scripts' = [scripts EXCEPT ![Here] = Outdated(scripts[Here])]
      /\ UNCHANGED <<source, etl, detail, installed>>
      /\ lagging' \in {lagging \cup {Here}, lagging \ {Here}}
  BY DEF WriteSurface, Here
<1>3. SourcesInv'
  BY <1>2, SameSources
<1>4. Read(Here) = None \/ Sound(Read(Here))
  BY <1>1 DEF SurfaceInv, Read
<1>5. scripts[Here] \in [1 .. Scripts -> Script \cup {None}]
  BY <1>1 DEF SurfaceInv
<1>6. scripts' \in [Containers -> [1 .. Scripts -> Script \cup {None}]]
  BY <1>1, <1>2, <1>5, OutdatedIsStale DEF SurfaceInv
<1>7. \A j \in 1 .. Scripts : ~(scripts'[Here][j] # None /\ scripts'[Here][j].fresh)
  <2>1. scripts'[Here] = Outdated(scripts[Here])
    BY <1>1, <1>2 DEF SurfaceInv
  <2> QED BY <1>5, <2>1, OutdatedIsStale
<1>8. \A c \in Containers : page'[c] = None \/ Sound(page'[c])
  BY <1>1, <1>2 DEF SurfaceInv
<1>9. \A c \in Containers : behind'[c] = None \/ Sound(behind'[c])
  BY <1>1, <1>2, <1>4 DEF SurfaceInv
<1>10. DOMAIN page' = Containers /\ DOMAIN behind' = Containers /\ DOMAIN detail' = Containers
  BY <1>2 DEF SurfaceInv
<1>11. SurfaceInv'
  BY <1>6, <1>8, <1>9, <1>10 DEF SurfaceInv
<1>12. page'[Here] = d /\ behind'[Here] = Read(Here)
  BY <1>1, <1>2 DEF SurfaceInv
<1>13. lagging' \subseteq Containers
  BY <1>1, <1>2 DEF Control
<1> QED BY <1>3, <1>7, <1>11, <1>12, <1>13

\* A write that keeps its path: the command goes on writing at the same place.
LEMMA WriteStep ==
    ASSUME Control, SourcesInv, SurfaceInv, NEW d, Sound(d), Write(d), UNCHANGED target
    PROVE  /\ SourcesInv' /\ SurfaceInv' /\ lagging' \subseteq Containers
           /\ surfacePath' \in Containers /\ Here' = Here
           /\ page'[Here] = d /\ behind'[Here] = Read(Here)
           /\ \A j \in 1 .. Scripts : ~Fresh(Here, j)'
<1>1. WriteSurface(d) /\ surfacePath' = Here
  BY DEF Write, Here
<1>2. Here \in Containers
  BY HereIsContainer
<1>3. Here' = Here /\ surfacePath' \in Containers
  BY <1>1, <1>2, SurfaceAssumption DEF Here, SurfaceOf
<1>4. \A j \in 1 .. Scripts : ~(scripts'[Here][j] # None /\ scripts'[Here][j].fresh)
  BY <1>1, WriteSurfaceStep
<1>5. \A j \in 1 .. Scripts : ~Fresh(Here, j)'
  BY <1>3, <1>4 DEF Fresh
<1> QED BY <1>1, <1>3, <1>5, WriteSurfaceStep

\* A command that is killed in a write leaves a prefix of a document.
LEMMA KilledInWriteStep ==
    ASSUME IInv, NEW d, Sound(d), KilledInWrite(d)
    PROVE  IInv'
<1>1. /\ pc' = "idle" /\ response' = "killed"
      /\ UNCHANGED <<surfacePath, target, removing, held, active, script, attempt, scriptsError>>
  BY DEF KilledInWrite
<1>2. PICK x \in Cut(d) : WriteSurface(x)
  BY DEF KilledInWrite
<1>3. SourcesInv' /\ SurfaceInv' /\ lagging' \subseteq Containers
  BY <1>2, CutIsSound, WriteSurfaceStep DEF IInv
<1>4. Control'
  BY <1>1, <1>3 DEF IInv, Control
<1> QED BY <1>1, <1>3, <1>4, IdleStep

\* What the command reads of index.html where no write is on its way.
LEMMA DocumentRead ==
    ASSUME IInv
    PROVE  /\ pc = "work" /\ active <= 3 => Document = None
           /\ pc = "work" /\ active >= 4 => Document = Doc(active, etl[target])
           /\ pc \in {"scripts", "mark"} => Document = Doc(11, etl[target])
<1>1. Document = Read(Here)
  BY DEF Document, Here
<1> QED BY <1>1 DEF IInv, PageInv, Removed, Read

\* A capability that makes the document of state n of the one of state n - 1.
LEMMA TransformStep ==
    ASSUME IInv, NEW n \in 4 .. 11, pc = "work", active = n - 1, NEW d, Transform(n, d),
           [d EXCEPT !.marker = n] = Doc(n, etl[target]),
           n >= 5 => etl[target] # None, n >= 10 => installed # 0
    PROVE  IInv'
<1> DEFINE doc == Doc(n, etl[target])
<1>1. Sound(doc)
  <2>1. target \in Containers
    BY DEF IInv, Control
  <2> QED BY <2>1, DocIsSound DEF IInv, SourcesInv
<1>2. KilledInWrite(doc) => IInv'
  BY <1>1, KilledInWriteStep
<1>3. SUFFICES ASSUME ~KilledInWrite(doc) PROVE IInv'
  BY <1>2
<1>4. /\ Write(doc) /\ pc' = "require" /\ attempt' = 1
      /\ UNCHANGED <<target, removing, held, active, script, scriptsError, since, response>>
  BY <1>3 DEF Transform
<1>5. UNCHANGED <<source, etl, installed>>
  BY <1>4 DEF Write, WriteSurface
<1>6. Doc(n, etl[target])' = doc /\ Doc(active, etl[target])' = Doc(active, etl[target])
  BY <1>4, <1>5, SameDoc
<1> HIDE DEF doc
<1>7. /\ SourcesInv' /\ SurfaceInv' /\ lagging' \subseteq Containers
      /\ surfacePath' \in Containers /\ Here' = Here
      /\ page'[Here] = doc /\ behind'[Here] = Read(Here)
      /\ \A j \in 1 .. Scripts : ~Fresh(Here, j)'
  BY <1>4, <1>1, WriteStep DEF IInv
<1>8. Control'
  BY <1>4, <1>7, SurfaceAssumption DEF IInv, Control
<1>9. GraphInv'
  <2>1. active + 1 = n
    OBVIOUS
  <2>2. Past /\ \E s \in since : etl[target] = GraphOf(target, s)
    BY DEF Past, IInv, GraphInv
  <2>3. Stage' = n
    BY <1>4, <2>1 DEF Stage
  <2> QED BY <1>4, <1>5, <2>2, <2>3 DEF GraphInv, IInv
<1>10. PageInv'
  <2>1. Document = Read(Here)
    BY DEF Document, Here
  <2>2. behind'[Here] = IF active = 3 THEN None ELSE Doc(active, etl[target])
    BY <1>7, <2>1, DocumentRead
  <2>3. active + 1 = n /\ active \in 3 .. 10
    OBVIOUS
  <2>4. ~Removed'
    BY <1>4 DEF Removed
  <2> QED BY <1>4, <1>6, <1>7, <2>2, <2>3, <2>4 DEF PageInv, doc
<1>11. DetailInv'
  BY <1>4 DEF DetailInv
<1>12. ScriptInv'
  BY <1>4, <1>7 DEF ScriptInv, IInv
<1> QED BY <1>7, <1>8, <1>9, <1>10, <1>11, <1>12 DEF IInv

\* surface_initialized writes the empty document.
LEMMA SurfaceInitializedStep ==
    ASSUME IInv, SurfaceInitialized
    PROVE  IInv'
BY Initialized, TransformStep DEF SurfaceInitialized, At

\* surface_enriched embeds the graph that was gathered for this command.
LEMMA SurfaceEnrichedStep ==
    ASSUME IInv, SurfaceEnriched
    PROVE  IInv'
<1>1. Document = Doc(4, etl[target])
  BY DocumentRead DEF SurfaceEnriched, At
<1> DEFINE d == [Doc(4, etl[target]) EXCEPT !.jsonld = etl[target]]
<1>2. pc = "work" /\ active = 5 - 1 /\ Transform(5, d) /\ etl[target] # None
  BY <1>1 DEF SurfaceEnriched, At
<1>3. [d EXCEPT !.marker = 5] = Doc(5, etl[target])
  BY Enriched
<1> HIDE DEF d
<1> QED BY <1>2, <1>3, TransformStep

\* surface_set.
LEMMA SurfaceSetStep ==
    ASSUME IInv, SurfaceSet
    PROVE  IInv'
<1>1. Document = Doc(5, etl[target]) /\ etl[target] # None
  BY DocumentRead DEF SurfaceSet, At, IInv, GraphInv, Past, Stage
<1> DEFINE d == [Doc(5, etl[target]) EXCEPT !.config = "scroll"]
<1>2. pc = "work" /\ active = 6 - 1 /\ Transform(6, d)
  BY <1>1 DEF SurfaceSet, At
<1>3. [d EXCEPT !.marker = 6] = Doc(6, etl[target])
  BY Configured
<1> HIDE DEF d
<1> QED BY <1>1, <1>2, <1>3, TransformStep

\* surface_matched reads the artefact that was embedded.
LEMMA SurfaceMatchedStep ==
    ASSUME IInv, SurfaceMatched
    PROVE  IInv'
<1>1. Document = Doc(6, etl[target]) /\ etl[target] # None
  BY DocumentRead DEF SurfaceMatched, At
<1> DEFINE d == [Doc(6, etl[target]) EXCEPT !.matches = DefaultMatches(etl[target])]
<1>2. pc = "work" /\ active = 7 - 1 /\ Transform(7, d)
  BY <1>1 DEF SurfaceMatched, At
<1>3. [d EXCEPT !.marker = 7] = Doc(7, etl[target])
  BY Matched
<1> HIDE DEF d
<1> QED BY <1>1, <1>2, <1>3, TransformStep

\* surface_operational_matched.
LEMMA SurfaceOperationalMatchedStep ==
    ASSUME IInv, SurfaceOperationalMatched
    PROVE  IInv'
<1>1. Document = Doc(7, etl[target]) /\ etl[target] # None
  BY DocumentRead DEF SurfaceOperationalMatched, At, IInv, GraphInv, Past, Stage
<1> DEFINE d == [Doc(7, etl[target]) EXCEPT
                     !.matches = @ \cup OperationMatches(Doc(7, etl[target]).matches),
                     !.layouts = IF installed = 0 THEN @ ELSE installed]
<1>2. pc = "work" /\ active = 8 - 1 /\ Transform(8, d)
  BY <1>1 DEF SurfaceOperationalMatched, At
<1>3. [d EXCEPT !.marker = 8] = Doc(8, etl[target])
  BY OperationalMatched
<1> HIDE DEF d
<1> QED BY <1>1, <1>2, <1>3, TransformStep

\* surface_assembled.
LEMMA SurfaceAssembledStep ==
    ASSUME IInv, SurfaceAssembled
    PROVE  IInv'
<1>1. Document = Doc(8, etl[target]) /\ etl[target] # None
  BY DocumentRead DEF SurfaceAssembled, At, IInv, GraphInv, Past, Stage
<1> DEFINE d == [Doc(8, etl[target]) EXCEPT !.tiles = Doc(8, etl[target]).matches]
<1>2. pc = "work" /\ active = 9 - 1 /\ Transform(9, d)
  BY <1>1 DEF SurfaceAssembled, At
<1>3. [d EXCEPT !.marker = 9] = Doc(9, etl[target])
  BY Assembled
<1> HIDE DEF d
<1> QED BY <1>1, <1>2, <1>3, TransformStep

\* surface_packaged needs ontobdc_view, which stays installed.
LEMMA SurfacePackagedStep ==
    ASSUME IInv, SurfacePackaged
    PROVE  IInv'
<1>1. Document = Doc(9, etl[target]) /\ etl[target] # None
  BY DocumentRead DEF SurfacePackaged, At, IInv, GraphInv, Past, Stage
<1>2. installed # 0
  BY DEF SurfacePackaged, Packageable
<1> DEFINE d == [Doc(9, etl[target]) EXCEPT !.runtime = RequiredTags(Doc(9, etl[target]).matches)]
<1>3. pc = "work" /\ active = 10 - 1 /\ Transform(10, d)
  BY <1>1 DEF SurfacePackaged, At
<1>4. [d EXCEPT !.marker = 10] = Doc(10, etl[target])
  BY Packaged
<1> HIDE DEF d
<1> QED BY <1>1, <1>2, <1>3, <1>4, TransformStep

\* surface_validated.
LEMMA SurfaceValidatedStep ==
    ASSUME IInv, SurfaceValidated
    PROVE  IInv'
<1>1. Document = Doc(10, etl[target]) /\ etl[target] # None /\ installed # 0
  BY DocumentRead DEF SurfaceValidated, At, IInv, GraphInv, Past, Stage
<1> DEFINE d == Doc(10, etl[target])
<1>2. pc = "work" /\ active = 11 - 1 /\ Transform(11, d)
  BY <1>1 DEF SurfaceValidated, At
<1>3. [d EXCEPT !.marker = 11] = Doc(11, etl[target])
  BY Marked
<1> HIDE DEF d
<1> QED BY <1>1, <1>2, <1>3, TransformStep

-----------------------------------------------------------------------------
(* The other steps of the command.                                         *)

\* A stale document fails the check of the state that was just written.
LEMMA StaleFails ==
    ASSUME NEW g, NEW n \in 4 .. 10, NEW c, Read(c) = Doc(n, g)
    PROVE  ~CheckState(c, n + 1)
<1>1. CASE n = 4
  <2>1. Doc(4, g).jsonld = None
    BY Documents DEF Record
  <2> QED BY <1>1, <2>1 DEF CheckState, HasSections, HasJsonld
<1>2. CASE n = 5
  <2>1. Doc(5, g).config = None
    BY Documents DEF Record
  <2> QED BY <1>2, <2>1 DEF CheckState, HasSections, HasSurfaceConfig
<1>3. CASE n = 6
  <2>1. Doc(6, g).matches = None
    BY Documents DEF Record
  <2> QED BY <1>3, <2>1 DEF CheckState, HasSections, HasSurfaceMatches
<1>4. CASE n = 7
  <2>1. Doc(7, g).marker = 7
    BY Documents DEF Record
  <2> QED BY <1>4, <2>1 DEF CheckState
<1>5. CASE n = 8
  <2>1. Doc(8, g).tiles = None
    BY Documents DEF Record
  <2> QED BY <1>5, <2>1 DEF CheckState, HasSections, HasAssembledTiles
<1>6. CASE n = 9
  <2>1. Doc(9, g).runtime = None
    BY Documents DEF Record
  <2> QED BY <1>6, <2>1 DEF CheckState, HasSections, HasPackagedRuntime
<1>7. CASE n = 10
  <2>1. Doc(10, g).marker = 10
    BY Documents DEF Record
  <2> QED BY <1>7, <2>1 DEF CheckState
<1> QED BY <1>1, <1>2, <1>3, <1>4, <1>5, <1>6, <1>7

\* A set of numbers that is not empty has a least one.
LEMMA LeastNumber ==
    ASSUME NEW S \in SUBSET Nat, S # {}
    PROVE  \E n \in S : \A m \in S : n <= m
<1> DEFINE R == OpToRel(<, Nat)
<1>1. IsWellFoundedOn(R, Nat)
  BY NatLessThanWellFounded
<1>2. PICK n \in S : \A m \in S : ~(<<m, n>> \in R)
  BY <1>1, WFMin
<1>3. \A m \in S : ~(m < n)
  BY <1>2 DEF OpToRel
<1> QED BY <1>3

\* evaluate finds a state, and every check up to it passes.
LEMMA ObservedChecks ==
    ASSUME NEW c
    PROVE  /\ Observed(c) \in 0 .. Last
           /\ \A j \in 1 .. Observed(c) : CheckState(c, j)
<1> DEFINE P(n) == /\ \A j \in 1 .. n : CheckState(c, j)
                   /\ n < Last => ~CheckState(c, n + 1)
           failing == {j \in 1 .. Last : ~CheckState(c, j)}
<1>1. ASSUME failing = {} PROVE \E n \in 0 .. Last : P(n)
  <2>1. \A j \in 1 .. Last : CheckState(c, j)
    BY <1>1
  <2> QED BY <2>1 DEF Last
<1>2. ASSUME failing # {} PROVE \E n \in 0 .. Last : P(n)
  <2>1. failing \in SUBSET Nat
    BY DEF Last
  <2>2. PICK least \in failing : \A j \in failing : least <= j
    <3> HIDE DEF failing
    <3> QED BY <1>2, <2>1, LeastNumber
  <2>3. least - 1 \in 0 .. Last
    BY DEF Last
  <2>4. \A j \in 1 .. (least - 1) : CheckState(c, j)
    BY <2>2 DEF Last
  <2>5. ~CheckState(c, (least - 1) + 1)
    BY DEF Last
  <2> HIDE DEF failing
  <2>6. P(least - 1)
    BY <2>4, <2>5
  <2> HIDE DEF P
  <2> QED BY <2>3, <2>6
<1>3. \E n \in 0 .. Last : P(n)
  BY <1>1, <1>2
<1>4. Observed(c) = CHOOSE n \in 0 .. Last : P(n)
  BY DEF Observed
<1> HIDE DEF P
<1>5. Observed(c) \in 0 .. Last /\ P(Observed(c))
  BY <1>3, <1>4
<1> QED BY <1>5 DEF P

\* A new command finds the files as the last one left them.
LEMMA StartStep ==
    ASSUME IInv, NEW c \in Containers, Start(c)
    PROVE  IInv'
<1>1. UNCHANGED <<source, etl, installed, surface, surfacePath, held>> /\ UNCHANGED lagging
  BY DEF Start, files, surface
<1>2. Control'
  <2>1. scriptsError' \in BOOLEAN
    BY DEF Start
  <2>2. pc' = "remove" /\ target' = c /\ removing' = "page" /\ attempt' = 1
    BY DEF Start
  <2>3. response' = "none" /\ active' = 0 /\ script' = 0
    BY DEF Start
  <2> QED BY <1>1, <2>1, <2>2, <2>3, SurfaceAssumption DEF IInv, Control, Last, Scripts
<1>3. SourcesInv' /\ SurfaceInv'
  BY <1>1, SameSources, SameSurface DEF IInv
<1>4. GraphInv'
  BY <1>1 DEF Start, GraphInv, Past
<1>5. PageInv' /\ DetailInv' /\ ScriptInv'
  BY DEF Start, PageInv, Removed, DetailInv, ScriptInv
<1> QED BY <1>2, <1>3, <1>4, <1>5 DEF IInv

\* index.html is removed where it is written, and then the artefact.
LEMMA RemoveStep ==
    ASSUME IInv, Remove
    PROVE  IInv'
<1>1. Here \in Containers /\ target \in Containers
  BY HereIsContainer DEF IInv, Control
<1>2. /\ pc = "remove" /\ attempt' = 1
      /\ UNCHANGED <<source, lagging, detail, scripts, installed, surfacePath, target, held, active,
                     script, scriptsError, since, response>>
  BY DEF Remove
<1>3. Here' = Here
  BY <1>2 DEF Here, SurfaceOf
<1>4. CASE removing = "page"
  <2>1. /\ page' = [page EXCEPT ![Here] = None] /\ behind' = [behind EXCEPT ![Here] = None]
        /\ removing' = "etl" /\ UNCHANGED <<etl, pc>>
    BY <1>4 DEF Remove, Here
  <2>2. Control' /\ SourcesInv'
    BY <1>2, <2>1, SameSources, SurfaceAssumption DEF IInv, Control
  <2>3. SurfaceInv'
    BY <1>1, <1>2, <2>1 DEF IInv, SurfaceInv
  <2>4. GraphInv'
    BY <1>2, <2>1 DEF IInv, GraphInv, Past
  <2>5. PageInv'
    BY <1>1, <1>2, <1>3, <2>1 DEF IInv, SurfaceInv, PageInv, Removed
  <2>6. DetailInv' /\ ScriptInv'
    BY <1>2, <2>1 DEF IInv, DetailInv, ScriptInv
  <2> QED BY <2>2, <2>3, <2>4, <2>5, <2>6 DEF IInv
<1>5. CASE removing # "page"
  <2>1. etl' = [etl EXCEPT ![target] = None] /\ pc' = "begin" /\ UNCHANGED <<page, behind, removing>>
    BY <1>5 DEF Remove
  <2>2. Control'
    BY <1>2, <2>1, SurfaceAssumption DEF IInv, Control
  <2>3. SourcesInv'
    BY <1>1, <1>2, <2>1 DEF IInv, SourcesInv
  <2>4. SurfaceInv'
    BY <1>2, <2>1, SameSurface DEF IInv, surface
  <2>5. GraphInv'
    BY <1>2, <2>1 DEF IInv, GraphInv, Past
  <2>6. removing = "etl"
    BY <1>5 DEF IInv, Control
  <2>7. page[Here] = None /\ behind[Here] = None
    BY <1>2, <2>6 DEF IInv, PageInv, Removed
  <2>8. etl'[target] = None
    BY <1>1, <2>1 DEF IInv, SourcesInv
  <2>9. PageInv'
    BY <1>2, <1>3, <2>1, <2>7, <2>8 DEF PageInv
  <2>10. DetailInv' /\ ScriptInv'
    BY <1>2, <2>1 DEF IInv, DetailInv, ScriptInv
  <2> QED BY <2>2, <2>3, <2>4, <2>5, <2>9, <2>10 DEF IInv
<1> QED BY <1>4, <1>5

\* Without the artefact the chart starts before data_gathered, whatever else is there.
LEMMA BeginStep ==
    ASSUME IInv, Begin
    PROVE  IInv'
<1>1. /\ pc = "begin" /\ pc' = "work" /\ active' = Observed(Here)
      /\ UNCHANGED <<source, etl, surface, installed, surfacePath, target, removing, held, script,
                     attempt, scriptsError, since, response>>
  BY DEF Begin, files, Here
<1>2. UNCHANGED <<page, behind, lagging, detail, scripts>>
  BY <1>1 DEF surface
<1>3. etl[target] = None /\ page[Here] = None /\ behind[Here] = None
  BY <1>1 DEF IInv, PageInv, Removed
<1>4. ~CheckState(Here, 3)
  BY <1>3 DEF CheckState
<1>5. active' \in 0 .. 2
  <2>1. Observed(Here) \in 0 .. 12 /\ \A j \in 1 .. Observed(Here) : CheckState(Here, j)
    BY ObservedChecks DEF Last
  <2> QED BY <1>1, <1>4, <2>1
<1>6. Here' = Here
  BY <1>1 DEF Here, SurfaceOf
<1>7. Control' /\ SourcesInv' /\ SurfaceInv'
  BY <1>1, <1>2, <1>5, SameSources, SameSurface DEF IInv, Control, Last
<1>8. GraphInv'
  BY <1>1, <1>5 DEF IInv, GraphInv, Past
<1>9. PageInv'
  BY <1>1, <1>2, <1>3, <1>5, <1>6 DEF PageInv
<1>10. DetailInv' /\ ScriptInv'
  BY <1>1, <1>5 DEF IInv, DetailInv, ScriptInv
<1> QED BY <1>7, <1>8, <1>9, <1>10 DEF IInv

\* container_healthy and is_publishable, which only synchronise the data package.
LEMMA PackageStep ==
    ASSUME IInv, ContainerHealthy \/ IsPublishable
    PROVE  IInv'
<1>1. /\ pc = "work" /\ active \in {0, 1} /\ active' \in {1, 2}
      /\ UNCHANGED <<source, etl, surface, installed, surfacePath, pc, target, removing, held, script,
                     attempt, scriptsError, since, response>>
  BY DEF ContainerHealthy, IsPublishable, At, Reached
<1>2. UNCHANGED <<page, behind, lagging, detail, scripts>>
  BY <1>1 DEF surface
<1>3. Here' = Here
  BY <1>1 DEF Here, SurfaceOf
<1>4. Control' /\ SourcesInv' /\ SurfaceInv'
  BY <1>1, <1>2, SameSources, SameSurface DEF IInv, Control, Last
<1>5. GraphInv'
  BY <1>1 DEF IInv, GraphInv, Past
<1>6. PageInv'
  BY <1>1, <1>2, <1>3 DEF IInv, PageInv, Removed
<1>7. DetailInv' /\ ScriptInv'
  BY <1>1 DEF IInv, DetailInv, ScriptInv
<1> QED BY <1>4, <1>5, <1>6, <1>7 DEF IInv

\* data_gathered: the graph is one of the sources as they are now.
LEMMA DataGatheredStep ==
    ASSUME IInv, DataGathered
    PROVE  IInv'
<1>1. /\ pc = "work" /\ active = 2 /\ active' = 3
      /\ etl' = [etl EXCEPT ![target] = Gathered(target)]
      /\ UNCHANGED <<source, surface, installed, surfacePath, pc, target, removing, held, script,
                     attempt, scriptsError, since, response>>
  BY DEF DataGathered, At, Reached
<1>2. UNCHANGED <<page, behind, lagging, detail, scripts>>
  BY <1>1 DEF surface
<1>3. Here' = Here
  BY <1>1 DEF Here, SurfaceOf
<1>4. target \in Containers
  BY DEF IInv, Control
<1>5. etl'[target] = Gathered(target) /\ Gathered(target) = GraphOf(target, source[target])
  BY <1>1, <1>4 DEF IInv, SourcesInv, Gathered, GraphOf
<1>6. Control' /\ SurfaceInv'
  BY <1>1, <1>2, SameSurface DEF IInv, Control, Last
<1>7. SourcesInv'
  <2>1. Gathered(target).owner = target
    BY DEF Gathered
  <2> QED BY <1>1, <1>4, <2>1 DEF IInv, SourcesInv
<1>8. GraphInv'
  <2>1. source[target] \in since
    BY <1>1 DEF IInv, GraphInv
  <2>2. Stage' = 3
    BY <1>1 DEF Stage
  <2> QED BY <1>1, <1>5, <2>1, <2>2 DEF GraphInv
<1>9. PageInv'
  BY <1>1, <1>2, <1>3 DEF IInv, PageInv, Removed
<1>10. DetailInv' /\ ScriptInv'
  BY <1>1 DEF IInv, DetailInv, ScriptInv
<1> QED BY <1>6, <1>7, <1>8, <1>9, <1>10 DEF IInv

\* require_check passes only on the document that was written.
LEMMA RequireCheckStep ==
    ASSUME IInv, RequireCheck
    PROVE  IInv'
<1>1. /\ pc = "require" /\ CheckState(Here, active + 1) /\ pc' = "work" /\ active' = active + 1
      /\ UNCHANGED <<source, etl, surface, installed, surfacePath, target, removing, held, script,
                     attempt, scriptsError, since, response>>
  BY DEF RequireCheck, Settled, files, Here
<1>2. UNCHANGED <<page, behind, lagging, detail, scripts>>
  BY <1>1 DEF surface
<1>3. /\ active \in 3 .. 10 /\ page[Here] = Doc(active + 1, etl[target])
      /\ behind[Here] = IF active = 3 THEN None ELSE Doc(active, etl[target])
  BY <1>1 DEF IInv, PageInv
<1>4. Here \notin lagging
  <2>1. SUFFICES ASSUME Here \in lagging PROVE FALSE
    OBVIOUS
  <2>2. Read(Here) = behind[Here]
    BY <2>1 DEF Read
  <2>3. CASE active = 3
    BY <1>1, <1>3, <2>2, <2>3 DEF CheckState
  <2>4. CASE active \in 4 .. 10
    BY <1>1, <1>3, <2>2, <2>4, StaleFails
  <2> QED BY <1>3, <2>3, <2>4
<1>5. Here' = Here
  BY <1>1 DEF Here, SurfaceOf
<1>6. Control' /\ SourcesInv' /\ SurfaceInv'
  BY <1>1, <1>2, <1>3, SameSources, SameSurface DEF IInv, Control, Last
<1>7. GraphInv'
  <2>1. Past /\ Stage' = Stage
    BY <1>1 DEF Past, Stage
  <2> QED BY <1>1, <2>1 DEF IInv, GraphInv
<1>8. PageInv'
  <2>1. Doc(active, etl[target])' = Doc(active + 1, etl[target])
    BY <1>1, SameDoc
  <2>2. active' \in 4 .. 11 /\ ~Removed'
    BY <1>1, <1>3 DEF Removed
  <2> QED BY <1>1, <1>2, <1>3, <1>4, <1>5, <2>1, <2>2 DEF PageInv
<1>9. DetailInv' /\ ScriptInv'
  BY <1>1, <1>2, <1>5 DEF IInv, DetailInv, ScriptInv, Fresh
<1> QED BY <1>6, <1>7, <1>8, <1>9 DEF IInv

\* Another attempt, of require_check or of a removal.
LEMMA RetryStep ==
    ASSUME IInv, RequireRetry \/ RemoveRetry
    PROVE  IInv'
<1>1. /\ attempt < MaxAttempts /\ attempt' = attempt + 1
      /\ UNCHANGED <<source, etl, surface, installed, surfacePath, pc, target, removing, held, active,
                     script, scriptsError, since, response>>
  BY DEF RequireRetry, RemoveRetry, files
<1>2. UNCHANGED <<page, behind, lagging, detail, scripts>>
  BY <1>1 DEF surface
<1>3. Control' /\ SourcesInv' /\ SurfaceInv'
  BY <1>1, <1>2, SameSources, SameSurface, SurfaceAssumption DEF IInv, Control
<1> QED BY <1>1, <1>2, <1>3, WaitStep DEF IInv, GraphInv

\* The steps that end the command.
LEMMA EndSteps ==
    ASSUME IInv,
           RemoveGivesUp \/ RequireGivesUp \/ CapabilityUnable \/ CapabilityRaises \/ Respond \/ Kill
    PROVE  IInv'
<1>1. /\ pc' = "idle" /\ response' \in {"generated", "failed", "killed"}
      /\ UNCHANGED <<files, surfacePath, target, removing, active, script, attempt, held, scriptsError>>
  BY DEF RemoveGivesUp, RequireGivesUp, CapabilityUnable, CapabilityRaises, Respond, Kill,
     Fail
<1> QED BY <1>1, EndStep

\* entity_views_published shows the graph of index.html; no script is fresh then.
LEMMA EntityViewsPublishedStep ==
    ASSUME IInv, EntityViewsPublished
    PROVE  IInv'
<1> DEFINE g == etl[target]
           shown == WorkStreams \cap DOMAIN g.size
<1>1. pc = "work" /\ active = 11
  BY DEF EntityViewsPublished, At
<1>2. Document.jsonld = g /\ g # None /\ installed # 0
  <2>1. Document = Doc(11, g) /\ g # None /\ installed # 0
    BY <1>1, DocumentRead DEF IInv, GraphInv, Past, Stage
  <2>2. Doc(11, g).jsonld = g
    BY Documents DEF Record
  <2> QED BY <2>1, <2>2
<1>3. /\ UNCHANGED <<source, etl, page, behind, lagging, scripts, installed, surfacePath, target,
                     removing, held, active, attempt, scriptsError, since, response>>
      /\ \/ pc' = "mark" /\ shown = {} /\ UNCHANGED <<detail, script>>
         \/ /\ detail' = [detail EXCEPT ![Here] = [e \in WorkStreams |->
                            IF e \in shown THEN g.size[e] ELSE detail[Here][e]]]
            /\ script' = ObservedScript(Here)
            /\ pc' = "scripts"
  BY <1>2 DEF EntityViewsPublished, Here
<1>4. Here \in Containers /\ Here' = Here
  BY <1>3, HereIsContainer DEF IInv, Here, SurfaceOf
<1>5. script' = 0
  <2>1. script = 0 /\ \A j \in 1 .. Scripts : ~Fresh(Here, j)
    BY <1>1 DEF IInv, ScriptInv
  <2>2. ObservedScript(Here) = 0
    BY <2>1 DEF ObservedScript
  <2> QED BY <1>3, <2>1, <2>2
<1>6. Control'
  BY <1>3, <1>5 DEF IInv, Control, Scripts
<1>7. SourcesInv'
  BY <1>3, SameSources DEF IInv
<1>8. SurfaceInv'
  <2>1. DOMAIN detail' = Containers
    BY <1>3 DEF IInv, SurfaceInv
  <2> QED BY <1>3, <2>1 DEF IInv, SurfaceInv
<1>9. GraphInv'
  <2>1. Past /\ Stage' = Stage
    BY <1>1, <1>3 DEF Past, Stage
  <2> QED BY <1>1, <1>3, <2>1 DEF IInv, GraphInv
<1>10. PageInv'
  <2>1. Doc(11, etl[target])' = Doc(11, g)
    BY <1>3, SameDoc
  <2>2. page[Here] = Doc(11, g) /\ Here \notin lagging
    BY <1>1 DEF IInv, PageInv
  <2> HIDE DEF g
  <2>3. pc' \in {"mark", "scripts"}
    BY <1>3
  <2> QED BY <1>1, <1>3, <1>4, <2>1, <2>2, <2>3 DEF PageInv, Removed
<1>11. DetailInv'
  <2>1. SUFFICES ASSUME NEW e \in shown PROVE detail'[Here][e] = g.size[e]
    BY <1>3, <1>4 DEF DetailInv
  <2>2. detail'[Here] = [x \in WorkStreams |-> IF x \in shown THEN g.size[x] ELSE detail[Here][x]]
    BY <1>3, <1>4 DEF IInv, SurfaceInv
  <2> QED BY <2>2
<1>12. ScriptInv'
  BY <1>3, <1>5 DEF ScriptInv, Current, Scripts
<1> QED BY <1>6, <1>7, <1>8, <1>9, <1>10, <1>11, <1>12 DEF IInv

\* The script of state n is written for the installed package, and the earlier ones are kept.
LEMMA GenerateScriptStep ==
    ASSUME IInv, NEW n \in 1 .. Scripts, GenerateScript(n)
    PROVE  IInv'
<1> DEFINE new == [version |-> installed, fresh |-> TRUE]
<1>1. /\ pc = "scripts" /\ script = n - 1 /\ script' = n
      /\ scripts' = [scripts EXCEPT ![Here][n] = new]
      /\ UNCHANGED <<source, etl, page, behind, lagging, detail, installed, surfacePath, pc, target,
                     removing, held, active, attempt, scriptsError, since, response>>
  BY DEF GenerateScript, Here
<1>2. new \in Script
  BY DEF Script, IInv, SourcesInv
<1>3. Here \in Containers /\ Here' = Here
  BY <1>1, HereIsContainer DEF IInv, Here, SurfaceOf
<1>4. Control' /\ SourcesInv'
  BY <1>1, SameSources DEF IInv, Control, Scripts
<1> HIDE DEF new
<1>5. /\ scripts' \in [Containers -> [1 .. Scripts -> Script \cup {None}]]
      /\ \A j \in 1 .. Scripts : scripts'[Here][j] = IF j = n THEN new ELSE scripts[Here][j]
  BY <1>1, <1>2, <1>3 DEF IInv, SurfaceInv
<1>6. SurfaceInv'
  BY <1>1, <1>5 DEF IInv, SurfaceInv
<1>7. GraphInv'
  BY <1>1 DEF IInv, GraphInv, Past, Stage
<1>8. PageInv'
  BY <1>1, <1>3, SameDoc DEF IInv, PageInv, Removed
<1>9. DetailInv'
  BY <1>1, <1>3 DEF IInv, DetailInv
<1>10. ScriptInv'
  <2>1. \A j \in 1 .. script : scripts[Here][j] = new
    BY <1>1 DEF IInv, ScriptInv, Current, new
  <2>2. \A j \in 1 .. n : scripts'[Here][j] = new
    BY <1>1, <1>5, <2>1 DEF Scripts
  <2>3. Current(Here, script)'
    BY <1>1, <1>3, <2>2 DEF Current, new
  <2> QED BY <1>1, <2>3 DEF ScriptInv
<1> QED BY <1>4, <1>6, <1>7, <1>8, <1>9, <1>10 DEF IInv

\* The script chart ends, with all of its scripts or with an error.
LEMMA ScriptsEndStep ==
    ASSUME IInv, ScriptsDone \/ ScriptRaises
    PROVE  IInv'
<1>1. /\ pc = "scripts" /\ pc' = "mark"
      /\ UNCHANGED <<source, etl, surface, installed, surfacePath, target, removing, held, active,
                     script, attempt, since, response>>
  BY DEF ScriptsDone, ScriptRaises, files
<1>2. UNCHANGED <<page, behind, lagging, detail, scripts>>
  BY <1>1 DEF surface
<1>3. scriptsError' \in BOOLEAN
  BY DEF ScriptsDone, ScriptRaises, IInv, Control
<1>4. Here' = Here
  BY <1>1 DEF Here, SurfaceOf
<1>5. Control' /\ SourcesInv' /\ SurfaceInv'
  BY <1>1, <1>2, <1>3, SameSources, SameSurface DEF IInv, Control
<1>6. GraphInv'
  BY <1>1 DEF IInv, GraphInv, Past, Stage
<1>7. PageInv'
  BY <1>1, <1>2, <1>4, SameDoc DEF IInv, PageInv, Removed
<1>8. DetailInv' /\ ScriptInv'
  BY <1>1, <1>2, <1>4 DEF IInv, DetailInv, ScriptInv, Current
<1> QED BY <1>5, <1>6, <1>7, <1>8 DEF IInv

\* The last marker.
LEMMA MarkPublishedStep ==
    ASSUME IInv, MarkPublished
    PROVE  IInv'
<1> DEFINE doc == Doc(12, etl[target])
<1>1. Sound(doc)
  <2>1. target \in Containers
    BY DEF IInv, Control
  <2> QED BY <2>1, DocIsSound DEF IInv, SourcesInv
<1>2. pc = "mark" /\ Document = Doc(11, etl[target])
  BY DocumentRead DEF MarkPublished
<1>3. [Document EXCEPT !.marker = 12] = doc
  <2>1. [Doc(11, etl[target]) EXCEPT !.marker = 11 + 1] = Doc(11 + 1, etl[target])
    BY Marked
  <2> QED BY <1>2, <2>1
<1>4. KilledInWrite(doc) => IInv'
  BY <1>1, KilledInWriteStep
<1> HIDE DEF doc
<1>5. SUFFICES ASSUME ~KilledInWrite(doc) PROVE IInv'
  BY <1>4
<1>6. /\ Write(doc) /\ pc' = "respond" /\ active' = 12
      /\ UNCHANGED <<target, removing, held, script, attempt, scriptsError, since, response>>
  BY <1>3, <1>5 DEF MarkPublished
<1>7. UNCHANGED <<source, etl, detail, installed>>
  BY <1>6 DEF Write, WriteSurface
<1>8. Doc(12, etl[target])' = doc /\ Doc(11, etl[target])' = Doc(11, etl[target])
  BY <1>6, <1>7, SameDoc DEF doc
<1>9. /\ SourcesInv' /\ SurfaceInv' /\ lagging' \subseteq Containers
      /\ surfacePath' \in Containers /\ Here' = Here
      /\ page'[Here] = doc /\ behind'[Here] = Read(Here)
  BY <1>1, <1>6, WriteStep DEF IInv
<1>10. Control'
  BY <1>6, <1>9 DEF IInv, Control, Last
<1>11. GraphInv'
  <2>1. Past /\ Stage = 11 /\ Stage' = 12
    BY <1>2, <1>6 DEF Past, Stage, IInv, PageInv
  <2> QED BY <1>2, <1>6, <1>7, <2>1 DEF IInv, GraphInv
<1>12. PageInv'
  <2>1. behind'[Here] = Doc(11, etl[target])
    BY <1>2, <1>9 DEF Document, Here
  <2> QED BY <1>6, <1>8, <1>9, <2>1 DEF PageInv, Removed
<1>13. DetailInv' /\ ScriptInv'
  BY <1>2, <1>6, <1>7, <1>9 DEF IInv, DetailInv, ScriptInv
<1> QED BY <1>9, <1>10, <1>11, <1>12, <1>13 DEF IInv

-----------------------------------------------------------------------------
(* The environment.                                                        *)

\* A write settles, or a sync client opens or closes a file.
LEMMA FileSystemStep ==
    ASSUME IInv, (\E c \in Containers : Settle(c)) \/ Hold \/ Release
    PROVE  IInv'
<1>1. /\ lagging' \subseteq lagging
      /\ UNCHANGED <<source, etl, page, behind, detail, scripts, installed, surfacePath, pc, target,
                     removing, active, script, attempt, scriptsError, since, response>>
  BY DEF Settle, Hold, Release, files, surface, process
<1>2. held' \in BOOLEAN
  BY DEF Settle, Hold, Release, process, IInv, Control
<1>3. Control'
  BY <1>1, <1>2 DEF IInv, Control
<1>4. SourcesInv' /\ SurfaceInv'
  BY <1>1, SameSources DEF IInv, SurfaceInv
<1> QED BY <1>1, <1>3, <1>4, WaitStep DEF IInv, GraphInv

\* What the owner makes of the sources while a command runs is one of its states.
LEMMA EditStep ==
    ASSUME IInv, NEW c \in Containers, NEW e \in Entities, NEW cell \in Cells \cup {None},
           Edit(c, e, cell)
    PROVE  IInv'
<1>1. /\ source' = [source EXCEPT ![c][e] = cell]
      /\ since' = IF c = target THEN since \cup {source'[c]} ELSE since
      /\ UNCHANGED <<etl, surface, installed, surfacePath, pc, target, removing, held, active, script,
                     attempt, scriptsError, response>>
  BY DEF Edit
<1>2. UNCHANGED <<page, behind, lagging, detail, scripts>>
  BY <1>1 DEF surface
<1>3. Control' /\ SurfaceInv'
  BY <1>1, <1>2, SameSurface DEF IInv, Control
<1>4. source' \in [Containers -> [Entities -> Cells \cup {None}]]
  BY <1>1 DEF IInv, SourcesInv
<1>5. SourcesInv'
  BY <1>1, <1>4 DEF IInv, SourcesInv
<1>6. pc # "idle" => source'[target] \in since'
  <2>1. CASE c = target
    BY <1>1, <2>1
  <2>2. CASE c # target
    <3>1. target \in Containers
      BY DEF IInv, Control
    <3>2. source'[target] = source[target]
      BY <1>1, <2>2, <3>1 DEF IInv, SourcesInv
    <3> QED BY <1>1, <2>2, <3>2 DEF IInv, GraphInv
  <2> QED BY <2>1, <2>2
<1>7. since \subseteq since'
  BY <1>1
<1> QED BY <1>1, <1>2, <1>3, <1>5, <1>6, <1>7, WaitStep

\* The package is upgraded between two commands only.
LEMMA UpgradeStep ==
    ASSUME IInv, Upgrade
    PROVE  IInv'
<1>1. /\ pc = "idle" /\ installed' = installed + 1
      /\ UNCHANGED <<source, etl, surface, surfacePath, process>>
  BY DEF Upgrade
<1>2. /\ UNCHANGED <<page, behind, lagging, detail, scripts>>
      /\ UNCHANGED <<pc, target, removing, held, active, script, attempt, scriptsError, since, response>>
  BY <1>1 DEF surface, process
<1>3. Control' /\ SourcesInv'
  BY <1>1, <1>2 DEF IInv, Control, SourcesInv
<1>4. SurfaceInv'
  BY <1>1, SameSurface DEF IInv
<1> QED BY <1>1, <1>2, <1>3, <1>4, IdleStep

-----------------------------------------------------------------------------
(* The theorems.                                                           *)

\* A project before its first view command.
LEMMA InvInit ==
    ASSUME Init
    PROVE  IInv
<1>1. /\ pc = "idle" /\ lagging = {} /\ target \in Containers /\ removing = "page"
      /\ active = 0 /\ script = 0 /\ attempt = 1 /\ response = "none" /\ surfacePath = None
      /\ installed \in 0 .. 1
  BY DEF Init
<1>2. held \in BOOLEAN /\ scriptsError \in BOOLEAN
  BY DEF Init
<1>3. Control
  BY <1>1, <1>2, SurfaceAssumption DEF Control, Last, Scripts
<1>4. SourcesInv
  BY DEF Init, SourcesInv
<1>5. SurfaceInv
  BY DEF Init, SurfaceInv, NoScripts
<1> QED BY <1>1, <1>3, <1>4, <1>5
    DEF IInv, GraphInv, Past, PageInv, Removed, DetailInv, ScriptInv

\* Every state of the script chart writes its script.
LEMMA ScriptChartStep ==
    ASSUME IInv, ScriptChart
    PROVE  IInv'
<1>1. \E n \in 1 .. Scripts : GenerateScript(n)
  BY DEF ScriptChart, I18nScriptGenerated, GraphReaderScriptGenerated, CsvPreviewScriptGenerated,
     ContainerConnectionScriptGenerated, ConnectionStateScriptGenerated,
     AnnotationBridgeScriptGenerated, PyodideRuntimeScriptGenerated, LinksetOperationsScriptGenerated,
     FileCategoryScriptGenerated, DimensionCardScriptGenerated, Scripts
<1> QED BY <1>1, GenerateScriptStep

\* Every step keeps the inductive invariant.
LEMMA InvStep ==
    ASSUME IInv, [Next]_vars
    PROVE  IInv'
<1>1. CASE Step
  BY <1>1, StartStep, RemoveStep, RetryStep, EndSteps, BeginStep, PackageStep, DataGatheredStep,
     SurfaceInitializedStep, SurfaceEnrichedStep, SurfaceSetStep, SurfaceMatchedStep,
     SurfaceOperationalMatchedStep, SurfaceAssembledStep, SurfacePackagedStep, SurfaceValidatedStep,
     RequireCheckStep, EntityViewsPublishedStep, ScriptChartStep, ScriptsEndStep, MarkPublishedStep
     DEF Step
<1>2. CASE Environment
  BY <1>2, EndSteps, ScriptsEndStep, FileSystemStep, EditStep, UpgradeStep DEF Environment
<1>3. CASE UNCHANGED vars
  <2>1. /\ UNCHANGED <<source, etl, surface, installed, surfacePath>>
        /\ UNCHANGED <<pc, target, removing, held, active, script, attempt, scriptsError, since,
                       response>>
    BY <1>3 DEF vars, files, process
  <2>2. UNCHANGED <<page, behind, lagging, detail, scripts>>
    BY <2>1 DEF surface
  <2>3. Control' /\ SourcesInv' /\ SurfaceInv'
    BY <2>1, <2>2, SameSources, SameSurface DEF IInv, Control
  <2> QED BY <2>1, <2>2, <2>3, WaitStep DEF IInv, GraphInv
<1> QED BY <1>1, <1>2, <1>3 DEF Next

\* The inductive invariant of ontobdc view: at each state of the chart index.html is
\* exactly the document of that state for the graph the command gathered, a read that
\* lags returns the one before, and no runtime script is newer than index.html until the
\* script chart has written it.
THEOREM SurfaceInvariance == Spec => []IInv
<1>1. Init => IInv
  BY InvInit
<1>2. IInv /\ [Next]_vars => IInv'
  BY InvStep
<1> QED BY <1>1, <1>2, PTL DEF Spec

\* The type invariant of the Surface: the chart and its counters stay in range, and every
\* index.html, also one that was cut, is a document of a known container.
THEOREM SurfaceTypeCorrect == Spec => []TypeOK
<1>1. IInv => TypeOK
  BY DEF IInv, Control, SurfaceInv, Sound, TypeOK
<1> QED BY <1>1, SurfaceInvariance, PTL

\* Once the script chart has ended without an error, every runtime script is the one of
\* the installed package: each write of index.html outdates the scripts that were there,
\* so script_is_fresh keeps none of an earlier version or of a killed run.
THEOREM ScriptsAreCurrent == Spec => []ScriptsCurrent
<1>1. IInv => ScriptsCurrent
  BY DEF IInv, ScriptInv, Current, ScriptsCurrent, Here
<1> QED BY <1>1, SurfaceInvariance, PTL

\* A column envelope is in order for every component and every length of text.
LEMMA EnvelopeInOrder ==
    ASSUME NEW k \in Components, NEW n \in Nat
    PROVE  InOrder(SizeEnvelope(k, n))
<1>1. /\ k.minColumns \in Nat /\ k.chars \in Nat /\ k.chars > 0 /\ k.maxColumns \in Nat \cup {None}
  BY SurfaceAssumption
<1>2. Columns(n, k.chars) \in Int
  BY <1>1 DEF Columns
<1> DEFINE wanted == IF n = 0 THEN k.minColumns ELSE Larger(k.minColumns, Columns(n, k.chars))
           preferred == IF k.maxColumns = None THEN wanted ELSE Smaller(wanted, k.maxColumns)
<1>3. wanted \in Int
  BY <1>1, <1>2 DEF Larger
<1>4. SizeEnvelope(k, n) =
        [min |-> Smaller(k.minColumns, preferred), preferred |-> preferred,
         max |-> IF k.maxColumns = None THEN preferred ELSE k.maxColumns]
  BY DEF SizeEnvelope
<1> HIDE DEF wanted
<1>5. preferred \in Int /\ (k.maxColumns # None => preferred <= k.maxColumns)
  BY <1>1, <1>3 DEF Smaller
<1> HIDE DEF preferred
<1>6. Smaller(k.minColumns, preferred) <= preferred
  BY <1>1, <1>5 DEF Smaller
<1> QED BY <1>4, <1>5, <1>6 DEF InOrder

\* normalize_matches never rejects a tile for an entity: the envelope that is computed
\* from the length of its text is in order, for every Component and whatever the owner
\* makes of the sources.
THEOREM EnvelopesAlwaysFit == Spec => []EnvelopesFit
<1>1. ASSUME IInv PROVE EnvelopesFit
  <2>1. SUFFICES ASSUME NEW c \in Containers, NEW k \in Components, NEW e \in Entities,
                        source[c][e] # None
                 PROVE  InOrder(SizeEnvelope(k, FieldValue(source[c][e])))
    BY DEF EnvelopesFit
  <2>2. source[c][e] \in [own : Nat, row : Nat]
    BY <1>1, <2>1, SurfaceAssumption DEF IInv, SourcesInv
  <2>3. FieldValue(source[c][e]) \in Nat
    BY <2>2 DEF FieldValue
  <2> QED BY <2>3, EnvelopeInOrder
<1> QED BY <1>1, SurfaceInvariance, PTL

\* When the command ends, the index.html it wrote, which lies where surface_path says, is
\* finished for one state of its container's sources, and so are the entity pages there.
FinishedWhereWritten ==
    pc = "respond" =>
      \E s \in since :
        LET graph == GraphOf(target, s)
        IN /\ Finished(page[Here], graph)
           /\ \A e \in WorkStreams \cap DOMAIN graph.size : detail[Here][e] = graph.size[e]

\* For every number of containers.
THEOREM FinishedWhereItIsWritten == Spec => []FinishedWhereWritten
<1>1. ASSUME IInv PROVE FinishedWhereWritten
  <2>1. SUFFICES ASSUME pc = "respond" PROVE FinishedWhereWritten
    BY DEF FinishedWhereWritten
  <2>2. PICK s \in since : etl[target] = GraphOf(target, s)
    BY <1>1, <2>1 DEF IInv, GraphInv, Past
  <2> DEFINE graph == GraphOf(target, s)
  <2>3. page[Here] = Doc(12, graph)
    BY <1>1, <2>1, <2>2 DEF IInv, PageInv
  <2>4. \A e \in WorkStreams \cap DOMAIN graph.size : detail[Here][e] = graph.size[e]
    BY <1>1, <2>1, <2>2 DEF IInv, DetailInv
  <2> HIDE DEF graph
  <2>5. Doc(12, graph) = Record(12, Host, graph, "scroll", AllMatches(graph), Layouts,
                                AllMatches(graph), RequiredTags(AllMatches(graph)))
    BY Documents
  <2>6. Finished(page[Here], graph)
    BY <2>3, <2>5, SurfaceAssumption DEF Finished, Record, Host
  <2> QED BY <2>4, <2>6 DEF FinishedWhereWritten, graph
<1> QED BY <1>1, SurfaceInvariance, PTL

\* In a project of one container: when the command opens index.html, every section of it
\* and every work-stream page derive from one state the sources had while the command ran.
\* With a sibling, surface_path of an earlier command decides where index.html is written.
THEOREM FinishedPageIsCurrent ==
    ASSUME NEW C, Containers = {C}
    PROVE  Spec => []FinishedIsCurrent
<1>1. ASSUME IInv, FinishedWhereWritten PROVE FinishedIsCurrent
  <2>1. Here = target
    BY <1>1, HereIsContainer DEF IInv, Control
  <2> QED BY <1>1, <2>1 DEF FinishedIsCurrent, FinishedWhereWritten
<1> QED BY <1>1, SurfaceInvariance, FinishedWhereItIsWritten, PTL

\* Once a command has removed what an earlier one left, what it reads of index.html is the
\* whole document of one of its own states.
LEMMA OwnDocument ==
    ASSUME IInv, pc \notin {"idle", "remove"}, Read(Here) # None
    PROVE  \E n \in 4 .. 12 : Read(Here) = Doc(n, etl[target])
<1>1. Read(Here) \in {page[Here], behind[Here]}
  BY DEF Read
<1>2. CASE pc = "begin" \/ (pc = "work" /\ active <= 3)
  BY <1>1, <1>2 DEF IInv, PageInv, Removed
<1>3. CASE pc = "work" /\ ~(active <= 3)
  <2>1. active \in 4 .. 11 /\ Read(Here) = Doc(active, etl[target])
    BY <1>3 DEF IInv, Control, PageInv, Last, Read
  <2> QED BY <2>1
<1>4. CASE pc = "require"
  <2>1. /\ active \in 3 .. 10 /\ page[Here] = Doc(active + 1, etl[target])
        /\ behind[Here] = IF active = 3 THEN None ELSE Doc(active, etl[target])
    BY <1>4 DEF IInv, PageInv
  <2>2. CASE Read(Here) = page[Here]
    BY <2>1, <2>2
  <2>3. CASE Read(Here) = behind[Here]
    BY <2>1, <2>3
  <2> QED BY <1>1, <2>2, <2>3
<1>5. CASE pc \in {"scripts", "mark"}
  BY <1>5 DEF IInv, PageInv, Read
<1>6. CASE pc = "respond"
  BY <1>1, <1>6 DEF IInv, PageInv
<1> QED BY <1>2, <1>3, <1>4, <1>5, <1>6 DEF IInv, Control

\* Where evaluate finds surface_validated, index.html has its host element and all of its
\* matches as tiles, wherever an earlier write was cut, also in its scripts; and once the
\* command has removed what an earlier one left, also the scripts of all of them.
ObservedIsComplete ==
    LET d == Read(Here)
    IN Observed(Here) >= 11 =>
         /\ d.host /\ d.tiles = d.matches /\ d.jsonld.owner \in Containers
         /\ pc \notin {"idle", "remove"} => RequiredTags(d.matches) \subseteq d.runtime

\* For every number of containers.
THEOREM ObservedStateIsComplete == Spec => []ObservedIsComplete
<1>1. ASSUME IInv PROVE ObservedIsComplete
  <2>1. SUFFICES ASSUME Observed(Here) >= 11 PROVE ObservedIsComplete
    BY DEF ObservedIsComplete
  <2> DEFINE d == Read(Here)
  <2>2. CheckState(Here, 11)
    BY <2>1, ObservedChecks DEF Last
  <2>3. d # None /\ HasSections(d, 10)
    BY <2>2 DEF CheckState
  <2>4. Here \in Containers
    BY <1>1, HereIsContainer DEF IInv
  <2>5. Sound(d)
    BY <1>1, <2>3, <2>4 DEF IInv, SurfaceInv, Read
  <2>6. ASSUME pc \notin {"idle", "remove"} PROVE \E n \in 4 .. 12 : d = Doc(n, etl[target])
    BY <1>1, <2>3, <2>6, OwnDocument
  <2> HIDE DEF d
  <2>7. d.host /\ d.jsonld # None /\ d.runtime # None
    BY <2>3 DEF HasSections, HasInitializedSurface, HasJsonld, HasPackagedRuntime
  <2>8. d.jsonld.owner \in Containers
    BY <2>5, <2>7 DEF Sound, IsDocument
  <2>9. d.tiles = d.matches
    BY <2>5, <2>7 DEF Sound, Complete
  <2>10. ASSUME pc \notin {"idle", "remove"} PROVE RequiredTags(d.matches) \subseteq d.runtime
    <3>1. PICK n \in 4 .. 12 : d = Doc(n, etl[target])
      BY <2>6, <2>10
    <3>2. n \in 10 .. 12
      BY <2>7, <3>1 DEF Doc, Record
    <3>3. d = Record(n, Host, etl[target], "scroll", AllMatches(etl[target]), Layouts,
                     AllMatches(etl[target]), RequiredTags(AllMatches(etl[target])))
      BY <3>1, <3>2, Documents
    <3> QED BY <3>3 DEF Record
  <2> QED BY <2>7, <2>8, <2>9, <2>10 DEF ObservedIsComplete, d
<1> QED BY <1>1, SurfaceInvariance, PTL

\* In a project of one container the document from which surface_validated is inferred is
\* also the container's own.
THEOREM ObservedStateIsTrue ==
    ASSUME NEW C, Containers = {C}
    PROVE  Spec => []ObservedIsTrue
<1>1. ASSUME IInv, ObservedIsComplete PROVE ObservedIsTrue
  <2>1. target \in Containers
    BY <1>1 DEF IInv, Control
  <2> QED BY <1>1, <2>1 DEF ObservedIsTrue, ObservedIsComplete, Here
<1> QED BY <1>1, SurfaceInvariance, ObservedStateIsComplete, PTL
=============================================================================
