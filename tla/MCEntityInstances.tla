------------------------- MODULE MCEntityInstances -------------------------
(* A small instance of EntityInstances: one type with a project facade, one *)
(* with a remote one whose only writable field refuses text.               *)
EXTENDS EntityInstances

CONSTANTS WorkStream, Meeting, globalId, name, startsOn

MCLocalFields == [t \in {WorkStream, Meeting} |->
                    IF t = WorkStream THEN {globalId, name, startsOn} ELSE {}]

MCRemoteFields == [t \in {WorkStream, Meeting} |->
                     IF t = WorkStream THEN {globalId, startsOn} ELSE {globalId, startsOn}]

MCRank == [f \in {globalId, name, startsOn} |->
             CASE f = globalId -> 0 [] f = name -> 1 [] f = startsOn -> 2]
=============================================================================
