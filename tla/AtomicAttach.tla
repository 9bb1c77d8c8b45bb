--------------------------- MODULE AtomicAttach ---------------------------
(* What AttachmentMetadataService promises of the graph files it rewrites: *)
(* "either every graph file is updated together, or the backup created at  *)
(* plan-resolution time is restored", and a command that could do neither  *)
(* says so.                                                                *)

VARIABLES
    result,     \* what the command reports
    graphs      \* the graph files, once the command has reported

vars == <<result, graphs>>

Init == result = "pending" /\ graphs = "original"

\* Every file has its new content.
Commit == result = "pending" /\ result' = "attached" /\ graphs' = "rewritten"

\* Every file has the content it had before.
Abort == result = "pending" /\ result' = "refused" /\ graphs' = "original"

\* The command failed, could not put the files back and reports it, or was killed.
Damage == /\ result = "pending"
          /\ result' = "unknown"
          /\ graphs' \in {"original", "rewritten", "mixed"}

Next == Commit \/ Abort \/ Damage

Spec == Init /\ [][Next]_vars
===========================================================================
