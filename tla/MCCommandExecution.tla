------------------------- MODULE MCCommandExecution -------------------------
(* A small instance of CommandExecution: a query, a capability that catches *)
(* and one that does not; three commands, one of a broken module.        *)
EXTENDS CommandExecution

CONSTANTS query, views, script, view, base, old

MCCommands == <<view, old, base>>

MCMessages ==
    {<<views, "info", "pt">>, <<views, "info", "en">>, <<views, "debug_entry", "en">>,
     <<script, "error", "en">>, <<script, "debug_exception", "pt">>}
=============================================================================
