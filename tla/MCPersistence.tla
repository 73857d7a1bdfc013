--------------------------- MODULE MCPersistence ---------------------------
(* Small instances of Persistence: every constant is a number, given in    *)
(* the cfg.                                                                *)
EXTENDS Persistence
=============================================================================
