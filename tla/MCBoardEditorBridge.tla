------------------------- MODULE MCBoardEditorBridge -------------------------
(* Instances of BoardEditorBridge for TLC. *)
EXTENDS BoardEditorBridge

database == [id |-> boardID("box", 1), type |-> "box", kind |-> "database", body |-> 0,
             from |-> none, ink |-> -1]

Board == <<database>>
===============================================================================
