----------------------------- MODULE MCMetaFile -----------------------------
(* A project for MetaFile: app uses lib, and each has a source of its own. *)
EXTENDS MetaFile

LibSources == <<"b.c", "a.c">>
LibReads == [t \in {"app", "lib"} |-> IF t = "lib" THEN {"a.c"} ELSE {"b.c"}]
LibUses == [t \in {"app", "lib"} |-> IF t = "lib" THEN {} ELSE {"lib"}]
=============================================================================
