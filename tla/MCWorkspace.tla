---------------------------- MODULE MCWorkspace ----------------------------
(* A workspace of two projects: one with a window that cannot be closed, one with none. *)
EXTENDS Workspace

MCOpened == [p \in Projects |-> IF p = 1 THEN Protected ELSE {}]

=============================================================================
