-------------------------- MODULE MCTaskLifecycle --------------------------
(* Small instances of TaskLifecycle for TLC. *)
EXTENDS TaskLifecycle, TLC

\* The slots for handlers are interchangeable, and so are the reasons for splits.
Interchangeable == Permutations(Slots) \cup Permutations(Reasons)

\* Bound on what goes wrong in one run: a failing command or a crash, not both.
OneMishap == fails + crashes <= 1
=============================================================================
