---------------------------- MODULE MCCoreTasks -----------------------------
(* Two items of configuration, and an input whose measures lie on both       *)
(* sides of the default bounds.                                              *)
EXTENDS CoreTasks

MCRawValues == {1, 5, 9}
=============================================================================
