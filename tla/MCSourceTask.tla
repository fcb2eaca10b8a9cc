---------------------------- MODULE MCSourceTask ----------------------------
(***************************************************************************)
(* Instances of SourceTask for TLC.  The clients are interchangeable.      *)
(***************************************************************************)
EXTENDS SourceTask, TLC

Symmetric == Permutations(Clients)
=============================================================================
