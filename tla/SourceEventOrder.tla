-------------------------- MODULE SourceEventOrder --------------------------
(***************************************************************************)
(* The SupervisorEvents of frame_source.rs and the order they come in.     *)
(***************************************************************************)

Terminal == {"ended", "stopped", "error"}
Events == {"connected", "frame", "reconnecting"} \cup Terminal

\* The events that may follow e, "none" being the start.  A terminal event is
\* the last one.
Follows(e) ==
    CASE e \in {"none", "reconnecting"} -> {"connected", "reconnecting", "stopped", "error"}
      [] e \in {"connected", "frame"}   -> {"frame", "reconnecting"} \cup Terminal
      [] e \in Terminal                 -> {}
=============================================================================
