---------------------------- MODULE MCSupervisor ----------------------------
(***************************************************************************)
(* Instances of Supervisor, and what the comments of the code say of it.   *)
(***************************************************************************)
EXTENDS Supervisor

CONSTANTS a

\* core/src/lib.rs: update_node exits non-zero "so the node service's
\* Restart=on-failure brings us back up as the new version".  A node that
\* exited that way, and stays registered, is served again.  (No daemon of an
\* earlier supervisor, killed while it booted, is left to stand in its way.)
UpdateComesBack ==
    \A i \in Id :
        (SupUp /\ Forsaken = {} /\ i \in updated)
            ~> (~ SupUp \/ i \notin cfg \/ i \notin updated \/ ~ CanSpawn(i))

\* core/src/lib.rs: "a node whose .toml is removed is stopped".
RemovalSticks ==
    \A i \in Id :
        (SupUp /\ Forsaken = {} /\ i \notin wanted)
            ~> (~ SupUp \/ i \in wanted \/ \A k \in 1..MaxProc : ~ Running(<<i, k>>))
=============================================================================
