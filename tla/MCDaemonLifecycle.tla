--------------------------- MODULE MCDaemonLifecycle ---------------------------
(* Three attempts to configure the node over three processes, and one      *)
(* helper that exits of itself: a sign-up retried after a failed one, a    *)
(* restore and a sign-up under way while the daemon shuts down.            *)
EXTENDS DaemonLifecycle
=============================================================================
