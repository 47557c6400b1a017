----------------------------- MODULE MCMonitors -----------------------------
(***************************************************************************)
(* Instances of Monitors for TLC.  The times a client monitors play no     *)
(* part in when its registration ends: one interval is enough.             *)
(***************************************************************************)
EXTENDS Monitors

Eight == {800}
=============================================================================
