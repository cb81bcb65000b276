---------------------------- MODULE MCExecStream ----------------------------
(***************************************************************************)
(* ExecStream on small instances: the sets a run needs are in its cfg.     *)
(***************************************************************************)
EXTENDS ExecStream
=============================================================================
