-------------------------------- MODULE MCPtp --------------------------------
(* One user beside the sync thread.  The clocks are far enough apart for    *)
(* averages to move, one of them behind.                                    *)
EXTENDS Ptp

MCTheta == -3
MCReal == 2
=============================================================================
