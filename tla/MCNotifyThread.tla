--------------------------- MODULE MCNotifyThread ---------------------------
(***************************************************************************)
(* NotifyThread for TLC: the faults of its runs.                           *)
(***************************************************************************)
EXTENDS NotifyThread

\* Every fault but the one after which the thread hangs in its cleanup, and
\* the one after which requests outlive it.  FlushQueue fails on a closed file.
NoHangFaults == FaultKinds \ {"requeue", "flush"}
RequeueFault == {"requeue"}
=============================================================================
