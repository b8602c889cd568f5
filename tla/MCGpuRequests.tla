---------------------------- MODULE MCGpuRequests ----------------------------
(* Small instances of GpuRequests.  The requests of different ids share      *)
(* nothing but the mutex, so that one id and several callers are enough.     *)
EXTENDS GpuRequests
=============================================================================
