----------------------------- MODULE MCGpuLease -----------------------------
(* Small instances of the GPU leases for TLC. *)
EXTENDS GpuLease, TLC

CONSTANTS w1, w2, gpu0, gpu1, shared, other
=============================================================================
