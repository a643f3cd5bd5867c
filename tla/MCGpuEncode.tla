---------------------------- MODULE MCGpuEncode ----------------------------
(* Small instances of GpuEncode: at most two encoders, of which the first may *)
(* be paused.                                                                *)
EXTENDS GpuEncode

CONSTANTS e1, e2, Pauses1

PausesOfFirst == [e \in Encoders |-> IF e = e1 THEN Pauses1 ELSE 0]
=============================================================================
