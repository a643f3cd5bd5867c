------------------------------ MODULE MCVideoIO ------------------------------
(* Small instances of VideoIO.                                             *)
EXTENDS VideoIO

CONSTANTS a, b, c

\* a and b run at half rate, c at full rate.
HalfRate == [p \in Inputs |-> IF p = c THEN 1 ELSE 2]
=============================================================================
