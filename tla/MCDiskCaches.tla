---------------------------- MODULE MCDiskCaches -----------------------------
(* Two processes, of one build of the renderer or of two, the first with    *)
(* two threads.                                                             *)
EXTENDS DiskCaches

CONSTANTS one, two, w1, w2, w3

AllProcesses == [w \in {w1, w2, w3} |-> IF w = w3 THEN two ELSE one]
=============================================================================
