--------------------------- MODULE MCCaptureSpool ---------------------------
(* Model-checking instances of CaptureSpool: one session that reads up to    *)
(* three times, twice or not at all.                                         *)
EXTENDS CaptureSpoolInvariant, CaptureImport

CONSTANT s1

OneReads3 == [s \in {s1} |-> 3]
OneReads2 == [s \in {s1} |-> 2]
NoReads == [s \in {s1} |-> 0]
=============================================================================
