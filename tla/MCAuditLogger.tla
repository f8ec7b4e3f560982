--------------------------- MODULE MCAuditLogger ---------------------------
(* Instances of AuditLogger for TLC.  Handlers are interchangeable, and so  *)
(* are calls of Close; only the run without liveness uses the symmetry.     *)
EXTENDS AuditLogger, TLC

Interchangeable == Permutations(Handlers) \cup Permutations(Closers)
=============================================================================
