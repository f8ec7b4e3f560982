--------------------------- MODULE MCCertReloader ---------------------------
(* Instances of CertReloader for TLC.                                       *)
EXTENDS CertReloader

\* The first renewal keeps the private key, the later ones do not.
KeptOnce == [g \in Generations |-> IF g = 0 THEN 1 ELSE g]

\* Every renewal has a private key of its own.
Fresh == [g \in Generations |-> g]
=============================================================================
