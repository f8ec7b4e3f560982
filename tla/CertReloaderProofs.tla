------------------------- MODULE CertReloaderProofs -------------------------
(***************************************************************************)
(* For any number of renewals, any keys (also kept ones) and both ways to  *)
(* swap the files: what a handshake is given.                              *)
(***************************************************************************)
EXTENDS CertReloader, TLAPS

\* A generation moves from the disk to the reload that reads it, to the
\* published pair, to a handshake, and never overtakes a later one.
OrderInv ==
    /\ keyFile <= certFile
    /\ certRead <= certFile
    /\ cert <= certFile
    /\ pc \in {"readKey", "compare"} => cert <= certRead
    /\ offered[1] <= cert

\* The published pair and the pair of the last handshake match.
PairInv == X509KeyPair(cert, key) /\ X509KeyPair(offered[1], offered[2])

IInv == TypeOK /\ OrderInv /\ PairInv

\* The pair NewCertReloader loaded parses.
LEMMA InitInv == Init => IInv
BY RenewalAssumption, KeyAssumption
  DEF RenewalAssumption, KeyAssumption, Generations, Init, IInv, TypeOK, OrderInv,
      PairInv, X509KeyPair

\* A reload, a handshake and the operator keep the invariant, and neither the
\* published certificate nor the offered one goes back.
LEMMA NextInv ==
    IInv /\ [Next]_vars => IInv' /\ cert' >= cert /\ offered'[1] >= offered[1]
<1> SUFFICES ASSUME IInv, [Next]_vars
             PROVE  IInv' /\ cert' >= cert /\ offered'[1] >= offered[1]
  OBVIOUS
<1> USE RenewalAssumption, KeyAssumption
    DEF RenewalAssumption, KeyAssumption, Generations, IInv, TypeOK, OrderInv, PairInv,
        diskVars, readVars, pairVars
<1>1. CASE ReadCert
  BY <1>1 DEF ReadCert
<1>2. CASE ReadKey
  BY <1>2 DEF ReadKey
<1>3. CASE ReadFails
  BY <1>3 DEF ReadFails
<1>4. CASE Unchanged
  BY <1>4 DEF Unchanged
<1>5. CASE Publish
  BY <1>5 DEF Publish, Parses, X509KeyPair
<1>6. CASE ParseFails
  BY <1>6 DEF ParseFails
<1>7. CASE WatchCancelled
  BY <1>7 DEF WatchCancelled
<1>8. CASE GetCertificate
  BY <1>8 DEF GetCertificate, X509KeyPair
<1>9. CASE Renew
  BY <1>9 DEF Renew
<1>10. CASE RenewKey
  BY <1>10 DEF RenewKey
<1>11. CASE Vanish
  <2>1. TypeOK'
    BY <1>11 DEF Vanish
  <2> QED
    BY <1>11, <2>1 DEF Vanish
<1>12. CASE Reappear
  BY <1>12 DEF Reappear
<1>13. CASE UNCHANGED vars
  BY <1>13 DEF vars
<1> QED
  BY <1>1, <1>2, <1>3, <1>4, <1>5, <1>6, <1>7, <1>8, <1>9, <1>10, <1>11, <1>12, <1>13
    DEF Next, Reload

LEMMA Invariant == Spec => []IInv
BY InitInv, NextInv, PTL DEF Spec

\* A handshake is given a certificate together with its own private key, however
\* renewals and the two reads of a reload interleave (reload, GetCertificate).
THEOREM PairTheorem == Spec => []HandshakesGetMatchingPairs
<1>1. IInv => HandshakesGetMatchingPairs
  BY DEF IInv, PairInv, HandshakesGetMatchingPairs
<1> QED
  BY <1>1, Invariant, PTL

\* What handshakes are given never goes back to an older certificate (Watch).
THEOREM NoWayBackTheorem == Spec => CertificateNeverGoesBack
<1>1. IInv /\ [Next]_vars => [cert' >= cert /\ offered'[1] >= offered[1]]_vars
  BY NextInv
<1> QED
  BY <1>1, Invariant, PTL DEF Spec, CertificateNeverGoesBack
=============================================================================
