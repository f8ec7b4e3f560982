---------------------------- MODULE CertReloader ----------------------------
(***************************************************************************)
(* The certificate reloader: Watch rereads the certificate and the key at  *)
(* every tick of its interval and publishes a pair that parses, handshakes *)
(* read the published pair, and an operator renews the two files meanwhile.*)
(*                                                                         *)
(* The two files are read one after the other, so a renewal may fall       *)
(* between the reads even if the operator swaps both files at once.        *)
(***************************************************************************)
EXTENDS Integers

CONSTANTS
    Renewals,       \* bound: how often the operator renews the pair
    KeyOf,          \* the private key of each generation of the certificate
    AtomicSwap,     \* both files change at once (a directory symlink)
    MayVanish       \* the files may become unreadable

Generations == 0 .. Renewals

ASSUME RenewalAssumption == Renewals \in Nat
ASSUME KeyAssumption == KeyOf \in [Generations -> Nat]
ASSUME ModeAssumption == AtomicSwap \in BOOLEAN /\ MayVanish \in BOOLEAN

VARIABLES
    certFile,   \* generation of the certificate on disk
    keyFile,    \* generation whose key is on disk
    readable,   \* the files are there
    pc,         \* Watch: "waiting", "readKey", "compare", "cancelled", "failed"
    certRead,   \* the certificate this reload read
    keyRead,    \* the key this reload read
    cert,       \* r.certRaw, and the certificate of r.cert
    key,        \* r.keyRaw, and the key of r.cert
    offered     \* the pair the last handshake was given

diskVars == <<certFile, keyFile, readable>>
readVars == <<certRead, keyRead>>
pairVars == <<cert, key>>
vars == <<diskVars, pc, readVars, pairVars, offered>>

\* tls.X509KeyPair: the public key of the certificate belongs to the key.
X509KeyPair(c, k) == KeyOf[c] = k

\* NewCertReloader loaded generation 0.
Init ==
    /\ certFile = 0
    /\ keyFile = 0
    /\ readable = TRUE
    /\ pc = "waiting"
    /\ certRead = 0
    /\ keyRead = KeyOf[0]
    /\ cert = 0
    /\ key = KeyOf[0]
    /\ offered = <<0, KeyOf[0]>>

-----------------------------------------------------------------------------
(* reload, called by Watch at a tick of its interval.                      *)

ReadCert ==
    /\ pc = "waiting"
    /\ readable
    /\ certRead' = certFile
    /\ pc' = "readKey"
    /\ UNCHANGED <<diskVars, keyRead, pairVars, offered>>

ReadKey ==
    /\ pc = "readKey"
    /\ readable
    /\ keyRead' = KeyOf[keyFile]
    /\ pc' = "compare"
    /\ UNCHANGED <<diskVars, certRead, pairVars, offered>>

\* A file cannot be read: Watch returns the error.
ReadFails ==
    /\ pc \in {"waiting", "readKey"}
    /\ ~readable
    /\ pc' = "failed"
    /\ UNCHANGED <<diskVars, readVars, pairVars, offered>>

\* Mutant: only the keys are compared.
SameKey == keyRead = key

Equal == certRead = cert /\ keyRead = key

\* Mutant: the pair is published as read.
Unverified == TRUE

Parses == X509KeyPair(certRead, keyRead)

Unchanged ==
    /\ pc = "compare"
    /\ Equal
    /\ pc' = "waiting"
    /\ UNCHANGED <<diskVars, readVars, pairVars, offered>>

\* A new pair that parses is published under the lock.
Publish ==
    /\ pc = "compare"
    /\ ~Equal
    /\ Parses
    /\ cert' = certRead
    /\ key' = keyRead
    /\ pc' = "waiting"
    /\ UNCHANGED <<diskVars, readVars, offered>>

\* Mutant: after a failed parse Watch goes back to the pair it started with.
FallBackToFirst ==
    /\ pc = "compare"
    /\ ~Equal /\ ~Parses
    /\ cert' = 0
    /\ key' = KeyOf[0]
    /\ pc' = "waiting"
    /\ UNCHANGED <<diskVars, readVars, offered>>

\* The pair does not parse: Watch returns the error, the old pair stays.
ParseFails ==
    /\ pc = "compare"
    /\ ~Equal
    /\ ~Parses
    /\ pc' = "failed"
    /\ UNCHANGED <<diskVars, readVars, pairVars, offered>>

Reload == ReadCert \/ ReadKey \/ ReadFails \/ Unchanged \/ Publish \/ ParseFails

\* The run group cancels the context of Watch, which looks between reloads.
WatchCancelled ==
    /\ pc = "waiting"
    /\ pc' = "cancelled"
    /\ UNCHANGED <<diskVars, readVars, pairVars, offered>>

\* GetCertificate, for a handshake.
GetCertificate ==
    /\ offered' = <<cert, key>>
    /\ UNCHANGED <<diskVars, pc, readVars, pairVars>>

-----------------------------------------------------------------------------
(* The operator.                                                           *)

Renew ==
    /\ certFile < Renewals
    /\ keyFile = certFile
    /\ certFile' = certFile + 1
    /\ keyFile' = IF AtomicSwap THEN keyFile + 1 ELSE keyFile
    /\ UNCHANGED <<readable, pc, readVars, pairVars, offered>>

RenewKey ==
    /\ keyFile < certFile
    /\ keyFile' = certFile
    /\ UNCHANGED <<certFile, readable, pc, readVars, pairVars, offered>>

Vanish ==
    /\ MayVanish
    /\ readable
    /\ readable' = FALSE
    /\ UNCHANGED <<certFile, keyFile, pc, readVars, pairVars, offered>>

Reappear ==
    /\ ~readable
    /\ readable' = TRUE
    /\ UNCHANGED <<certFile, keyFile, pc, readVars, pairVars, offered>>

Next ==
    \/ Reload \/ WatchCancelled \/ GetCertificate
    \/ Renew \/ RenewKey \/ Vanish \/ Reappear

Spec == Init /\ [][Next]_vars

\* The ticker fires and Watch runs.
LiveSpec == Spec /\ WF_vars(Reload)

-----------------------------------------------------------------------------
TypeOK ==
    /\ certFile \in Generations
    /\ keyFile \in Generations
    /\ readable \in BOOLEAN
    /\ pc \in {"waiting", "readKey", "compare", "cancelled", "failed"}
    /\ certRead \in Generations
    /\ keyRead \in Nat
    /\ cert \in Generations
    /\ key \in Nat
    /\ offered \in Generations \X Nat

\* A handshake is given a certificate together with its own private key, however
\* a renewal and the two reads of a reload interleave (reload, GetCertificate).
HandshakesGetMatchingPairs == X509KeyPair(offered[1], offered[2])

\* What handshakes are given never goes back to an older certificate (Watch).
CertificateNeverGoesBack == [][cert' >= cert /\ offered'[1] >= offered[1]]_vars

\* A finished renewal is picked up, unless Watch was cancelled or gave up on a
\* pair it read halfway (Watch).
RenewalIsPickedUp ==
    \A g \in Generations :
        (certFile = g /\ keyFile = g) ~> (cert >= g \/ pc \in {"cancelled", "failed"})

\* Watch does not give up while the files always hold the old or the new pair.
WatchSurvivesRenewal == pc # "failed"
=============================================================================
