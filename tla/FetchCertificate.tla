-------------------------- MODULE FetchCertificate --------------------------
(***************************************************************************)
(* fetch._obtain_certificate: the certificate and the key of the           *)
(* fetch-service, generated once per host in a directory that all craft    *)
(* tools share.  Both are made in temporary files with fixed names by      *)
(* three openssl processes, then renamed one after the other.  Processes   *)
(* can be interrupted between any two of these steps.                      *)
(***************************************************************************)
EXTENDS Naturals

CONSTANTS
  Processes,  \* applications that start the fetch-service
  MaxKeys     \* bound: the keys ever generated

ASSUME CertificateAssumption == MaxKeys \in Nat

\* A key file holds one of the generated keys, encrypted or not; a certificate
\* is named by the key it was made from.
Keys == 1..MaxKeys
NoKey == [id |-> 0, encrypted |-> FALSE]
NoCert == 0

VARIABLES
  key, cert,         \* local-ca.key.pem and local-ca.pem
  keyTmp, certTmp,   \* key-tmp.pem and cert-tmp.pem
  made,              \* how many keys were generated
  pc,
  \* history
  overlap            \* two processes have generated at the same time

files == <<key, cert, keyTmp, certTmp>>
vars == <<files, made, pc, overlap>>

PCs == {"check", "genrsa", "rsa", "req", "rename cert", "rename key", "done", "over"}
Generating(p) == pc[p] \in {"genrsa", "rsa", "req", "rename cert", "rename key"}

Go(p, next) == pc' = [pc EXCEPT ![p] = next]

\* What Check decided: the pair is taken, or a new one is generated.
Found(p, complete) ==
  /\ Go(p, IF complete THEN "done" ELSE "genrsa")
  /\ overlap' = (overlap \/ (~complete /\ \E q \in Processes \ {p} : Generating(q)))
  /\ UNCHANGED <<files, made>>

Init ==
  /\ key = NoKey /\ cert = NoCert /\ keyTmp = NoKey /\ certTmp = NoCert
  /\ made = 0
  /\ pc = [p \in Processes |-> "check"]
  /\ overlap = FALSE

\* Mutant: one of the two files is enough.
CheckEither(p) ==
  /\ pc[p] = "check"
  /\ Found(p, key # NoKey \/ cert # NoCert)

\* Mutant: a new pair on every start.
CheckNothing(p) ==
  /\ pc[p] = "check"
  /\ Found(p, FALSE)

\* cert.is_file() and key.is_file()
Check(p) ==
  /\ pc[p] = "check"
  /\ Found(p, key # NoKey /\ cert # NoCert)

\* openssl genrsa -aes256
GenerateKey(p) ==
  /\ pc[p] = "genrsa" /\ made < MaxKeys
  /\ made' = made + 1
  /\ keyTmp' = [id |-> made', encrypted |-> TRUE]
  /\ Go(p, "rsa")
  /\ UNCHANGED <<key, cert, certTmp, overlap>>

\* Mutant: the file is opened for writing before it is read.
DecryptTruncatedKey(p) ==
  /\ pc[p] = "rsa" /\ keyTmp # NoKey
  /\ keyTmp' = [id |-> 0, encrypted |-> TRUE]
  /\ Go(p, "req")
  /\ UNCHANGED <<key, cert, certTmp, made, overlap>>

\* openssl rsa: the key is written back without its pass phrase.
DecryptKey(p) ==
  /\ pc[p] = "rsa" /\ keyTmp # NoKey
  /\ keyTmp' = [keyTmp EXCEPT !.encrypted = FALSE]
  /\ Go(p, "req")
  /\ UNCHANGED <<key, cert, certTmp, made, overlap>>

\* openssl req -x509: needs a key without a pass phrase.
MakeCertificate(p) ==
  /\ pc[p] = "req" /\ keyTmp # NoKey /\ ~keyTmp.encrypted
  /\ certTmp' = keyTmp.id
  /\ Go(p, "rename cert")
  /\ UNCHANGED <<key, cert, keyTmp, made, overlap>>

RenameCertificate(p) ==
  /\ pc[p] = "rename cert" /\ certTmp # NoCert
  /\ cert' = certTmp /\ certTmp' = NoCert
  /\ Go(p, "rename key")
  /\ UNCHANGED <<key, keyTmp, made, overlap>>

RenameKey(p) ==
  /\ pc[p] = "rename key" /\ keyTmp # NoKey
  /\ key' = keyTmp /\ keyTmp' = NoKey
  /\ Go(p, "done")
  /\ UNCHANGED <<cert, certTmp, made, overlap>>

\* A step raises (a file it needs is missing or unusable, openssl fails), the
\* process is interrupted, or it is done with the certificate.
End(p) ==
  /\ pc[p] # "over"
  /\ Go(p, "over")
  /\ UNCHANGED <<files, made, overlap>>

\* The application is started again later.
Restart(p) ==
  /\ pc[p] = "over"
  /\ Go(p, "check")
  /\ UNCHANGED <<files, made, overlap>>

Next ==
  \E p \in Processes :
    \/ Check(p) \/ GenerateKey(p) \/ DecryptKey(p) \/ MakeCertificate(p)
    \/ RenameCertificate(p) \/ RenameKey(p) \/ End(p) \/ Restart(p)

Spec == Init /\ [][Next]_vars
-----------------------------------------------------------------------------
KeyFile == {NoKey} \cup [id : Keys, encrypted : BOOLEAN]

\* Every variable stays in its type.
TypeOK ==
  /\ key \in KeyFile /\ keyTmp \in KeyFile
  /\ cert \in 0..MaxKeys /\ certTmp \in 0..MaxKeys
  /\ made \in 0..MaxKeys
  /\ pc \in [Processes -> PCs] /\ overlap \in BOOLEAN

\* When _obtain_certificate returns, the certificate it found or made and the
\* key next to it belong together, and the key needs no pass phrase, however
\* often calls were interrupted, unless two of them generated at the same time.
ReturnsMatchingPair ==
  [][\A p \in Processes :
       ~overlap' /\ pc[p] # "done" /\ pc'[p] = "done" =>
         cert' = key'.id /\ ~key'.encrypted]_vars

\* A pair that is in place is never replaced, with the same exception: the
\* fetch-service and the instances that trust the certificate keep working.
PairIsKept ==
  [][~overlap' /\ key # NoKey /\ cert # NoCert => UNCHANGED <<key, cert>>]_vars
=============================================================================
