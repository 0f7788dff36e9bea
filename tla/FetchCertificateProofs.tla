----------------------- MODULE FetchCertificateProofs -----------------------
(***************************************************************************)
(* Proofs about FetchCertificate: the certificate and the key that a call  *)
(* of fetch._obtain_certificate returns belong together, and a pair in     *)
(* place stays, for any number of processes, restarts and interruptions.   *)
(*                                                                         *)
(* Neither property is inductive: what is in the two final files depends   *)
(* on what the renames find in the two temporary ones, which earlier calls *)
(* may have left there.  The invariant says how far the files agree at     *)
(* every point of a generation, and that the key never comes before the    *)
(* certificate, which is why looking for both is enough.                   *)
(***************************************************************************)
EXTENDS FetchCertificate, TLAPS

\* No two processes generate at the same time.
OneGenerates == \A p, q \in Processes : Generating(p) /\ Generating(q) => p = q

\* The certificate is renamed first: a key never stands alone.  One that is
\* there is that of the certificate, and has no pass phrase.
Paired == key # NoKey => cert # NoCert /\ cert = key.id /\ ~key.encrypted

\* A generation only starts without a pair, hence without a key; each of its
\* steps finds in the temporary files what its own last step has left there.
Progress(p) ==
  /\ Generating(p) => key = NoKey
  /\ pc[p] \in {"rsa", "req", "rename cert", "rename key"} => keyTmp # NoKey
  /\ pc[p] \in {"req", "rename cert", "rename key"} => ~keyTmp.encrypted
  /\ pc[p] = "rename cert" => certTmp = keyTmp.id
  /\ pc[p] = "rename key" => cert = keyTmp.id

\* The inductive invariant: all of this holds until two generations overlap.
PairInv ==
  /\ TypeOK
  /\ ~overlap => OneGenerates /\ Paired /\ \A p \in Processes : Progress(p)
-----------------------------------------------------------------------------
\* The disjuncts of Next in the form the proofs below go through.
LEMMA NextCases ==
  ASSUME [Next]_vars
  PROVE  \/ \E p \in Processes :
              \/ Check(p) \/ GenerateKey(p) \/ DecryptKey(p) \/ MakeCertificate(p)
              \/ RenameCertificate(p) \/ RenameKey(p) \/ End(p) \/ Restart(p)
         \/ UNCHANGED vars
BY DEF Next

\* The number of no key is one that a certificate or the count of keys can have.
LEMMA Numbers == MaxKeys \in Nat /\ 0 \in 0..MaxKeys /\ \A i \in 1..MaxKeys : i \in 0..MaxKeys
BY CertificateAssumption

\* What a key file holds: nothing, or a key with a number of its own.
LEMMA KeyFacts ==
  ASSUME NEW k \in KeyFile, k # NoKey
  PROVE  /\ k.id \in 1..MaxKeys /\ k.id # NoCert /\ k.encrypted \in BOOLEAN
         /\ [k EXCEPT !.encrypted = FALSE] \in KeyFile
         /\ [k EXCEPT !.encrypted = FALSE] # NoKey
         /\ ~[k EXCEPT !.encrypted = FALSE].encrypted
<1>1. k \in [id : Keys, encrypted : BOOLEAN]
  BY DEF KeyFile
<1>2. k.id \in 1..MaxKeys /\ k.id # 0 /\ k.encrypted \in BOOLEAN
  BY <1>1 DEF Keys
<1> DEFINE plain == [k EXCEPT !.encrypted = FALSE]
<1>3. plain \in [id : Keys, encrypted : BOOLEAN] /\ plain.id = k.id /\ ~plain.encrypted
  BY <1>1 DEF Keys
<1>. QED
  BY <1>2, <1>3 DEF KeyFile, NoKey, NoCert

\* A step of a process does nothing to what the others are doing.
LEMMA OthersStay ==
  ASSUME pc \in [Processes -> PCs], NEW p \in Processes, NEW next, Go(p, next)
  PROVE  /\ pc'[p] = next
         /\ \A q \in Processes \ {p} : pc'[q] = pc[q]
BY DEF Go

\* Each step keeps every variable in its type.
LEMMA TypeStep == TypeOK /\ [Next]_vars => TypeOK'
<1> SUFFICES ASSUME TypeOK, [Next]_vars PROVE TypeOK'
  OBVIOUS
<1> USE Numbers DEF TypeOK
<1>1. ASSUME NEW p \in Processes, Check(p) PROVE TypeOK'
  <2>1. pc' \in [Processes -> PCs]
    BY <1>1 DEF Check, Found, Go, PCs
  <2>. QED
    BY <1>1, <2>1 DEF Check, Found, files
<1>2. ASSUME NEW p \in Processes, GenerateKey(p) PROVE TypeOK'
  <2>0. pc' \in [Processes -> PCs]
    BY <1>2 DEF GenerateKey, Go, PCs
  <2>1. made' \in 1..MaxKeys
    BY <1>2 DEF GenerateKey
  <2>2. keyTmp' \in KeyFile
    BY <1>2, <2>1 DEF GenerateKey, KeyFile, Keys
  <2>. QED
    BY <1>2, <2>0, <2>1, <2>2 DEF GenerateKey
<1>3. ASSUME NEW p \in Processes, DecryptKey(p) PROVE TypeOK'
  <2>1. keyTmp' \in KeyFile
    BY <1>3, KeyFacts DEF DecryptKey
  <2>2. pc' \in [Processes -> PCs]
    BY <1>3 DEF DecryptKey, Go, PCs
  <2>. QED
    BY <1>3, <2>1, <2>2 DEF DecryptKey
<1>4. ASSUME NEW p \in Processes, MakeCertificate(p) PROVE TypeOK'
  <2>0. keyTmp.id \in 1..MaxKeys
    BY <1>4, KeyFacts DEF MakeCertificate
  <2>1. certTmp' \in 0..MaxKeys
    BY <1>4, <2>0 DEF MakeCertificate
  <2>2. pc' \in [Processes -> PCs]
    BY <1>4 DEF MakeCertificate, Go, PCs
  <2>. QED
    BY <1>4, <2>1, <2>2 DEF MakeCertificate
<1>5. ASSUME NEW p \in Processes, RenameCertificate(p) PROVE TypeOK'
  <2>1. pc' \in [Processes -> PCs]
    BY <1>5 DEF RenameCertificate, Go, PCs
  <2>2. cert' \in 0..MaxKeys /\ certTmp' \in 0..MaxKeys
    BY <1>5 DEF RenameCertificate, NoCert
  <2>. QED
    BY <1>5, <2>1, <2>2 DEF RenameCertificate
<1>6. ASSUME NEW p \in Processes, RenameKey(p) PROVE TypeOK'
  BY <1>6 DEF RenameKey, Go, PCs, KeyFile
<1>7. ASSUME NEW p \in Processes, End(p) \/ Restart(p) PROVE TypeOK'
  BY <1>7 DEF End, Restart, Go, PCs, files
<1>8. CASE UNCHANGED vars
  BY <1>8 DEF vars, files
<1>. QED
  BY <1>1, <1>2, <1>3, <1>4, <1>5, <1>6, <1>7, <1>8, NextCases

\* A process that generates is alone: what it does to the temporary files no
\* other process was relying on.
LEMMA Alone ==
  ASSUME OneGenerates, pc \in [Processes -> PCs],
         NEW p \in Processes, Generating(p), NEW next, Go(p, next)
  PROVE  /\ \A q \in Processes \ {p} : ~Generating(q) /\ ~Generating(q)' /\ pc'[q] = pc[q]
         /\ OneGenerates'
<1>1. \A q \in Processes \ {p} : ~Generating(q) /\ pc'[q] = pc[q]
  BY OthersStay DEF OneGenerates
<1>2. \A q \in Processes \ {p} : ~Generating(q)'
  BY <1>1 DEF Generating
<1>. QED
  BY <1>1, <1>2 DEF OneGenerates

\* Each step keeps the files in agreement, unless two generations overlap.
LEMMA PairStep == PairInv /\ [Next]_vars => PairInv'
<1> SUFFICES ASSUME PairInv, [Next]_vars, ~overlap'
             PROVE  OneGenerates' /\ Paired' /\ \A p \in Processes : Progress(p)'
  BY TypeStep DEF PairInv
<1>0. TypeOK /\ TypeOK' /\ key \in KeyFile /\ keyTmp \in KeyFile /\ pc \in [Processes -> PCs]
      /\ overlap \in BOOLEAN
  BY TypeStep DEF PairInv, TypeOK
<1>n. ~overlap
  BY <1>0, NextCases
     DEF Check, Found, GenerateKey, DecryptKey, MakeCertificate, RenameCertificate, RenameKey,
         End, Restart, vars
<1>i. OneGenerates /\ Paired /\ \A p \in Processes : Progress(p)
  BY <1>n DEF PairInv
\* The steps of a generation: only the process that takes them is concerned.
<1>g. ASSUME NEW p \in Processes, Generating(p), NEW next, Go(p, next), Paired', Progress(p)'
      PROVE  OneGenerates' /\ Paired' /\ \A q \in Processes : Progress(q)'
  <2>1. OneGenerates' /\ \A q \in Processes \ {p} : ~Generating(q)'
    BY <1>0, <1>i, <1>g, Alone
  <2>2. \A q \in Processes \ {p} : Progress(q)'
    BY <2>1 DEF Generating, Progress
  <2>. QED
    BY <1>g, <2>1, <2>2
<1>1. ASSUME NEW p \in Processes, Check(p)
      PROVE  OneGenerates' /\ Paired' /\ \A q \in Processes : Progress(q)'
  <2>1. UNCHANGED files /\ \A q \in Processes \ {p} : pc'[q] = pc[q]
    BY <1>0, <1>1, OthersStay DEF Check, Found
  <2>2. Paired' /\ \A q \in Processes \ {p} : Progress(q)'
    BY <1>i, <2>1 DEF files, Paired, Progress, Generating
  <2>3. \A q \in Processes \ {p} : Generating(q)' <=> Generating(q)
    BY <2>1 DEF Generating
  <2>4. CASE key # NoKey /\ cert # NoCert
    <3>1. pc'[p] = "done"
      BY <1>0, <1>1, <2>4, OthersStay DEF Check, Found
    <3>2. ~Generating(p)'
      BY <3>1 DEF Generating
    <3>. QED
      BY <1>i, <2>2, <2>3, <3>1, <3>2 DEF OneGenerates, Progress, Generating
  <2>5. CASE ~(key # NoKey /\ cert # NoCert)
    <3>1. pc'[p] = "genrsa" /\ \A q \in Processes \ {p} : ~Generating(q)
      BY <1>0, <1>1, <2>5, OthersStay DEF Check, Found
    <3>2. key' = NoKey
      BY <1>i, <2>1, <2>5 DEF files, Paired
    <3>3. Progress(p)'
      BY <3>1, <3>2 DEF Progress
    <3>. QED
      BY <2>2, <2>3, <3>1, <3>3 DEF OneGenerates
  <2>. QED
    BY <2>4, <2>5
<1>2. ASSUME NEW p \in Processes, GenerateKey(p)
      PROVE  OneGenerates' /\ Paired' /\ \A q \in Processes : Progress(q)'
  <2>1. pc[p] = "genrsa" /\ pc'[p] = "rsa" /\ Go(p, "rsa") /\ UNCHANGED <<key, cert>>
    BY <1>0, <1>2, OthersStay DEF GenerateKey
  <2>2. key = NoKey
    BY <1>i, <2>1 DEF Progress, Generating
  <2>3. keyTmp' # NoKey
    BY <1>2 DEF GenerateKey, NoKey
  <2>4. Progress(p)' /\ Paired' /\ Generating(p)
    BY <2>1, <2>2, <2>3 DEF Progress, Paired, Generating
  <2>. QED
    BY <1>g, <2>1, <2>4
<1>3. ASSUME NEW p \in Processes, DecryptKey(p)
      PROVE  OneGenerates' /\ Paired' /\ \A q \in Processes : Progress(q)'
  <2>1. pc[p] = "rsa" /\ pc'[p] = "req" /\ Go(p, "req") /\ UNCHANGED <<key, cert>>
    BY <1>0, <1>3, OthersStay DEF DecryptKey
  <2>2. key = NoKey
    BY <1>i, <2>1 DEF Progress, Generating
  <2>3. keyTmp' # NoKey /\ ~keyTmp'.encrypted
    BY <1>0, <1>3, KeyFacts DEF DecryptKey
  <2>4. Progress(p)' /\ Paired' /\ Generating(p)
    BY <2>1, <2>2, <2>3 DEF Progress, Paired, Generating
  <2>. QED
    BY <1>g, <2>1, <2>4
<1>4. ASSUME NEW p \in Processes, MakeCertificate(p)
      PROVE  OneGenerates' /\ Paired' /\ \A q \in Processes : Progress(q)'
  <2>1. /\ pc[p] = "req" /\ pc'[p] = "rename cert" /\ Go(p, "rename cert")
        /\ UNCHANGED <<key, cert, keyTmp>> /\ certTmp' = keyTmp.id
    BY <1>0, <1>4, OthersStay DEF MakeCertificate
  <2>2. key = NoKey /\ keyTmp # NoKey /\ ~keyTmp.encrypted
    BY <1>i, <2>1 DEF Progress, Generating
  <2>3. Progress(p)' /\ Paired' /\ Generating(p)
    BY <2>1, <2>2 DEF Progress, Paired, Generating
  <2>. QED
    BY <1>g, <2>1, <2>3
<1>5. ASSUME NEW p \in Processes, RenameCertificate(p)
      PROVE  OneGenerates' /\ Paired' /\ \A q \in Processes : Progress(q)'
  <2>1. /\ pc[p] = "rename cert" /\ pc'[p] = "rename key" /\ Go(p, "rename key")
        /\ UNCHANGED <<key, keyTmp>> /\ cert' = certTmp
    BY <1>0, <1>5, OthersStay DEF RenameCertificate
  <2>2. key = NoKey /\ keyTmp # NoKey /\ ~keyTmp.encrypted /\ certTmp = keyTmp.id
    BY <1>i, <2>1 DEF Progress, Generating
  <2>3. Progress(p)' /\ Paired' /\ Generating(p)
    BY <2>1, <2>2 DEF Progress, Paired, Generating
  <2>. QED
    BY <1>g, <2>1, <2>3
<1>6. ASSUME NEW p \in Processes, RenameKey(p)
      PROVE  OneGenerates' /\ Paired' /\ \A q \in Processes : Progress(q)'
  <2>1. /\ pc[p] = "rename key" /\ pc'[p] = "done" /\ Go(p, "done")
        /\ UNCHANGED cert /\ key' = keyTmp
    BY <1>0, <1>6, OthersStay DEF RenameKey
  <2>2. keyTmp # NoKey /\ ~keyTmp.encrypted /\ cert = keyTmp.id
    BY <1>i, <2>1 DEF Progress
  <2>3. Progress(p)' /\ Generating(p)
    BY <2>1 DEF Progress, Generating
  <2>4. Paired'
    BY <1>0, <2>1, <2>2, KeyFacts DEF Paired
  <2>. QED
    BY <1>g, <2>1, <2>3, <2>4
<1>7. ASSUME NEW p \in Processes, End(p) \/ Restart(p)
      PROVE  OneGenerates' /\ Paired' /\ \A q \in Processes : Progress(q)'
  <2>1. /\ UNCHANGED files /\ pc'[p] \in {"over", "check"}
        /\ \A q \in Processes \ {p} : pc'[q] = pc[q]
    BY <1>0, <1>7, OthersStay DEF End, Restart
  <2>. QED
    BY <1>i, <2>1 DEF files, OneGenerates, Paired, Progress, Generating
<1>8. CASE UNCHANGED vars
  BY <1>i, <1>8 DEF vars, files, OneGenerates, Paired, Progress, Generating
<1>. QED
  BY <1>1, <1>2, <1>3, <1>4, <1>5, <1>6, <1>7, <1>8, NextCases

\* Before the first call there is nothing on the disk.
LEMMA PairStart == Init => PairInv
<1> SUFFICES ASSUME Init PROVE PairInv
  OBVIOUS
<1>1. TypeOK
  BY Numbers DEF Init, TypeOK, KeyFile, PCs, NoCert
<1>2. OneGenerates /\ Paired /\ \A p \in Processes : Progress(p)
  BY DEF Init, OneGenerates, Paired, Progress, Generating
<1>. QED
  BY <1>1, <1>2 DEF PairInv

\* The invariant holds in every state.
LEMMA PairHolds == Spec => []PairInv
BY PairStart, PairStep, PTL DEF Spec

\* The files of _obtain_certificate stay in their types: a key file holds one of
\* the generated keys, or there is none.
THEOREM CertificateTypes == Spec => []TypeOK
<1>1. PairInv => TypeOK
  BY DEF PairInv
<1>. QED
  BY <1>1, PairHolds, PTL

\* _obtain_certificate returns a certificate with the key it was made from,
\* without a pass phrase, whichever calls were interrupted before, as long as no
\* two of them have generated at the same time.
THEOREM MatchingPair == Spec => ReturnsMatchingPair
<1>1. ASSUME PairInv, PairInv', [Next]_vars, NEW p \in Processes,
             ~overlap', pc[p] # "done", pc'[p] = "done"
      PROVE  cert' = key'.id /\ ~key'.encrypted
  <2>0. pc \in [Processes -> PCs] /\ Paired'
    BY <1>1 DEF PairInv, TypeOK
  <2>1. PICK q \in Processes :
          \/ Check(q) \/ GenerateKey(q) \/ DecryptKey(q) \/ MakeCertificate(q)
          \/ RenameCertificate(q) \/ RenameKey(q) \/ End(q) \/ Restart(q)
    BY <1>1, NextCases DEF vars
  <2>2. Check(q) \/ RenameKey(q) \/ \E next \in PCs \ {"done"} : Go(q, next)
    BY <2>1
       DEF GenerateKey, DecryptKey, MakeCertificate, RenameCertificate, End, Restart, PCs
  <2>3. \E next : Go(q, next)
    BY <2>2 DEF Check, Found, RenameKey
  <2>4. q = p
    BY <1>1, <2>0, <2>3, OthersStay
  <2>5. Check(p) \/ RenameKey(p)
    BY <1>1, <2>0, <2>2, <2>4, OthersStay
  <2>6. CASE Check(p)
    <3>1. key # NoKey /\ UNCHANGED key
      BY <1>1, <2>0, <2>6, OthersStay DEF Check, Found, files
    <3>. QED
      BY <2>0, <3>1 DEF Paired
  <2>7. CASE RenameKey(p)
    <3>1. key' # NoKey
      BY <2>7 DEF RenameKey
    <3>. QED
      BY <2>0, <3>1 DEF Paired
  <2>. QED
    BY <2>5, <2>6, <2>7
<1>2. PairInv /\ PairInv' /\ [Next]_vars =>
        [\A p \in Processes :
           ~overlap' /\ pc[p] # "done" /\ pc'[p] = "done" =>
             cert' = key'.id /\ ~key'.encrypted]_vars
  BY <1>1
<1>. QED
  BY <1>2, PairHolds, PTL DEF Spec, ReturnsMatchingPair

\* Once there is a pair, no call of _obtain_certificate touches it, with the same
\* exception: nobody generates, as a generation only goes on without a key.
THEOREM PairStays == Spec => PairIsKept
<1>1. ASSUME PairInv, PairInv', [Next]_vars, ~overlap', key # NoKey, cert # NoCert
      PROVE  UNCHANGED <<key, cert>>
  <2>1. overlap \in BOOLEAN
    BY <1>1 DEF PairInv, TypeOK
  <2>2. ~overlap
    BY <1>1, <2>1, NextCases
       DEF Check, Found, GenerateKey, DecryptKey, MakeCertificate, RenameCertificate, RenameKey,
           End, Restart, vars
  <2>3. \A p \in Processes : ~Generating(p)
    BY <1>1, <2>2 DEF PairInv, Progress
  <2>. QED
    BY <1>1, <2>3, NextCases
       DEF Check, Found, GenerateKey, DecryptKey, MakeCertificate, RenameCertificate, RenameKey,
           End, Restart, Generating, vars, files
<1>2. PairInv /\ PairInv' /\ [Next]_vars =>
        [~overlap' /\ key # NoKey /\ cert # NoCert => UNCHANGED <<key, cert>>]_vars
  BY <1>1
<1>. QED
  BY <1>2, PairHolds, PTL DEF Spec, PairIsKept
=============================================================================
