---------------------------- MODULE SodCheckProofs ----------------------------
(* Theorems about SodCheck, for any SODs and any digests of files. *)
EXTENDS SodCheck, SequenceTheorems, TLAPS

(* The checks that come after each of these, and the verdict of all. *)
ToAccepted == {"hashes", "accepted"}
ToSerial == {"serial"} \cup ToAccepted
ToEntries == {"entries"} \cup ToSerial
ToIssuer == {"issuer"} \cup ToEntries
ToSignature == {"signature"} \cup ToIssuer
ToKey == {"key"} \cup ToSignature
ToCertificate == {"certificate"} \cup ToKey
ToDigest == {"digest"} \cup ToCertificate
ToAlgorithm == {"algorithm"} \cup ToDigest

(* What was checked is right. *)
Checked ==
  /\ check \in ToAlgorithm => sod.shape = "right" /\ sod.hashes # Missing
  /\ check \in ToCertificate => sod.digest = sod.hashes
  /\ check \in ToKey => sod.certificate # Missing
  /\ check \in ToSignature => sod.certificate.key # Missing /\ sod.certificate.rsa
  /\ check \in ToIssuer => Verified
  /\ check \in ToEntries => Len(sod.issuer) = Len(sod.certificate.entries)
  /\ check \in ToSerial => entry = Len(sod.issuer)
  /\ check \in ToAccepted => sod.serial = Magnitude(sod.certificate.serial)

(* The entries of the name that were compared are the same. *)
Compared ==
  /\ check # "none" => entry \in 0 .. Len(sod.issuer)
  /\ check \notin ToEntries \cup {"refused", "undefined"} => entry = 0
  /\ check \in ToEntries =>
       \A j \in 1 .. entry :
         /\ Len(sod.issuer[j]) > 0 /\ Len(sod.issuer[j][1]) > 1
         /\ sod.issuer[j][1][1] = sod.certificate.entries[j][1]
         /\ sod.issuer[j][1][2] = sod.certificate.entries[j][2]

(* What was read of the list is its first entries, the last of those for a *)
(* data group.                                                             *)
LastAmong(n, dg, hash) ==
  \E j \in 1 .. n :
    /\ DataGroup(sod.hashes[j]) = dg /\ sod.hashes[j][2] = hash
    /\ \A k \in j + 1 .. n : DataGroup(sod.hashes[k]) # dg

ReadSoFar ==
  /\ check \notin ToAccepted \cup {"refused", "undefined"} => listed = 0
  /\ listed \in 0 .. IF sod.hashes = Missing THEN 0 ELSE Len(sod.hashes)
  /\ listed = 0 \/ sod.hashes # Missing
  /\ \A dg \in DOMAIN hashSod : LastAmong(listed, dg, hashSod[dg])
  /\ \A j \in 1 .. listed : DataGroup(sod.hashes[j]) \in DOMAIN hashSod

(* What a verdict rests on. *)
Judged ==
  /\ check = "accepted" =>
       \A dg \in DOMAIN hashSet : Lists(sod, dg, hashSet[dg])
  /\ GenuineIsAccepted

Given == check # "none" => sod \in Sods

SodInv == SodTypeOK /\ Given /\ Checked /\ Compared /\ ReadSoFar /\ Judged

-----------------------------------------------------------------------------
(* The list of hashes, the name and the certificate's name are lists. *)
LEMMA ListsOfSod ==
  ASSUME Given, check # "none"
  PROVE  /\ DOMAIN sod = Parts
         /\ IsList(sod.issuer)
         /\ \A j \in DOMAIN sod.issuer :
              /\ IsList(sod.issuer[j])
              /\ \A k \in DOMAIN sod.issuer[j] : IsList(sod.issuer[j][k])
         /\ sod.hashes # Missing =>
              IsList(sod.hashes) /\ \A j \in DOMAIN sod.hashes : IsPair(sod.hashes[j])
         /\ sod.certificate # Missing =>
              /\ IsList(sod.certificate.entries)
              /\ \A j \in DOMAIN sod.certificate.entries : IsPair(sod.certificate.entries[j])
BY SodsAssumption DEF Given

LEMMA ListIsSeq ==
  ASSUME NEW q, IsList(q)
  PROVE  Len(q) \in Nat /\ DOMAIN q = 1 .. Len(q)
<1>. DEFINE S == {q[j] : j \in DOMAIN q}
<1>1. q \in Seq(S) BY DEF IsList
<1>. HIDE DEF S
<1>. QED  BY <1>1, LenProperties

(* An integer that is not negative and has no 00 before its octets is what *)
(* OpenSSL keeps of it.                                                    *)
LEMMA PlainIsKept ==
  ASSUME NEW c, Plain(c)
  PROVE  Magnitude(c) = c
<1>1. CASE c = <<0>>
  BY <1>1 DEF Magnitude
<1>2. CASE c # <<>> /\ c[1] \in 1 .. 127
  BY <1>2 DEF Magnitude
<1>. QED  BY <1>1, <1>2 DEF Plain

(* Nothing is wrong with the SOD, nor is there anything in it that the     *)
(* code does not take as it is.                                            *)
Faultless(s) == WellFormed(s) /\ Plain(s.serial) /\ SingleValued(s.issuer)

(* Where every set of a name has one attribute, those are the entries.     *)
LEMMA FaultlessName ==
  ASSUME Given, check # "none", Faultless(sod)
  PROVE  /\ Len(sod.issuer) = Len(sod.certificate.entries)
         /\ \A j \in DOMAIN sod.issuer :
              /\ Len(sod.issuer[j]) = 1 /\ Len(sod.issuer[j][1]) = 2
              /\ sod.issuer[j][1] = sod.certificate.entries[j]
<1>. DEFINE c == sod.certificate
<1>1. c # Missing /\ sod.issuer = c.issuer /\ SingleValued(c.issuer) /\ sod \in Sods
  BY DEF Faultless, WellFormed, Signed, Given
<1>2. c.entries = [j \in DOMAIN c.issuer |-> c.issuer[j][1]]
  BY <1>1, SodsAssumption
<1>3. DOMAIN c.entries = DOMAIN sod.issuer
      /\ \A j \in DOMAIN sod.issuer : sod.issuer[j][1] = c.entries[j]
  BY <1>1, <1>2
<1>4. IsList(sod.issuer) /\ IsList(c.entries)
      /\ \A j \in DOMAIN c.entries : IsPair(c.entries[j])
  BY <1>1, ListsOfSod
<1>5. Len(sod.issuer) \in Nat /\ DOMAIN sod.issuer = 1 .. Len(sod.issuer)
      /\ Len(c.entries) \in Nat /\ DOMAIN c.entries = 1 .. Len(c.entries)
  BY <1>4, ListIsSeq
<1>6. Len(sod.issuer) = Len(c.entries)
  BY <1>3, <1>5
<1>7. ASSUME NEW j \in DOMAIN sod.issuer
      PROVE  Len(sod.issuer[j]) = 1 /\ Len(sod.issuer[j][1]) = 2
  <2>1. Len(sod.issuer[j]) = 1
    BY <1>1 DEF SingleValued
  <2>2. IsPair(sod.issuer[j][1])
    BY <1>3, <1>4
  <2>. QED  BY <2>1, <2>2 DEF IsPair
<1>. QED  BY <1>3, <1>6, <1>7

(* The data of the call stays, and so does what is known of it. *)
LEMMA DataStays ==
  ASSUME SodInv, check # "none", UNCHANGED <<sod, hashSet, entry, hashSod, listed>>
  PROVE  /\ sod' = sod /\ sod \in Sods
         /\ (\A dg \in DOMAIN hashSod : LastAmong(listed, dg, hashSod[dg]))'
         /\ (\A j \in 1 .. listed : DataGroup(sod.hashes[j]) \in DOMAIN hashSod)'
BY DEF SodInv, Given, ReadSoFar, LastAmong

LEMMA SodInitInv == SodInit => SodInv
BY DEF SodInit, SodInv, SodTypeOK, Given, Checked, Compared, ReadSoFar, Judged,
       GenuineIsAccepted, ToAlgorithm, ToDigest, ToCertificate, ToKey, ToSignature,
       ToIssuer, ToEntries, ToSerial, ToAccepted

LEMMA VerifySodInv ==
  ASSUME SodInv, VerifySod
  PROVE  SodInv'
<1>1. check = "none" /\ check' = "structure" /\ sod' \in Sods
      /\ UNCHANGED <<entry, hashSod, listed>>
  BY DEF VerifySod
<1>2. entry = 0 /\ listed = 0
  BY <1>1 DEF SodInv, Compared, ReadSoFar, ToAccepted, ToSerial, ToEntries
<1>3. Given'
  BY <1>1 DEF Given
<1>4. DOMAIN sod' = Parts /\ Len(sod'.issuer) \in Nat
      /\ (sod'.hashes # Missing => Len(sod'.hashes) \in Nat)
  BY <1>1, SodsAssumption, ListIsSeq
<1>5. SodTypeOK'
  BY <1>1, <1>2, <1>4 DEF SodTypeOK
<1>6. ReadSoFar'
  <2>1. \A dg \in DOMAIN hashSod : FALSE
    BY <1>2 DEF SodInv, ReadSoFar, LastAmong
  <2>. QED  BY <1>1, <1>2, <1>4, <2>1 DEF ReadSoFar, ToAccepted
<1>7. Checked' /\ Compared' /\ Judged'
  BY <1>1, <1>2, <1>4 DEF Checked, Compared, Judged, GenuineIsAccepted, ToAlgorithm,
     ToDigest, ToCertificate, ToKey, ToSignature, ToIssuer, ToEntries, ToSerial, ToAccepted
<1>. QED  BY <1>3, <1>5, <1>6, <1>7 DEF SodInv

(* A check that passes or not, and moves nothing.  What is left to show is *)
(* that it checked what it is there for, and refused nothing genuine.      *)
LEMMA JudgingInv ==
  ASSUME SodInv, check \notin {"none", "accepted", "refused", "undefined"},
         UNCHANGED <<sod, hashSet, entry, hashSod, listed>>,
         check' \in {"algorithm", "digest", "certificate", "key", "signature",
                     "issuer", "entries", "serial", "hashes", "accepted", "refused", "undefined"},
         check' \in ToAccepted \cup {"refused", "undefined"} \/ check \notin ToAccepted,
         check' \in ToEntries \cup {"refused", "undefined"} \/ check \notin ToEntries,
         Checked', Judged'
  PROVE  SodInv'
<1>1. SodTypeOK' /\ Given'
  BY DEF SodInv, SodTypeOK, Given
<1>2. Compared'
  BY DEF SodInv, Compared
<1>3. ReadSoFar'
  BY DataStays DEF SodInv, ReadSoFar, ToAccepted
<1>. QED  BY <1>1, <1>2, <1>3 DEF SodInv

(* Nothing that is well formed is refused on the way to the hashes. *)
LEMMA EarlyJudged ==
  ASSUME UNCHANGED sod, check' # "accepted",
         check' \in {"refused", "undefined"} => ~Faultless(sod)
  PROVE  Judged'
BY DEF Judged, GenuineIsAccepted, Faultless

LEMMA EarlyInv ==
  ASSUME SodInv,
         \/ CheckStructure \/ CheckAlgorithm \/ CheckDigest \/ CheckCertificate
         \/ CheckKey \/ CheckSignature \/ CheckIssuerLength \/ EntriesMatch
  PROVE  SodInv'
<1>. USE DEF Pass, Judge, ToAlgorithm, ToDigest, ToCertificate, ToKey, ToSignature, ToIssuer,
         ToEntries, ToSerial, ToAccepted
<1>1. CASE CheckStructure
  <2>1. Checked' /\ (check' \in {"refused", "undefined"} => ~Faultless(sod))
    BY <1>1, MissingAssumption DEF CheckStructure, SodInv, Checked, Faultless, WellFormed
  <2>. QED  BY <1>1, <2>1, EarlyJudged, JudgingInv DEF CheckStructure
<1>2. CASE CheckAlgorithm
  <2>1. Checked' /\ (check' \in {"refused", "undefined"} => ~Faultless(sod))
    BY <1>2 DEF CheckAlgorithm, SodInv, Checked, Faultless, WellFormed
  <2>. QED  BY <1>2, <2>1, EarlyJudged, JudgingInv DEF CheckAlgorithm
<1>3. CASE CheckDigest
  <2>1. Checked' /\ (check' \in {"refused", "undefined"} => ~Faultless(sod))
    BY <1>3 DEF CheckDigest, SodInv, Checked, Faultless, WellFormed
  <2>. QED  BY <1>3, <2>1, EarlyJudged, JudgingInv DEF CheckDigest
<1>4. CASE CheckCertificate
  <2>1. Checked' /\ (check' \in {"refused", "undefined"} => ~Faultless(sod))
    BY <1>4 DEF CheckCertificate, SodInv, Checked, Faultless, WellFormed, Signed
  <2>. QED  BY <1>4, <2>1, EarlyJudged, JudgingInv DEF CheckCertificate
<1>5. CASE CheckKey
  <2>1. Checked' /\ (check' \in {"refused", "undefined"} => ~Faultless(sod))
    BY <1>5 DEF CheckKey, SodInv, Checked, Faultless, WellFormed, Signed
  <2>. QED  BY <1>5, <2>1, EarlyJudged, JudgingInv DEF CheckKey
<1>6. CASE CheckSignature
  <2>1. Checked' /\ (check' \in {"refused", "undefined"} => ~Faultless(sod))
    BY <1>6 DEF CheckSignature, SodInv, Checked, Faultless, WellFormed, Signed, Verified
  <2>. QED  BY <1>6, <2>1, EarlyJudged, JudgingInv DEF CheckSignature
<1>7. CASE CheckIssuerLength
  <2>1. Checked' /\ (check' \in {"refused", "undefined"} => ~Faultless(sod))
    BY <1>7, FaultlessName DEF CheckIssuerLength, SodInv, Checked, Faultless, WellFormed, Verified
  <2>. QED  BY <1>7, <2>1, EarlyJudged, JudgingInv DEF CheckIssuerLength
<1>8. CASE EntriesMatch
  <2>1. Checked' /\ (check' \in {"refused", "undefined"} => ~Faultless(sod))
    BY <1>8 DEF EntriesMatch, SodInv, Checked, Verified
  <2>. QED  BY <1>8, <2>1, EarlyJudged, JudgingInv DEF EntriesMatch
<1>. QED  BY <1>1, <1>2, <1>3, <1>4, <1>5, <1>6, <1>7, <1>8

LEMMA SerialInv ==
  ASSUME SodInv, CheckSerial
  PROVE  SodInv'
<1>. USE DEF Pass, Judge, ToAlgorithm, ToDigest, ToCertificate, ToKey, ToSignature, ToIssuer,
         ToEntries, ToSerial, ToAccepted
<1>1. Checked'
  BY DEF CheckSerial, SodInv, Checked, Verified
<1>2. check' \in {"refused", "undefined"} => ~Faultless(sod)
  BY PlainIsKept DEF CheckSerial, Faultless, WellFormed
<1>. QED  BY <1>1, <1>2, EarlyJudged, JudgingInv DEF CheckSerial

LEMMA FirstTwo ==
  ASSUME NEW q, IsList(q), Len(q) > 1
  PROVE  SubSeq(q, 1, 2) = <<q[1], q[2]>>
<1>. DEFINE S == {q[j] : j \in DOMAIN q}
<1>1. \A j \in 1 .. 2 : q[j] \in S
  BY ListIsSeq
<1>. HIDE DEF S
<1>2. \A j \in 1 .. 2 - 1 + 1 : SubSeq(q, 1, 2)[j] = q[1 + j - 1]
  BY <1>1, SubSeqProperties
<1>3. SubSeq(q, 1, 2) \in Seq(S) /\ Len(SubSeq(q, 1, 2)) = 2
  BY <1>1, SubSeqProperties
<1>4. <<q[1], q[2]>> \in Seq(S) /\ Len(<<q[1], q[2]>>) = 2
  BY <1>1
<1>5. \A j \in 1 .. 2 : SubSeq(q, 1, 2)[j] = <<q[1], q[2]>>[j]
  BY <1>2
<1>. QED  BY <1>3, <1>4, <1>5, SeqEqual

(* A set of a name that is the certificate's is compared with its like. *)
LEMMA EntryInv ==
  ASSUME SodInv, CheckIssuerEntry
  PROVE  SodInv'
<1>. USE DEF Judge, ToAlgorithm, ToDigest, ToCertificate, ToKey, ToSignature, ToIssuer,
         ToEntries, ToSerial, ToAccepted
<1>. DEFINE set == sod.issuer[entry + 1]
            e == set[1]
            f == sod.certificate.entries[entry + 1]
<1>1. check = "entries" /\ entry < Len(sod.issuer) /\ Len(sod.issuer) \in Nat
      /\ entry + 1 \in DOMAIN sod.issuer /\ entry \in Nat /\ sod.hashes # Missing
  <2>1. check = "entries" /\ entry < Len(sod.issuer) /\ entry \in Nat
    BY DEF CheckIssuerEntry, SodInv, SodTypeOK
  <2>2. IsList(sod.issuer)
    BY <2>1, ListsOfSod DEF SodInv
  <2>. QED  BY <2>1, <2>2, ListIsSeq DEF SodInv, Checked
<1>2. CASE check' \in {"refused", "undefined"} /\ Judge(check')
           /\ ~(Len(set) > 0 /\ Len(e) > 1 /\ e[1] = f[1] /\ e[2] = f[2])
  <2>1. ~Faultless(sod)
    BY <1>1, <1>2, FaultlessName DEF SodInv
  <2>2. UNCHANGED <<sod, hashSet, entry, hashSod, listed>>
    BY <1>2
  <2>3. Checked' /\ Judged'
    BY <1>2, <2>1, <2>2, EarlyJudged DEF Checked
  <2>. QED  BY <1>1, <1>2, <2>2, <2>3, JudgingInv
<1>3. CASE /\ Len(set) > 0 /\ Len(e) > 1 /\ e[1] = f[1] /\ e[2] = f[2]
           /\ entry' = entry + 1
           /\ UNCHANGED <<sod, hashSet, hashSod, listed, check>>
  <2>1. SodTypeOK' /\ Given' /\ Checked' /\ Judged'
    BY <1>1, <1>3 DEF SodInv, SodTypeOK, Given, Checked, Verified, Judged, GenuineIsAccepted
  <2>2. ReadSoFar'
    BY <1>1, <1>3 DEF SodInv, ReadSoFar, LastAmong
  <2>3. Compared'
    BY <1>1, <1>3 DEF SodInv, Compared
  <2>. QED  BY <2>1, <2>2, <2>3 DEF SodInv
<1>. QED
  <2>1. IsList(set) /\ (Len(set) > 0 => IsList(e))
    <3>1. IsList(set) /\ \A k \in DOMAIN set : IsList(set[k])
      BY <1>1, ListsOfSod DEF SodInv
    <3>. QED  BY <3>1, ListIsSeq
  <2>2. Len(set) \in Nat /\ (Len(set) > 0 => Len(e) \in Nat)
    BY <2>1, ListIsSeq
  <2>. QED  BY <1>2, <1>3, <2>2 DEF CheckIssuerEntry

-----------------------------------------------------------------------------
(* The list of hashes. *)

LEMMA ReadHashInv ==
  ASSUME SodInv, ReadHash
  PROVE  SodInv'
<1>. USE DEF Judge, ToAlgorithm, ToDigest, ToCertificate, ToKey, ToSignature, ToIssuer,
         ToEntries, ToSerial, ToAccepted
<1>1. check = "hashes" /\ listed < Len(sod.hashes) /\ Len(sod.hashes) \in Nat
      /\ listed + 1 \in DOMAIN sod.hashes /\ listed \in Nat /\ sod.hashes # Missing
  BY ListsOfSod, ListIsSeq DEF SodInv, Checked, ReadSoFar, ReadHash
<1>. DEFINE h == sod.hashes[listed + 1]
<1>2. CASE check' \in {"refused", "undefined"} /\ Judge(check') /\ h[1] \in {<<>>, Malformed}
  <2>1. ~Faultless(sod)
    BY <1>1, <1>2 DEF Faultless, WellFormed
  <2>2. Checked' /\ Judged'
    BY <1>2, <2>1, EarlyJudged DEF Checked
  <2>. QED  BY <1>1, <1>2, <2>2, JudgingInv
<1>3. CASE /\ hashSod' = [dg \in DOMAIN hashSod \cup {DataGroup(h)} |->
                            IF dg = DataGroup(h) THEN h[2] ELSE hashSod[dg]]
           /\ listed' = listed + 1
           /\ UNCHANGED <<sod, hashSet, entry, check>>
  <2>1. SodTypeOK' /\ Given' /\ Checked' /\ Compared' /\ Judged'
    BY <1>1, <1>3 DEF SodInv, SodTypeOK, Given, Checked, Verified, Compared, Judged,
       GenuineIsAccepted
  <2>3. ASSUME NEW dg \in DOMAIN hashSod'
        PROVE  LastAmong(listed, dg, hashSod[dg])'
    <3>1. CASE dg = DataGroup(h)
      <4>1. hashSod'[dg] = h[2]
        BY <1>3, <3>1
      <4>2. listed + 1 \in 1 .. listed + 1 /\ listed + 1 + 1 .. listed + 1 = {}
        BY <1>1
      <4>. QED  BY <1>3, <3>1, <4>1, <4>2 DEF LastAmong
    <3>2. CASE dg # DataGroup(h)
      <4>1. dg \in DOMAIN hashSod /\ hashSod'[dg] = hashSod[dg]
        BY <1>3, <3>2
      <4>2. PICK j \in 1 .. listed :
              /\ DataGroup(sod.hashes[j]) = dg /\ sod.hashes[j][2] = hashSod[dg]
              /\ \A k \in j + 1 .. listed : DataGroup(sod.hashes[k]) # dg
        BY <4>1 DEF SodInv, ReadSoFar, LastAmong
      <4>3. \A k \in j + 1 .. listed + 1 : k \in j + 1 .. listed \/ k = listed + 1
        BY <1>1
      <4>4. j \in 1 .. listed + 1 /\ \A k \in j + 1 .. listed + 1 : DataGroup(sod.hashes[k]) # dg
        BY <1>1, <3>2, <4>2, <4>3
      <4>. QED  BY <1>3, <4>1, <4>2, <4>4 DEF LastAmong
    <3>. QED  BY <3>1, <3>2
  <2>4. (\A j \in 1 .. listed : DataGroup(sod.hashes[j]) \in DOMAIN hashSod)'
    BY <1>1, <1>3 DEF SodInv, ReadSoFar
  <2>5. ReadSoFar'
    <3>1. listed' \in 0 .. Len(sod.hashes) /\ sod'.hashes = sod.hashes
      BY <1>1, <1>3
    <3>2. check' = "hashes"
      BY <1>1, <1>3
    <3>. QED  BY <1>1, <2>3, <2>4, <3>1, <3>2 DEF ReadSoFar
  <2>. QED  BY <2>1, <2>5 DEF SodInv
<1>. QED  BY <1>2, <1>3 DEF ReadHash

LEMMA CompareHashesInv ==
  ASSUME SodInv, CompareHashes
  PROVE  SodInv'
<1>. USE DEF Judge, ToAlgorithm, ToDigest, ToCertificate, ToKey, ToSignature, ToIssuer,
         ToEntries, ToSerial, ToAccepted
<1>1. check = "hashes" /\ listed = Len(sod.hashes) /\ Len(sod.hashes) \in Nat
      /\ DOMAIN sod.hashes = 1 .. listed /\ sod.hashes # Missing
  BY ListsOfSod, ListIsSeq DEF SodInv, Checked, CompareHashes
<1>2. ASSUME NEW dg \in DOMAIN hashSod
      PROVE  Lists(sod, dg, hashSod[dg])
  BY <1>1 DEF SodInv, ReadSoFar, LastAmong, Lists
<1>3. ASSUME NEW dg, NEW hash, Lists(sod, dg, hash)
      PROVE  dg \in DOMAIN hashSod /\ hashSod[dg] = hash
  <2>1. PICK j \in 1 .. listed :
          /\ DataGroup(sod.hashes[j]) = dg /\ sod.hashes[j][2] = hash
          /\ \A k \in j + 1 .. listed : DataGroup(sod.hashes[k]) # dg
    BY <1>1, <1>3 DEF Lists
  <2>2. dg \in DOMAIN hashSod
    BY <2>1 DEF SodInv, ReadSoFar
  <2>3. PICK i \in 1 .. listed :
          /\ DataGroup(sod.hashes[i]) = dg /\ sod.hashes[i][2] = hashSod[dg]
          /\ \A k \in i + 1 .. listed : DataGroup(sod.hashes[k]) # dg
    BY <1>1, <1>2, <2>2 DEF Lists
  <2>4. i = j
    BY <1>1, <2>1, <2>3
  <2>. QED  BY <2>1, <2>2, <2>3, <2>4
<1>4. UNCHANGED <<sod, hashSet, entry, hashSod, listed>> /\ check' \in {"accepted", "refused"}
  BY DEF CompareHashes
<1>5. Checked'
  BY <1>1, <1>4 DEF SodInv, Checked, Verified
<1>6. Judged'
  <2>1. CASE check' = "accepted"
    <3>1. \A dg \in DOMAIN hashSet : dg \in DOMAIN hashSod /\ hashSod[dg] = hashSet[dg]
      BY <2>1 DEF CompareHashes
    <3>2. \A dg \in DOMAIN hashSet : Lists(sod, dg, hashSet[dg])
      BY <1>2, <3>1
    <3>3. \A dg \in DOMAIN hashSet' : Lists(sod', dg, hashSet'[dg])
      BY <1>4, <3>2
    <3>. QED  BY <2>1, <3>3 DEF Judged, GenuineIsAccepted
  <2>2. CASE check' = "refused"
    <3>1. PICK dg \in DOMAIN hashSet : ~(dg \in DOMAIN hashSod /\ hashSod[dg] = hashSet[dg])
      BY <2>2 DEF CompareHashes
    <3>2. ~Lists(sod, dg, hashSet[dg])
      BY <1>3, <3>1
    <3>3. \E d \in DOMAIN hashSet' : ~Lists(sod', d, hashSet'[d])
      BY <1>4, <3>1, <3>2
    <3>. QED  BY <2>2, <3>3 DEF Judged, GenuineIsAccepted
  <2>. QED  BY <1>4, <2>1, <2>2
<1>. QED  BY <1>1, <1>4, <1>5, <1>6, JudgingInv

-----------------------------------------------------------------------------
LEMMA SodStep ==
  ASSUME SodInv, [SodNext]_sodvars
  PROVE  SodInv'
<1>1. CASE UNCHANGED sodvars
  <2>1. SodTypeOK' /\ Given' /\ Checked' /\ Compared'
    BY <1>1 DEF sodvars, SodInv, SodTypeOK, Given, Checked, Verified, Compared
  <2>2. ReadSoFar'
    BY <1>1 DEF sodvars, SodInv, ReadSoFar, LastAmong
  <2>3. Judged'
    <3>1. \A dg \in DOMAIN hashSet : Lists(sod', dg, hashSet'[dg]) <=> Lists(sod, dg, hashSet[dg])
      BY <1>1 DEF sodvars
    <3>2. WellFormed(sod') <=> WellFormed(sod)
      BY <1>1 DEF sodvars
    <3>. QED  BY <1>1, <3>1, <3>2 DEF sodvars, SodInv, Judged, GenuineIsAccepted
  <2>. QED  BY <2>1, <2>2, <2>3 DEF SodInv
<1>. QED  BY <1>1, VerifySodInv, EarlyInv, SerialInv, EntryInv, ReadHashInv,
             CompareHashesInv DEF SodNext

(* The invariant holds. *)
LEMMA SodInvariant == SodSpec => []SodInv
<1>. QED  BY SodInitInv, SodStep, PTL DEF SodSpec

(* Whatever the SOD and the files: what verifySod accepts names, as far as *)
(* it compares names and numbers, the certificate whose key of RSA signed  *)
(* it, over a list with each file's hash.                                  *)
THEOREM AcceptanceIsSigned == SodSpec => [](SodTypeOK /\ AcceptedIsSigned)
<1>1. SodInv => SodTypeOK /\ AcceptedIsSigned
  <2>. SUFFICES ASSUME SodInv, check = "accepted"
                PROVE  SameIssuer(sod)
    BY DEF SodInv, Checked, Judged, Verified, AcceptedIsSigned, Signed, Named, ToAlgorithm,
       ToDigest, ToCertificate, ToKey, ToSignature, ToIssuer, ToEntries, ToSerial, ToAccepted
  <2>1. /\ entry = Len(sod.issuer) /\ sod.certificate # Missing
        /\ Len(sod.issuer) = Len(sod.certificate.entries)
    BY DEF SodInv, Checked, ToKey, ToSignature, ToIssuer, ToEntries, ToSerial, ToAccepted
  <2>2. /\ IsList(sod.issuer) /\ IsList(sod.certificate.entries)
        /\ \A j \in DOMAIN sod.issuer :
             /\ IsList(sod.issuer[j])
             /\ \A k \in DOMAIN sod.issuer[j] : IsList(sod.issuer[j][k])
        /\ \A j \in DOMAIN sod.certificate.entries : IsPair(sod.certificate.entries[j])
    BY <2>1, ListsOfSod DEF SodInv
  <2>3. ASSUME NEW j \in DOMAIN sod.issuer
        PROVE  /\ Len(sod.issuer[j]) > 0 /\ Len(sod.issuer[j][1]) > 1
               /\ SubSeq(sod.issuer[j][1], 1, 2) = sod.certificate.entries[j]
    <3>. DEFINE e == sod.issuer[j][1]
    <3>1. /\ Len(sod.issuer[j]) > 0 /\ Len(e) > 1
          /\ e[1] = sod.certificate.entries[j][1]
          /\ e[2] = sod.certificate.entries[j][2]
      BY <2>1, <2>2, ListIsSeq DEF SodInv, Compared, ToEntries, ToSerial, ToAccepted
    <3>2. IsList(e)
      BY <2>2, <3>1, ListIsSeq
    <3>. HIDE DEF e
    <3>3. SubSeq(e, 1, 2) = <<e[1], e[2]>>
      BY <3>1, <3>2, FirstTwo
    <3>4. IsPair(sod.certificate.entries[j])
      BY <2>1, <2>2, ListIsSeq
    <3>5. SubSeq(e, 1, 2) = sod.certificate.entries[j]
      BY <3>1, <3>3, <3>4 DEF IsPair
    <3>. QED  BY <3>1, <3>5 DEF e
  <2>. QED  BY <2>1, <2>3 DEF SameIssuer
<1>. QED  BY <1>1, SodInvariant, PTL

(* Whatever the SOD: if nothing is wrong with it, verifySod refuses it     *)
(* only for a hash that it does not find in the list, for a serial number  *)
(* that is not plain, or for a set in the issuer's name with another       *)
(* number of attributes than one.                                          *)
THEOREM GenuineIsNeverRefused == SodSpec => []GenuineIsAccepted
<1>1. SodInv => GenuineIsAccepted
  BY DEF SodInv, Judged
<1>. QED  BY <1>1, SodInvariant, PTL

=============================================================================
