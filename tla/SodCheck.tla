------------------------------- MODULE SodCheck -------------------------------
(***************************************************************************)
(* verifySod: the checks of a SOD, in their order.  A SOD is the parts     *)
(* that the checks compare; a digest stands for what it is the digest of,  *)
(* and a signature tells by which key it was made and over what.           *)
(***************************************************************************)
EXTENDS Naturals, Sequences

CONSTANTS
  Sods,      \* the SODs that are verified
  HashSets,  \* the digests of the files, by the numbers of their data groups
  Missing,   \* a part that a SOD does not have
  Malformed  \* the data group of what is not an entry of the list of hashes

Parts == {"shape", "hashes", "digest", "algorithm", "certificate", "signature",
          "issuer", "serial"}

IsList(q) == q \in Seq({q[j] : j \in DOMAIN q})
IsPair(q) == q = <<q[1], q[2]>>

(* The name of an issuer is a list of sets, each a list of attributes,     *)
(* each a list of tags.  OpenSSL gives the attributes of the certificate's *)
(* name, one after the other whatever their sets, by type and value; the   *)
(* proofs need that only where every set has one.  The list of hashes is   *)
(* one of pairs of the number of a data group and a hash.                  *)
SingleValued(name) == \A j \in DOMAIN name : Len(name[j]) = 1

ASSUME SodsAssumption ==
  \A s \in Sods :
    /\ DOMAIN s = Parts
    /\ IsList(s.issuer)
    /\ \A j \in DOMAIN s.issuer :
         IsList(s.issuer[j]) /\ \A k \in DOMAIN s.issuer[j] : IsList(s.issuer[j][k])
    /\ s.hashes # Missing =>
         IsList(s.hashes) /\ \A j \in DOMAIN s.hashes : IsPair(s.hashes[j])
    /\ s.certificate # Missing =>
         LET c == s.certificate IN
         /\ IsList(c.entries) /\ \A j \in DOMAIN c.entries : IsPair(c.entries[j])
         /\ SingleValued(c.issuer) =>
              c.entries = [j \in DOMAIN c.issuer |-> c.issuer[j][1]]

ASSUME MissingAssumption == Missing # "right"

VARIABLES
  sod,      \* [shape, hashes, digest, algorithm, certificate, signature,
            \*  issuer, serial]
  hashSet,
  entry,    \* the entries of the issuer's name that were compared
  hashSod,  \* the hashes that were read from the list, by their data groups
  listed,   \* how many entries of the list were read
  check     \* the check that comes next, or the verdict

sodvars == <<sod, hashSet, entry, hashSod, listed, check>>

Pass(next) == check' = next /\ UNCHANGED <<sod, hashSet, entry, hashSod, listed>>
Judge(verdict) == check' = verdict /\ UNCHANGED <<sod, hashSet, entry, hashSod, listed>>

-----------------------------------------------------------------------------
VerifySod ==
  /\ check = "none"
  /\ check' = "structure"
  /\ sod' \in Sods
  /\ hashSet' \in HashSets
  /\ UNCHANGED <<entry, hashSod, listed>>

(* The tags and the identifiers along the way.  That there is a first tag  *)
(* at all, in the SOD and in what is signed, is not asked.                 *)
CheckStructure ==
  /\ check = "structure"
  /\ \/ sod.shape = Missing /\ Judge("undefined")
     \/ sod.shape = "wrong" /\ Judge("refused")
     \/ sod.shape = "right" /\ sod.hashes = Missing /\ Judge("undefined")
     \/ sod.shape = "right" /\ sod.hashes # Missing /\ Pass("algorithm")

CheckAlgorithm ==
  /\ check = "algorithm"
  /\ \/ sod.algorithm \in {"sha1", "sha256"} /\ Pass("digest")
     \/ sod.algorithm \notin {"sha1", "sha256"} /\ Judge("refused")

CheckDigest ==
  /\ check = "digest"
  /\ \/ sod.digest = sod.hashes /\ Pass("certificate")
     \/ sod.digest # sod.hashes /\ Judge("refused")

(* d2i_X509. *)
CheckCertificate ==
  /\ check = "certificate"
  /\ \/ sod.certificate # Missing /\ Pass("key")
     \/ sod.certificate = Missing /\ Judge("refused")

(* Whatever kind of key the certificate has, it is used as one of RSA. *)
CheckKey ==
  /\ check = "key"
  /\ \/ sod.certificate.key = Missing /\ Judge("refused")
     \/ sod.certificate.key # Missing /\ ~sod.certificate.rsa /\ Judge("undefined")
     \/ sod.certificate.key # Missing /\ sod.certificate.rsa /\ Pass("signature")

(* RSA_verify, over the signed attributes, which hold the digest. *)
Verified == sod.signature = [key |-> sod.certificate.key, over |-> sod.digest,
                             algorithm |-> sod.algorithm]

CheckSignature ==
  /\ check = "signature"
  /\ \/ Verified /\ Pass("issuer")
     \/ ~Verified /\ Judge("refused")

(* The sets of the SOD's name are counted, and the attributes of the       *)
(* certificate's.                                                          *)
CheckIssuerLength ==
  /\ check = "issuer"
  /\ \/ Len(sod.issuer) = Len(sod.certificate.entries) /\ Pass("entries")
     \/ Len(sod.issuer) # Len(sod.certificate.entries) /\ Judge("refused")

(* Of a set, its first attribute is compared, and of that the first two    *)
(* tags, a type and a value.  That there is an attribute, and that it has  *)
(* two tags, is not asked, nor whether there is more.                      *)
CheckIssuerEntry ==
  LET set == sod.issuer[entry + 1]
      e == set[1]
      f == sod.certificate.entries[entry + 1]
  IN
  /\ check = "entries"
  /\ entry < Len(sod.issuer)
  /\ \/ Len(set) = 0 /\ Judge("undefined")
     \/ Len(set) > 0 /\ Len(e) = 0 /\ Judge("undefined")
     \/ Len(set) > 0 /\ Len(e) > 0 /\ e[1] # f[1] /\ Judge("refused")
     \/ Len(set) > 0 /\ Len(e) = 1 /\ e[1] = f[1] /\ Judge("undefined")
     \/ Len(set) > 0 /\ Len(e) > 1 /\ e[1] = f[1] /\ e[2] # f[2] /\ Judge("refused")
     \/ /\ Len(set) > 0 /\ Len(e) > 1 /\ e[1] = f[1] /\ e[2] = f[2]
        /\ entry' = entry + 1
        /\ UNCHANGED <<sod, hashSet, hashSod, listed, check>>

EntriesMatch ==
  /\ check = "entries"
  /\ entry = Len(sod.issuer)
  /\ Pass("serial")

(* The octets of the integer that is the opposite of the negative one with *)
(* the octets c.                                                           *)
Opposite(c) ==
  IF \A j \in DOMAIN c : c[j] = 0
  THEN <<1>> \o c
  ELSE [j \in DOMAIN c |->
          IF \A k \in j + 1 .. Len(c) : c[k] = 0 THEN (256 - c[j]) % 256 ELSE 255 - c[j]]

(* OpenSSL keeps of an integer with the octets c those of its magnitude:   *)
(* without the 00 before a high bit, and without the sign.                 *)
Magnitude(c) ==
  CASE c = <<>> -> c
    [] c # <<>> /\ c[1] = 0 -> IF Len(c) > 1 THEN Tail(c) ELSE c
    [] c # <<>> /\ c[1] \in 1 .. 127 -> c
    [] OTHER -> Opposite(IF c[1] = 255 /\ Len(c) > 1 THEN Tail(c) ELSE c)

(* Mutant of CheckSerial: the serial number is not compared. *)
SerialUnchecked ==
  /\ check = "serial"
  /\ Pass("hashes")

(* The octets in the SOD are compared with the certificate's magnitude. *)
CheckSerial ==
  /\ check = "serial"
  /\ \/ sod.serial = Magnitude(sod.certificate.serial) /\ Pass("hashes")
     \/ sod.serial # Magnitude(sod.certificate.serial) /\ Judge("refused")

(* Of the number of a data group, the first octet is read. *)
DataGroup(h) == h[1][1]

(* Mutant of ReadHash: the first of two entries for a data group counts. *)
ReadHashKeepingFirst ==
  LET h == sod.hashes[listed + 1] IN
  /\ check = "hashes"
  /\ listed < Len(sod.hashes)
  /\ \/ h[1] = Malformed /\ Judge("refused")
     \/ h[1] = <<>> /\ Judge("undefined")
     \/ /\ h[1] \notin {<<>>, Malformed}
        /\ hashSod' = [dg \in DOMAIN hashSod \cup {DataGroup(h)} |->
                         IF dg \in DOMAIN hashSod THEN hashSod[dg] ELSE h[2]]
        /\ listed' = listed + 1
        /\ UNCHANGED <<sod, hashSet, entry, check>>

(* An entry of the list takes the place of an earlier one for its data     *)
(* group.  That the number has an octet is not asked.                      *)
ReadHash ==
  LET h == sod.hashes[listed + 1] IN
  /\ check = "hashes"
  /\ listed < Len(sod.hashes)
  /\ \/ h[1] = Malformed /\ Judge("refused")
     \/ h[1] = <<>> /\ Judge("undefined")
     \/ /\ h[1] \notin {<<>>, Malformed}
        /\ hashSod' = [dg \in DOMAIN hashSod \cup {DataGroup(h)} |->
                         IF dg = DataGroup(h) THEN h[2] ELSE hashSod[dg]]
        /\ listed' = listed + 1
        /\ UNCHANGED <<sod, hashSet, entry, check>>

CompareHashes ==
  LET match == \A dg \in DOMAIN hashSet :
                 dg \in DOMAIN hashSod /\ hashSod[dg] = hashSet[dg]
  IN
  /\ check = "hashes"
  /\ listed = Len(sod.hashes)
  /\ \/ match /\ Judge("accepted")
     \/ ~match /\ Judge("refused")

SodInit ==
  /\ sod = [part \in Parts |-> Missing]
  /\ hashSet = [dg \in {} |-> Missing]
  /\ entry = 0
  /\ hashSod = [dg \in {} |-> Missing]
  /\ listed = 0
  /\ check = "none"

SodNext ==
  \/ VerifySod
  \/ CheckStructure \/ CheckAlgorithm \/ CheckDigest \/ CheckCertificate
  \/ CheckKey \/ CheckSignature \/ CheckIssuerLength \/ CheckIssuerEntry \/ EntriesMatch
  \/ CheckSerial \/ ReadHash \/ CompareHashes

SodSpec == SodInit /\ [][SodNext]_sodvars

-----------------------------------------------------------------------------
(* The state is of these types, and no more entries of a list are looked  *)
(* at than it has.                                                         *)
SodTypeOK ==
  /\ DOMAIN sod = Parts
  /\ entry \in 0 .. (IF check = "none" THEN 0 ELSE Len(sod.issuer))
  /\ listed \in 0 .. (IF sod.hashes = Missing THEN 0 ELSE Len(sod.hashes))
  /\ check \in {"none", "structure", "algorithm", "digest", "certificate", "key",
                "signature", "issuer", "entries", "serial", "hashes", "accepted", "refused",
                "undefined"}

(* The SOD names the certificate, as far as the code compares them: there  *)
(* are as many sets as entries, and the first attribute of each begins     *)
(* with the type and the value of an entry; the serial number has the      *)
(* octets of the magnitude of the certificate's, which 80 has for 00 80.   *)
SameIssuer(s) ==
  /\ Len(s.issuer) = Len(s.certificate.entries)
  /\ \A j \in DOMAIN s.issuer :
       /\ Len(s.issuer[j]) > 0 /\ Len(s.issuer[j][1]) > 1
       /\ SubSeq(s.issuer[j][1], 1, 2) = s.certificate.entries[j]

Named(s) == SameIssuer(s) /\ s.serial = Magnitude(s.certificate.serial)

(* The certificate has a key of RSA, which signed the list of hashes. *)
Signed(s) ==
  /\ s.certificate # Missing /\ s.certificate.key # Missing /\ s.certificate.rsa
  /\ s.signature = [key |-> s.certificate.key, over |-> s.hashes,
                    algorithm |-> s.algorithm]

(* The list has this hash for a number that begins with the octet dg, and  *)
(* no other after it.                                                      *)
Lists(s, dg, hash) ==
  \E j \in DOMAIN s.hashes :
    /\ DataGroup(s.hashes[j]) = dg /\ s.hashes[j][2] = hash
    /\ \A k \in j + 1 .. Len(s.hashes) : DataGroup(s.hashes[k]) # dg

(* A SOD is accepted only if the key of the certificate that it names      *)
(* signed a list that has each hash of hashSet, as far as the code looks   *)
(* at names and numbers.  Who issued the certificate is not verified, and  *)
(* is no part of this.                                                     *)
AcceptedIsSigned ==
  check = "accepted" =>
    /\ Signed(sod) /\ Named(sod)
    /\ \A dg \in DOMAIN hashSet : Lists(sod, dg, hashSet[dg])

(* Nothing is wrong with the SOD but, perhaps, which hashes it lists: it   *)
(* has the issuer and the serial number of the certificate as they are.    *)
WellFormed(s) ==
  /\ s.shape = "right" /\ s.hashes # Missing
  /\ \A j \in DOMAIN s.hashes : s.hashes[j][1] \notin {<<>>, Malformed}
  /\ s.digest = s.hashes /\ s.algorithm \in {"sha1", "sha256"}
  /\ Signed(s)
  /\ s.issuer = s.certificate.issuer
  /\ s.serial = s.certificate.serial

(* An integer that is not negative and has no 00 before its octets. *)
Plain(c) == c # <<>> /\ (c[1] \in 1 .. 127 \/ c = <<0>>)

(* A SOD that is well formed, signed with an algorithm that is known, and  *)
(* has the hashes, is not refused, whatever else its list has, unless the  *)
(* serial number begins with a high bit or with the 00 before one, or a    *)
(* set of the issuer's name has another number of attributes than one: the *)
(* code refuses such documents.  Nor does it find the hash for a data      *)
(* group whose number is written with a 00 before it.                      *)
GenuineIsAccepted ==
  check \in {"refused", "undefined"} /\ WellFormed(sod) =>
    \/ ~Plain(sod.serial)
    \/ ~SingleValued(sod.issuer)
    \/ \E dg \in DOMAIN hashSet : ~Lists(sod, dg, hashSet[dg])

=============================================================================
