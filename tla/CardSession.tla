------------------------------ MODULE CardSession ------------------------------
(***************************************************************************)
(* The blocking readNis(auth), authenticate and the requests they send to  *)
(* the card of one token.  Threads that use the token share the selection  *)
(* state of its card, and each step of a call is one APDU.                 *)
(*                                                                         *)
(* The content of a file is as many pages as READ BINARY needs for it; a   *)
(* page that was read is named by the file it came from.  A cloned card    *)
(* has every file of the genuine one, but not its private key.             *)
(***************************************************************************)
EXTENDS Naturals, Sequences

CONSTANTS
  Threads,  \* the threads that read from the token
  Auths,    \* the authentication methods they ask for
  MayFail   \* whether the card may refuse, and the reader lose, a command

Files == {"id", "kpub", "sod"}  \* the EFs Id_Servizi, Servizi_Int.Kpub, SOD
LongFile == 2                   \* bound on the pages of a file
Pages(file) == IF file = "id" THEN 1 ELSE LongFile
Whole(file) == [n \in 1 .. Pages(file) |-> file]

ASSUME AuthAssumption == Auths \subseteq {"none", "passive", "internal"}

ASSUME MayFailAssumption == MayFail \in BOOLEAN

VARIABLES
  cloned,    \* the card: whether it is a clone; never changes
  df,        \* the card: the DF selected
  ef,        \* the card: the EF selected under it
  se,        \* the card: whether MSE SET chose the key for authentication
  stage,     \* the part of its readNis a thread is in
  step,      \* the next command of that part
  auth,      \* the method asked for
  content,   \* read_EF_file: the pages read
  hashed,    \* authenticate: what hashSet has for a file
  passed,    \* authPassed
  challenged,  \* whether authenticate has compared an answer of the card
             \* with its challenge (a history variable)
  result,    \* what readNis returned, "none" while it has not
  disturbed  \* whether a command of this call was refused or lost, or
             \* another thread used the card during it (a history variable)

card == <<df, ef, se>>
challenge == <<cloned, challenged>>
vars == <<cloned, df, ef, se, stage, step, auth, content, hashed, passed,
          challenged, result, disturbed>>

Stages == {"idle", "id", "kpub", "challenge", "sod", "select", "nis", "crashed"}
Reads == {"id", "kpub", "sod", "nis"}  \* the stages that are a read_EF_file
InCall(t) == stage[t] \notin {"idle", "crashed"}
Target(t) == IF stage[t] = "nis" THEN "id" ELSE stage[t]

-----------------------------------------------------------------------------
(* The fate of one command. *)
At(t, s, c) == stage[t] = s /\ step[t] = c

Disturb(t, own) ==
  disturbed' = [u \in Threads |-> disturbed[u] \/ (IF u = t THEN own ELSE InCall(u))]

(* The card carries the command out. *)
Served(t) == Disturb(t, FALSE)

(* The card answers with an error status. *)
Refused(t) == MayFail /\ Disturb(t, TRUE) /\ UNCHANGED card

(* SCardTransmit fails, whose result transmit does not look at: it takes   *)
(* for the status word the end of a response nothing was written to.       *)
Lost(t) == MayFail /\ Disturb(t, TRUE) /\ UNCHANGED card

SelectDf(d) ==
  /\ df' = d
  /\ ef' = "none"
  /\ se' = FALSE

-----------------------------------------------------------------------------
(* Moves between the parts of readNis. *)

Enter(t, s, c) ==
  /\ stage' = [stage EXCEPT ![t] = s]
  /\ step' = [step EXCEPT ![t] = c]
  /\ content' = [content EXCEPT ![t] = <<>>]

Return(t, r) ==
  /\ Enter(t, IF r = "undefined" THEN "crashed" ELSE "idle", "none")
  /\ result' = [result EXCEPT ![t] = r]

(* An operation on memory that is not there. *)
Undefined(t) == Return(t, "undefined") /\ UNCHANGED <<hashed, passed>>

(* The digest of what was read goes into hashSet. *)
Hash(t, file, genuine) ==
  hashed' = [hashed EXCEPT ![t][file] = IF genuine THEN "genuine" ELSE "other"]

(* verifySod: the SOD is whole and its signature holds, and it has every   *)
(* digest of hashSet; it throws otherwise.                                 *)
VerifySod(t) ==
  /\ content[t] = Whole("sod")
  /\ \A file \in Files : hashed[t][file] # "other"

(* Mutant of Judge: the last check decides. *)
JudgeBySod(t, verified) ==
  /\ passed' = [passed EXCEPT ![t] = verified]
  /\ IF verified THEN Enter(t, "select", "ias") /\ UNCHANGED result
                 ELSE Return(t, "empty")

(* The end of authenticate: readNis goes on if authPassed is still true. *)
Judge(t, verified) ==
  /\ passed' = [passed EXCEPT ![t] = @ /\ verified]
  /\ IF passed[t] /\ verified THEN Enter(t, "select", "ias") /\ UNCHANGED result
                              ELSE Return(t, "empty")

-----------------------------------------------------------------------------
(* What follows a read_EF_file that returned true; found is what it put    *)
(* into the vector it was given.                                           *)

(* The digest takes 12 bytes of idService, whether they are there or not.  *)
AfterId(t, found) ==
  \/ /\ found = <<>>
     /\ Undefined(t)
  \/ /\ found # <<>>
     /\ Hash(t, "id", Head(found) = "id")
     /\ Enter(t, IF auth[t] = "internal" THEN "kpub" ELSE "sod", "ias")
     /\ UNCHANGED <<passed, result>>

(* The digest takes as many bytes of intKpub as the ASN.1 header in it     *)
(* declares; then the key is decoded.                                      *)
AfterKpub(t, found) ==
  LET complete == found # <<>> /\ Len(found) >= Pages(Head(found)) IN
  \/ /\ ~complete
     /\ Undefined(t)
  \/ /\ complete
     /\ Hash(t, "kpub", found = Whole("kpub"))
     /\ \/ /\ Head(found) = "kpub"
           /\ Enter(t, "challenge", "mse")
           /\ UNCHANGED passed
        \/ /\ Head(found) # "kpub"
           /\ Enter(t, "sod", "ias")
           /\ passed' = [passed EXCEPT ![t] = FALSE]
     /\ UNCHANGED result

(* verifySod parses the SOD and goes to its first tag, which an empty SOD  *)
(* does not have.                                                          *)
AfterSod(t, found) ==
  \/ /\ found = <<>>
     /\ Undefined(t)
  \/ /\ found # <<>>
     /\ Judge(t, VerifySod(t))
     /\ UNCHANGED hashed

(* readNis makes a string of the first 12 bytes.  They are the status of   *)
(* the last selection when no file was read, and are not there when        *)
(* readBinaryContent cleared the vector and then read nothing.             *)
AfterNis(t, untouched, found) ==
  /\ Return(t, IF untouched THEN "other"
               ELSE IF found = <<>> THEN "undefined"
               ELSE IF Head(found) = "id" THEN "nis" ELSE "other")
  /\ UNCHANGED <<hashed, passed>>

(* read_EF_file returns true: after reading, whatever the reading gave,    *)
(* and also when a DF could not be selected.                               *)
ReturnTrue(t, untouched) ==
  LET found == IF untouched THEN <<>> ELSE content[t] IN
  /\ UNCHANGED auth
  /\ \/ stage[t] = "id" /\ AfterId(t, found)
     \/ stage[t] = "kpub" /\ AfterKpub(t, found)
     \/ stage[t] = "sod" /\ AfterSod(t, found)
     \/ stage[t] = "nis" /\ AfterNis(t, untouched, found)

(* read_EF_file returns false: the EF could not be selected. *)
ReturnFalse(t) ==
  /\ passed' = IF stage[t] = "nis" THEN passed ELSE [passed EXCEPT ![t] = FALSE]
  /\ \/ /\ stage[t] = "kpub"
        /\ Enter(t, "sod", "ias")
        /\ UNCHANGED result
     \/ /\ stage[t] # "kpub"
        /\ Return(t, "empty")
  /\ UNCHANGED <<auth, hashed>>

-----------------------------------------------------------------------------
(* The commands of read_EF_file. *)

Proceed(t, command) ==
  /\ step' = [step EXCEPT ![t] = command]
  /\ UNCHANGED <<stage, auth, content, hashed, passed, result>>

(* select_df_ias, into a response of zeros. *)
ReadSelectIas(t) ==
  /\ stage[t] \in Reads /\ step[t] = "ias"
  /\ \/ Served(t) /\ SelectDf("ias") /\ Proceed(t, "cie")
     \/ (Refused(t) \/ Lost(t)) /\ ReturnTrue(t, TRUE)
  /\ UNCHANGED challenge

(* Mutant of ReadSelectCie: the DF is taken to be selected from before. *)
ReadSelectCieSkipped(t) ==
  /\ stage[t] \in Reads /\ step[t] = "cie"
  /\ Served(t) /\ UNCHANGED card /\ Proceed(t, "ef")
  /\ UNCHANGED challenge

(* select_df_cie, into the two bytes of response that hold the 9000 of     *)
(* select_df_ias: if it is lost, that is taken for its answer.             *)
ReadSelectCie(t) ==
  /\ stage[t] \in Reads /\ step[t] = "cie"
  /\ \/ Served(t) /\ SelectDf("cie") /\ Proceed(t, "ef")
     \/ Lost(t) /\ Proceed(t, "ef")
     \/ Refused(t) /\ ReturnTrue(t, TRUE)
  /\ UNCHANGED challenge

(* The EF is selected by its identifier under the current DF, with the     *)
(* same response.                                                          *)
ReadSelectEf(t) ==
  /\ stage[t] \in Reads /\ step[t] = "ef"
  /\ \/ /\ Served(t)
        /\ df = "cie"
        /\ ef' = Target(t)
        /\ UNCHANGED <<df, se>>
        /\ Proceed(t, "read")
     \/ Served(t) /\ df # "cie" /\ UNCHANGED card /\ ReturnFalse(t)
     \/ Lost(t) /\ Proceed(t, "read")
     \/ Refused(t) /\ ReturnFalse(t)
  /\ UNCHANGED challenge

(* Mutant of PageLeft: the page after the last is asked for and appended. *)
PageLeftOrMore(t) == ef # "none" /\ Len(content[t]) <= Pages(ef)

PageLeft(t) == ef # "none" /\ Len(content[t]) < Pages(ef)

(* readBinaryContent: page by page, each at the offset the pages before it *)
(* reach to.  A page that cannot be read ends it, and read_EF_file does    *)
(* not look at the false it returns.                                       *)
ReadPage(t) ==
  /\ stage[t] \in Reads /\ step[t] = "read"
  /\ \/ /\ Served(t) /\ UNCHANGED card
        /\ PageLeft(t)
        /\ content' = [content EXCEPT ![t] = Append(@, ef)]
        /\ UNCHANGED <<stage, step, auth, hashed, passed, result>>
     \/ Served(t) /\ UNCHANGED card /\ ~PageLeft(t) /\ ReturnTrue(t, FALSE)
     \/ (Refused(t) \/ Lost(t)) /\ ReturnTrue(t, FALSE)
  /\ UNCHANGED challenge

-----------------------------------------------------------------------------
(* The other commands. *)

(* mse_set; should it fail, authenticate goes on to the SOD, with no       *)
(* challenge and authPassed as it is.                                      *)
MseSet(t) ==
  /\ At(t, "challenge", "mse")
  /\ \/ /\ Served(t)
        /\ se' = TRUE
        /\ UNCHANGED <<df, ef>>
        /\ Enter(t, "challenge", "internal")
     \/ (Refused(t) \/ Lost(t)) /\ Enter(t, "sod", "ias")
  /\ UNCHANGED <<challenge, auth, hashed, passed, result>>

(* authenticate decrypts the answer and compares it with its challenge.    *)
Compare(t, right) ==
  /\ challenged' = [challenged EXCEPT ![t] = TRUE]
  /\ passed' = [passed EXCEPT ![t] = @ /\ right]

(* internal_authenticate: the answer of a genuine card is the challenge,   *)
(* if the public key is its own.  A clone answers under another key, and a *)
(* card that was told of no key by MSE SET does too, or with an error.  An *)
(* error, or no answer at all, leaves authPassed as it is.                 *)
InternalAuthenticate(t) ==
  /\ At(t, "challenge", "internal")
  /\ \/ /\ Served(t) /\ UNCHANGED card
        /\ Compare(t, se /\ ~cloned /\ hashed[t]["kpub"] # "other")
     \/ /\ ~se
        /\ Served(t) /\ UNCHANGED <<card, passed, challenged>>
     \/ (Refused(t) \/ Lost(t)) /\ UNCHANGED <<passed, challenged>>
  /\ Enter(t, "sod", "ias")
  /\ UNCHANGED <<cloned, auth, hashed, result>>

(* The selections of readNis itself.  Its response is longer than a status *)
(* word, so a lost command is noticed here.                                *)
SelectIas(t) ==
  /\ At(t, "select", "ias")
  /\ \/ Served(t) /\ SelectDf("ias") /\ Enter(t, "select", "cie") /\ UNCHANGED result
     \/ (Refused(t) \/ Lost(t)) /\ Return(t, "empty")
  /\ UNCHANGED <<challenge, auth, hashed, passed>>

SelectCie(t) ==
  /\ At(t, "select", "cie")
  /\ \/ Served(t) /\ SelectDf("cie") /\ Enter(t, "nis", "ias") /\ UNCHANGED result
     \/ (Refused(t) \/ Lost(t)) /\ Return(t, "empty")
  /\ UNCHANGED <<challenge, auth, hashed, passed>>

(* readNis(a) begins; without authentication authenticate returns true. *)
ReadNis(t, a) ==
  /\ stage[t] = "idle"
  /\ auth' = [auth EXCEPT ![t] = a]
  /\ Enter(t, IF a = "none" THEN "select" ELSE "id", "ias")
  /\ hashed' = [hashed EXCEPT ![t] = [file \in Files |-> "absent"]]
  /\ passed' = [passed EXCEPT ![t] = TRUE]
  /\ challenged' = [challenged EXCEPT ![t] = FALSE]
  /\ result' = [result EXCEPT ![t] = "none"]
  /\ disturbed' = [disturbed EXCEPT ![t] = FALSE]
  /\ UNCHANGED <<cloned, card>>

-----------------------------------------------------------------------------
(* The card may be in any state another program, or a call, left it in. *)
Init ==
  /\ cloned \in BOOLEAN
  /\ df \in {"none", "ias", "cie"}
  /\ ef \in IF df = "cie" THEN Files \cup {"none"} ELSE {"none"}
  /\ se \in BOOLEAN
  /\ stage = [t \in Threads |-> "idle"]
  /\ step = [t \in Threads |-> "none"]
  /\ auth = [t \in Threads |-> "none"]
  /\ content = [t \in Threads |-> <<>>]
  /\ hashed = [t \in Threads |-> [file \in Files |-> "absent"]]
  /\ passed = [t \in Threads |-> TRUE]
  /\ challenged = [t \in Threads |-> FALSE]
  /\ result = [t \in Threads |-> "none"]
  /\ disturbed = [t \in Threads |-> FALSE]

Step(t) ==
  \/ \E a \in Auths : ReadNis(t, a)
  \/ ReadSelectIas(t)
  \/ ReadSelectCie(t)
  \/ ReadSelectEf(t)
  \/ ReadPage(t)
  \/ MseSet(t)
  \/ InternalAuthenticate(t)
  \/ SelectIas(t)
  \/ SelectCie(t)

Next == \E t \in Threads : Step(t)

Spec == Init /\ [][Next]_vars

-----------------------------------------------------------------------------
TypeOK ==
  /\ cloned \in BOOLEAN
  /\ df \in {"none", "ias", "cie"}
  /\ ef \in Files \cup {"none"}
  /\ se \in BOOLEAN
  /\ stage \in [Threads -> Stages]
  /\ step \in [Threads -> {"none", "ias", "cie", "ef", "read", "mse", "internal"}]
  /\ auth \in [Threads -> {"none", "passive", "internal"}]
  /\ content \in [Threads -> Seq(Files)]
  /\ \A t \in Threads : Len(content[t]) <= LongFile
  /\ hashed \in [Threads -> [Files -> {"absent", "genuine", "other"}]]
  /\ passed \in [Threads -> BOOLEAN]
  /\ challenged \in [Threads -> BOOLEAN]
  /\ result \in [Threads -> {"none", "nis", "empty", "other", "undefined"}]
  /\ disturbed \in [Threads -> BOOLEAN]

(* A thread is past authenticate, which has returned true. *)
Accepted(t) == stage[t] \in {"select", "nis"} \/ result[t] = "nis"

(* A thread that got past authenticate has had the digests of the files    *)
(* its method is about compared with those of a whole and signed SOD,      *)
(* although read_EF_file says true of a file it has not read, whatever     *)
(* commands failed and whoever else used the card.  A clone only gets      *)
(* through where no answer to the challenge was looked at, which the code  *)
(* lets pass (token.cpp:339-340).                                          *)
AcceptedMeansVerified ==
  \A t \in Threads : Accepted(t) =>
    /\ auth[t] # "none" => hashed[t]["id"] = "genuine"
    /\ auth[t] = "internal" =>
         /\ hashed[t]["kpub"] = "genuine"
         /\ cloned => ~challenged[t]

(* A call makes its own luck: whatever state the card was left in by calls *)
(* that failed half-way or by other threads, a readNis that has the card   *)
(* to itself, and whose commands are carried out, returns the NIS; but for *)
(* AUTH_INTERNAL of a clone, which is found out then.                      *)
WrongOnlyIfDisturbed ==
  \A t \in Threads : result[t] # "none" /\ ~disturbed[t] =>
    result[t] = IF cloned /\ auth[t] = "internal" THEN "empty" ELSE "nis"

(* "Internal Authentication checks SOD digests and whether the card has    *)
(* been cloned" (nis_types.h:55), and authenticate returns "true if the    *)
(* token is valid" and "has not been cloned" (token.cpp:287-289).          *)
CloneDetected ==
  \A t \in Threads : cloned /\ auth[t] = "internal" => ~Accepted(t)

(* The result represents the NIS, or is empty if it cannot be read         *)
(* (token.cpp:390).                                                        *)
NisOrEmpty == \A t \in Threads : result[t] \in {"none", "nis", "empty"}

=============================================================================
