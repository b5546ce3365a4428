--------------------------- MODULE CardSessionProofs ---------------------------
(***************************************************************************)
(* Proofs about CardSession, for any number of threads on one card: the    *)
(* types, that authenticate accepts only what it has verified, and that a  *)
(* readNis which nothing disturbs returns the NIS.                         *)
(***************************************************************************)
EXTENDS CardSession, SequenceTheorems, TLAPS

-----------------------------------------------------------------------------
(* What a thread has hashed by the time it is in a stage; only a digest    *)
(* that is there can be compared by verifySod.                             *)
HashedInv(t) ==
  /\ stage[t] \in {"kpub", "challenge", "sod"} => hashed[t]["id"] # "absent"
  /\ stage[t] = "challenge" => hashed[t]["kpub"] # "absent"
  /\ stage[t] = "sod" /\ auth[t] = "internal" /\ passed[t] =>
       hashed[t]["kpub"] # "absent"

(* A thread in a call has no result. *)
ResultInv(t) == InCall(t) => result[t] = "none"

(* A clone's answer to the challenge is never the right one.               *)
ChallengeInv(t) == InCall(t) /\ cloned /\ challenged[t] => ~passed[t]

VerifiedInv(t) ==
  Accepted(t) =>
    /\ auth[t] # "none" => hashed[t]["id"] = "genuine"
    /\ auth[t] = "internal" =>
         /\ hashed[t]["kpub"] = "genuine"
         /\ cloned => ~challenged[t]

ThreadInv(t) ==
  HashedInv(t) /\ ResultInv(t) /\ ChallengeInv(t) /\ VerifiedInv(t)

IInv == TypeOK /\ \A t \in Threads : ThreadInv(t)

Keeps(f, t) == \A u \in Threads : u # t => f'[u] = f[u]

(* The state of a thread is its own. *)
KeepsOthers(t) ==
  /\ Keeps(stage, t) /\ Keeps(auth, t) /\ Keeps(hashed, t)
  /\ Keeps(passed, t) /\ Keeps(challenged, t) /\ Keeps(result, t)

-----------------------------------------------------------------------------
(* Types. *)
Steps == {"none", "ias", "cie", "ef", "read", "mse", "internal"}
Results == {"none", "nis", "empty", "other", "undefined"}

ControlOK ==
  /\ stage \in [Threads -> Stages]
  /\ step \in [Threads -> Steps]
  /\ content \in [Threads -> Seq(Files)]
  /\ \A t \in Threads : Len(content[t]) <= LongFile

OutcomeOK ==
  /\ hashed \in [Threads -> [Files -> {"absent", "genuine", "other"}]]
  /\ passed \in [Threads -> BOOLEAN]
  /\ result \in [Threads -> Results]

CardOK ==
  /\ cloned \in BOOLEAN
  /\ challenged \in [Threads -> BOOLEAN]
  /\ df \in {"none", "ias", "cie"}
  /\ ef \in Files \cup {"none"}
  /\ se \in BOOLEAN
  /\ auth \in [Threads -> {"none", "passive", "internal"}]
  /\ disturbed \in [Threads -> BOOLEAN]

LEMMA TypeParts == TypeOK <=> ControlOK /\ OutcomeOK /\ CardOK
BY DEF TypeOK, ControlOK, OutcomeOK, CardOK, Steps, Results

LEMMA EnterTypes ==
  ASSUME ControlOK, NEW t \in Threads, NEW s \in Stages, NEW c \in Steps,
         Enter(t, s, c)
  PROVE  ControlOK'
<1>1. <<>> \in Seq(Files) /\ Len(<<>>) = 0 BY EmptySeq
<1>2. QED BY <1>1 DEF ControlOK, Enter, LongFile

LEMMA ReturnTypes ==
  ASSUME ControlOK, OutcomeOK, NEW t \in Threads, NEW r \in Results,
         Return(t, r)
  PROVE  ControlOK' /\ result' \in [Threads -> Results]
<1>1. ControlOK' BY EnterTypes DEF Return, Stages, Steps
<1>2. QED BY <1>1 DEF Return, OutcomeOK

LEMMA DisturbTypes ==
  ASSUME TypeOK, NEW t \in Threads, Served(t) \/ Refused(t) \/ Lost(t)
  PROVE  disturbed' \in [Threads -> BOOLEAN]
BY DEF TypeOK, Served, Refused, Lost, Disturb, InCall

LEMMA ReturnTrueTypes ==
  ASSUME ControlOK, OutcomeOK, NEW t \in Threads, NEW untouched \in BOOLEAN,
         ReturnTrue(t, untouched)
  PROVE  ControlOK' /\ OutcomeOK' /\ UNCHANGED auth
<1> DEFINE found == IF untouched THEN <<>> ELSE content[t]
<1>a. UNCHANGED auth BY DEF ReturnTrue
<1>u. ASSUME Undefined(t) PROVE ControlOK' /\ OutcomeOK'
  <2>1. Return(t, "undefined") /\ UNCHANGED <<hashed, passed>>
    BY <1>u DEF Undefined
  <2>2. ControlOK' /\ result' \in [Threads -> Results]
    BY <2>1, ReturnTypes DEF Results
  <2>3. QED BY <2>1, <2>2 DEF OutcomeOK
<1>1. CASE AfterId(t, found)
  <2>1. CASE Undefined(t)
    BY <1>a, <1>u, <2>1
  <2>2. CASE ~Undefined(t)
    <3>1. Enter(t, IF auth[t] = "internal" THEN "kpub" ELSE "sod", "ias")
          /\ UNCHANGED <<passed, result>> /\ Hash(t, "id", Head(found) = "id")
      BY <1>1, <2>2 DEF AfterId
    <3>2. ControlOK' BY <3>1, EnterTypes DEF Stages, Steps
    <3>3. QED BY <1>a, <3>1, <3>2 DEF Hash, OutcomeOK, Files
  <2>3. QED BY <2>1, <2>2
<1>2. CASE AfterKpub(t, found)
  <2>1. CASE Undefined(t)
    BY <1>a, <1>u, <2>1
  <2>2. CASE ~Undefined(t)
    <3>1. /\ Hash(t, "kpub", found = Whole("kpub")) /\ UNCHANGED result
          /\ Enter(t, "challenge", "mse") \/ Enter(t, "sod", "ias")
          /\ UNCHANGED passed \/ passed' = [passed EXCEPT ![t] = FALSE]
      BY <1>2, <2>2 DEF AfterKpub
    <3>2. ControlOK' BY <3>1, EnterTypes DEF Stages, Steps
    <3>3. QED BY <1>a, <3>1, <3>2 DEF Hash, OutcomeOK, Files
  <2>3. QED BY <2>1, <2>2
<1>3. CASE AfterSod(t, found)
  <2>1. CASE Undefined(t)
    BY <1>a, <1>u, <2>1
  <2>2. CASE ~Undefined(t)
    <3>1. UNCHANGED hashed /\ Judge(t, VerifySod(t))
      BY <1>3, <2>2 DEF AfterSod
    <3>2. passed' \in [Threads -> BOOLEAN]
      BY <3>1 DEF Judge, OutcomeOK, VerifySod
    <3>3. ControlOK' /\ result' \in [Threads -> Results]
      <4>1. CASE Enter(t, "select", "ias") /\ UNCHANGED result
        BY <4>1, EnterTypes DEF Stages, Steps, OutcomeOK
      <4>2. CASE Return(t, "empty") BY <4>2, ReturnTypes DEF Results
      <4>3. QED BY <3>1, <4>1, <4>2 DEF Judge
    <3>4. QED BY <1>a, <3>1, <3>2, <3>3 DEF OutcomeOK
  <2>3. QED BY <2>1, <2>2
<1>4. CASE AfterNis(t, untouched, found)
  <2>1. \E r \in Results : Return(t, r) BY <1>4 DEF AfterNis, Results
  <2>2. ControlOK' /\ result' \in [Threads -> Results] BY <2>1, ReturnTypes
  <2>3. QED BY <1>a, <1>4, <2>2 DEF AfterNis, OutcomeOK
<1>5. QED BY <1>1, <1>2, <1>3, <1>4 DEF ReturnTrue

LEMMA ReturnFalseTypes ==
  ASSUME ControlOK, OutcomeOK, NEW t \in Threads, ReturnFalse(t)
  PROVE  ControlOK' /\ OutcomeOK' /\ UNCHANGED auth
<1>1. passed' \in [Threads -> BOOLEAN] /\ UNCHANGED <<auth, hashed>>
  BY DEF ReturnFalse, OutcomeOK
<1>2. CASE Enter(t, "sod", "ias") /\ UNCHANGED result
  BY <1>1, <1>2, EnterTypes DEF Stages, Steps, OutcomeOK
<1>3. CASE Return(t, "empty")
  BY <1>1, <1>3, ReturnTypes DEF Results, OutcomeOK
<1>4. QED BY <1>2, <1>3 DEF ReturnFalse

LEMMA ProceedTypes ==
  ASSUME ControlOK, OutcomeOK, NEW t \in Threads, NEW c \in Steps,
         Proceed(t, c)
  PROVE  ControlOK' /\ OutcomeOK' /\ UNCHANGED auth
BY DEF Proceed, ControlOK, OutcomeOK

LEMMA TypeStep ==
  ASSUME TypeOK, [Next]_vars
  PROVE  TypeOK'
<1> USE TypeParts
<1>0. CASE UNCHANGED vars
  BY <1>0 DEF vars, TypeOK
<1>p. ControlOK /\ OutcomeOK /\ CardOK OBVIOUS
<1>c. ASSUME ControlOK', OutcomeOK', CardOK' PROVE TypeOK'
  BY <1>c DEF TypeOK, ControlOK, OutcomeOK, CardOK, Steps, Results
<1>1. ASSUME NEW t \in Threads, NEW a \in Auths, ReadNis(t, a) PROVE TypeOK'
  <2>1. ControlOK' BY <1>1, <1>p, EnterTypes DEF ReadNis, Stages, Steps
  <2>2. OutcomeOK' BY <1>1, <1>p DEF ReadNis, OutcomeOK, Results
  <2>3. CardOK' BY <1>1, <1>p, AuthAssumption DEF ReadNis, CardOK, card
  <2>4. QED BY <1>c, <2>1, <2>2, <2>3
<1>2. ASSUME NEW t \in Threads, ReadSelectIas(t) PROVE TypeOK'
  <2>1. /\ Served(t) \/ Refused(t) \/ Lost(t)
        /\ UNCHANGED challenge
        /\ SelectDf("ias") \/ UNCHANGED card
        /\ Proceed(t, "cie") \/ ReturnTrue(t, TRUE)
    BY <1>2 DEF ReadSelectIas, Refused, Lost
  <2>2. ControlOK' /\ OutcomeOK' /\ UNCHANGED auth
    BY <1>p, <2>1, ProceedTypes, ReturnTrueTypes DEF Steps
  <2>3. CardOK'
    BY <1>p, <2>1, <2>2, DisturbTypes DEF challenge, CardOK, card, SelectDf
  <2>4. QED BY <1>c, <2>2, <2>3
<1>3. ASSUME NEW t \in Threads, ReadSelectCie(t) PROVE TypeOK'
  <2>1. /\ Served(t) \/ Refused(t) \/ Lost(t)
        /\ UNCHANGED challenge
        /\ SelectDf("cie") \/ UNCHANGED card
        /\ Proceed(t, "ef") \/ ReturnTrue(t, TRUE)
    BY <1>3 DEF ReadSelectCie, Refused, Lost
  <2>2. ControlOK' /\ OutcomeOK' /\ UNCHANGED auth
    BY <1>p, <2>1, ProceedTypes, ReturnTrueTypes DEF Steps
  <2>3. CardOK'
    BY <1>p, <2>1, <2>2, DisturbTypes DEF challenge, CardOK, card, SelectDf
  <2>4. QED BY <1>c, <2>2, <2>3
<1>4. ASSUME NEW t \in Threads, ReadSelectEf(t) PROVE TypeOK'
  <2>1. /\ Served(t) \/ Refused(t) \/ Lost(t)
        /\ UNCHANGED challenge
        /\ UNCHANGED card \/ (ef' = Target(t) /\ UNCHANGED <<df, se>>)
        /\ Proceed(t, "read") \/ ReturnFalse(t)
        /\ stage[t] \in Reads
    BY <1>4 DEF ReadSelectEf, Refused, Lost
  <2>2. ControlOK' /\ OutcomeOK' /\ UNCHANGED auth
    BY <1>p, <2>1, ProceedTypes, ReturnFalseTypes DEF Steps
  <2>3. Target(t) \in Files BY <2>1 DEF Target, Files, Reads
  <2>4. CardOK'
    BY <1>p, <2>1, <2>2, <2>3, DisturbTypes DEF challenge, CardOK, card
  <2>5. QED BY <1>c, <2>2, <2>4
<1>5. ASSUME NEW t \in Threads, ReadPage(t) PROVE TypeOK'
  <2>1. (Served(t) \/ Refused(t) \/ Lost(t)) /\ UNCHANGED card /\ UNCHANGED challenge
    BY <1>5 DEF ReadPage, Refused, Lost
  <2>2. CASE ReturnTrue(t, FALSE)
    <3>1. ControlOK' /\ OutcomeOK' /\ UNCHANGED auth
      BY <1>p, <2>2, ReturnTrueTypes
    <3>2. CardOK' BY <1>p, <2>1, <3>1, DisturbTypes DEF challenge, CardOK, card
    <3>3. QED BY <1>c, <3>1, <3>2
  <2>3. CASE ~ReturnTrue(t, FALSE)
    <3>1. /\ PageLeft(t) /\ content' = [content EXCEPT ![t] = Append(@, ef)]
          /\ UNCHANGED <<stage, step, auth, hashed, passed, result>>
      BY <1>5, <2>3 DEF ReadPage
    <3>2. content[t] \in Seq(Files) /\ ef \in Files /\ Len(content[t]) < Pages(ef)
      BY <1>p, <3>1 DEF ControlOK, CardOK, PageLeft
    <3>3. /\ Append(content[t], ef) \in Seq(Files)
          /\ Len(Append(content[t], ef)) = Len(content[t]) + 1
          /\ Len(content[t]) \in Nat
      BY <3>2, AppendProperties, LenProperties
    <3>4. Len(Append(content[t], ef)) <= LongFile
      BY <3>2, <3>3 DEF Pages, LongFile
    <3>5. ControlOK' BY <1>p, <3>1, <3>3, <3>4 DEF ControlOK
    <3>6. OutcomeOK' BY <1>p, <3>1 DEF OutcomeOK
    <3>7. CardOK' BY <1>p, <2>1, <3>1, DisturbTypes DEF challenge, CardOK, card
    <3>8. QED BY <1>c, <3>5, <3>6, <3>7
  <2>4. QED BY <2>2, <2>3
<1>6. ASSUME NEW t \in Threads, MseSet(t) PROVE TypeOK'
  <2>1. /\ Served(t) \/ Refused(t) \/ Lost(t)
        /\ UNCHANGED challenge
        /\ Enter(t, "challenge", "internal") \/ Enter(t, "sod", "ias")
        /\ UNCHANGED <<auth, hashed, passed, result>>
        /\ UNCHANGED <<df, ef>> /\ (se' = TRUE \/ UNCHANGED se)
    BY <1>6 DEF MseSet, Refused, Lost, card
  <2>2. ControlOK' BY <1>p, <2>1, EnterTypes DEF Stages, Steps
  <2>3. OutcomeOK' BY <1>p, <2>1 DEF OutcomeOK
  <2>4. CardOK' BY <1>p, <2>1, DisturbTypes DEF challenge, CardOK
  <2>5. QED BY <1>c, <2>2, <2>3, <2>4
<1>7. ASSUME NEW t \in Threads, InternalAuthenticate(t) PROVE TypeOK'
  <2>1. /\ Served(t) \/ Refused(t) \/ Lost(t)
        /\ Enter(t, "sod", "ias")
        /\ UNCHANGED <<cloned, auth, hashed, result>> /\ UNCHANGED card
        /\ \E right \in BOOLEAN : Compare(t, right) \/ UNCHANGED <<passed, challenged>>
    BY <1>7 DEF InternalAuthenticate, Refused, Lost, CardOK
  <2>2. ControlOK' BY <1>p, <2>1, EnterTypes DEF Stages, Steps
  <2>3. OutcomeOK' BY <1>p, <2>1 DEF OutcomeOK, Compare
  <2>4. CardOK' BY <1>p, <2>1, DisturbTypes DEF CardOK, card, Compare
  <2>5. QED BY <1>c, <2>2, <2>3, <2>4
<1>8. ASSUME NEW t \in Threads, SelectIas(t) \/ SelectCie(t) PROVE TypeOK'
  <2>1. /\ Served(t) \/ Refused(t) \/ Lost(t)
        /\ UNCHANGED challenge
        /\ SelectDf("ias") \/ SelectDf("cie") \/ UNCHANGED card
        /\ \/ Enter(t, "select", "cie") /\ UNCHANGED result
           \/ Enter(t, "nis", "ias") /\ UNCHANGED result
           \/ Return(t, "empty")
        /\ UNCHANGED <<auth, hashed, passed>>
    BY <1>8 DEF SelectIas, SelectCie, Refused, Lost
  <2>2. ControlOK' /\ result' \in [Threads -> Results]
    <3>1. CASE Return(t, "empty") BY <1>p, <3>1, ReturnTypes DEF Results
    <3>2. CASE ~Return(t, "empty")
      BY <1>p, <2>1, <3>2, EnterTypes DEF Stages, Steps, OutcomeOK
    <3>3. QED BY <3>1, <3>2
  <2>3. OutcomeOK' BY <1>p, <2>1, <2>2 DEF OutcomeOK
  <2>4. CardOK' BY <1>p, <2>1, DisturbTypes DEF challenge, CardOK, card, SelectDf
  <2>5. QED BY <1>c, <2>2, <2>3, <2>4
<1>9. QED
  BY <1>0, <1>1, <1>2, <1>3, <1>4, <1>5, <1>6, <1>7, <1>8 DEF Next, Step

LEMMA TypeInit == Init => TypeOK
<1>1. <<>> \in Seq(Files) /\ Len(<<>>) = 0 BY EmptySeq
<1>2. QED BY <1>1 DEF Init, TypeOK, Files, Stages, LongFile

(* Every variable of a call, and what the model keeps of the card, has its *)
(* type; nothing is ever read beyond the end of a file.                    *)
THEOREM TypeCorrect == Spec => []TypeOK
<1>1. QED BY TypeInit, TypeStep, PTL DEF Spec

-----------------------------------------------------------------------------
(* What authenticate accepts. *)

LEMMA EnterMoves ==
  ASSUME TypeOK, NEW t \in Threads, NEW s, NEW c, Enter(t, s, c)
  PROVE  stage'[t] = s /\ Keeps(stage, t)
BY DEF Enter, TypeOK, Keeps

LEMMA ReturnMoves ==
  ASSUME TypeOK, NEW t \in Threads, NEW r, Return(t, r)
  PROVE  /\ stage'[t] \in {"idle", "crashed"} /\ Keeps(stage, t)
         /\ result'[t] = r /\ Keeps(result, t)
<1>1. stage'[t] \in {"idle", "crashed"} /\ Keeps(stage, t)
  BY EnterMoves DEF Return
<1>2. QED BY <1>1 DEF Return, TypeOK, Keeps

(* A call that returns anything but the NIS claims nothing. *)
LEMMA EmptyHanded ==
  ASSUME TypeOK, NEW t \in Threads, NEW r, r # "nis", Return(t, r)
  PROVE  ThreadInv(t)' /\ Keeps(stage, t) /\ Keeps(result, t)
BY ReturnMoves
   DEF ThreadInv, HashedInv, ResultInv, ChallengeInv, VerifiedInv, Accepted, InCall

LEMMA Unchanged ==
  ASSUME NEW t \in Threads, UNCHANGED <<stage, auth, hashed, passed, result>>,
         UNCHANGED challenge, ThreadInv(t)
  PROVE  ThreadInv(t)' /\ KeepsOthers(t)
BY DEF challenge, ThreadInv, HashedInv, ResultInv, ChallengeInv, VerifiedInv,
       Accepted, InCall, KeepsOthers, Keeps

(* A step of a call that compares no answer, and makes no doubtful thread  *)
(* pass.                                                                   *)
LEMMA ChallengeKept ==
  ASSUME NEW t \in Threads, ThreadInv(t), InCall(t),
         UNCHANGED <<cloned, challenged>>, passed'[t] => passed[t]
  PROVE  ChallengeInv(t)'
BY DEF ThreadInv, ChallengeInv

LEMMA ReturnTrueStep ==
  ASSUME TypeOK, NEW t \in Threads, ThreadInv(t), NEW untouched \in BOOLEAN,
         UNCHANGED challenge, ReturnTrue(t, untouched)
  PROVE  ThreadInv(t)' /\ KeepsOthers(t)
<1> DEFINE found == IF untouched THEN <<>> ELSE content[t]
           Goal == ThreadInv(t)' /\ KeepsOthers(t)
<1>a. UNCHANGED <<auth, cloned, challenged>> BY DEF ReturnTrue, challenge
<1>b. stage[t] \in Reads BY DEF ReturnTrue, Reads
<1>r. result[t] = "none" BY <1>b DEF ThreadInv, ResultInv, InCall, Reads
<1>c. ASSUME passed'[t] => passed[t] PROVE ChallengeInv(t)'
  BY <1>a, <1>b, <1>c, ChallengeKept DEF InCall, Reads
<1>u. ASSUME Undefined(t) PROVE Goal
  <2>1. Return(t, "undefined") /\ UNCHANGED <<hashed, passed>>
    BY <1>u DEF Undefined
  <2>2. QED BY <1>a, <2>1, EmptyHanded DEF KeepsOthers, Keeps
<1>1. CASE stage[t] = "id" /\ AfterId(t, found)
  <2> DEFINE next == IF auth[t] = "internal" THEN "kpub" ELSE "sod"
  <2>1. CASE Undefined(t) BY <1>u, <2>1
  <2>2. CASE ~Undefined(t)
    <3>1. /\ Enter(t, next, "ias") /\ UNCHANGED <<passed, result>>
          /\ Hash(t, "id", Head(found) = "id")
      BY <1>1, <2>2 DEF AfterId
    <3>2. stage'[t] = next /\ Keeps(stage, t) BY <3>1, EnterMoves
    <3>3. hashed'[t]["id"] # "absent" /\ Keeps(hashed, t)
      BY <3>1 DEF Hash, TypeOK, Files, Keeps
    <3>4. ThreadInv(t)'
      BY <1>a, <1>c, <1>r, <3>1, <3>2, <3>3
         DEF ThreadInv, HashedInv, ResultInv, VerifiedInv, Accepted
    <3>5. QED BY <1>a, <3>1, <3>2, <3>3, <3>4 DEF KeepsOthers, Keeps
  <2>3. QED BY <2>1, <2>2
<1>2. CASE stage[t] = "kpub" /\ AfterKpub(t, found)
  <2>1. CASE Undefined(t) BY <1>u, <2>1
  <2>2. CASE ~Undefined(t)
    <3>1. /\ Hash(t, "kpub", found = Whole("kpub")) /\ UNCHANGED result
          /\ \/ Enter(t, "challenge", "mse") /\ UNCHANGED passed
             \/ Enter(t, "sod", "ias") /\ passed' = [passed EXCEPT ![t] = FALSE]
      BY <1>2, <2>2 DEF AfterKpub
    <3>2. stage'[t] \in {"challenge", "sod"} /\ Keeps(stage, t)
      BY <3>1, EnterMoves
    <3>3. /\ hashed'[t]["kpub"] # "absent" /\ Keeps(hashed, t)
          /\ hashed'[t]["id"] = hashed[t]["id"]
      BY <3>1 DEF Hash, TypeOK, Files, Keeps
    <3>4. Keeps(passed, t) BY <3>1 DEF Keeps, TypeOK
    <3>5. hashed[t]["id"] # "absent" BY <1>2 DEF ThreadInv, HashedInv
    <3>6. (passed'[t] => passed[t]) /\ (stage'[t] = "sod" => hashed'[t]["kpub"] # "absent")
      BY <3>1, <3>3 DEF TypeOK
    <3>8. ThreadInv(t)'
      BY <1>a, <1>c, <1>r, <3>1, <3>2, <3>3, <3>5, <3>6
         DEF ThreadInv, HashedInv, ResultInv, VerifiedInv, Accepted
    <3>9. QED BY <1>a, <3>1, <3>2, <3>3, <3>4, <3>8 DEF KeepsOthers, Keeps
  <2>3. QED BY <2>1, <2>2
<1>3. CASE stage[t] = "sod" /\ AfterSod(t, found)
  <2>1. CASE Undefined(t) BY <1>u, <2>1
  <2>2. CASE ~Undefined(t)
    <3>1. Judge(t, VerifySod(t)) /\ UNCHANGED hashed
      BY <1>3, <2>2 DEF AfterSod
    <3>2. Keeps(passed, t) BY <3>1 DEF Judge, TypeOK, Keeps
    <3>3. CASE Return(t, "empty")
      <4>1. ThreadInv(t)' /\ Keeps(stage, t) /\ Keeps(result, t)
        BY <3>3, EmptyHanded
      <4>2. QED BY <1>a, <3>1, <3>2, <4>1 DEF KeepsOthers, Keeps
    <3>4. CASE ~Return(t, "empty")
      <4>1. /\ passed[t] /\ VerifySod(t)
            /\ Enter(t, "select", "ias") /\ UNCHANGED result
        BY <3>1, <3>4 DEF Judge
      <4>2. stage'[t] = "select" /\ Keeps(stage, t) BY <4>1, EnterMoves
      <4>3. hashed[t]["id"] = "genuine"
        BY <1>3, <4>1 DEF VerifySod, ThreadInv, HashedInv, TypeOK, Files
      <4>4. auth[t] = "internal" => hashed[t]["kpub"] = "genuine"
        BY <1>3, <4>1 DEF VerifySod, ThreadInv, HashedInv, TypeOK, Files
      <4>5. cloned => ~challenged[t]
        BY <1>b, <4>1 DEF ThreadInv, ChallengeInv, InCall, Reads
      <4>7. ThreadInv(t)'
        BY <1>a, <1>c, <1>r, <3>1, <4>1, <4>2, <4>3, <4>4, <4>5
           DEF ThreadInv, HashedInv, ResultInv, VerifiedInv, Accepted
      <4>8. QED BY <1>a, <3>1, <3>2, <4>1, <4>2, <4>7 DEF KeepsOthers, Keeps
    <3>5. QED BY <3>3, <3>4
  <2>3. QED BY <2>1, <2>2
<1>4. CASE stage[t] = "nis" /\ AfterNis(t, untouched, found)
  <2>1. PICK r : Return(t, r) /\ UNCHANGED <<hashed, passed>>
    BY <1>4 DEF AfterNis
  <2>2. /\ stage'[t] \in {"idle", "crashed"} /\ Keeps(stage, t)
        /\ result'[t] = r /\ Keeps(result, t)
    BY <2>1, ReturnMoves
  <2>3. ThreadInv(t)'
    BY <1>a, <1>4, <2>1, <2>2
       DEF ThreadInv, HashedInv, ResultInv, ChallengeInv, VerifiedInv, Accepted, InCall
  <2>4. QED BY <1>a, <2>1, <2>2, <2>3 DEF KeepsOthers, Keeps
<1>5. QED BY <1>1, <1>2, <1>3, <1>4 DEF ReturnTrue

LEMMA ReturnFalseStep ==
  ASSUME TypeOK, NEW t \in Threads, ThreadInv(t), stage[t] \in Reads,
         UNCHANGED challenge, ReturnFalse(t)
  PROVE  ThreadInv(t)' /\ KeepsOthers(t)
<1>1. UNCHANGED <<auth, hashed, cloned, challenged>> /\ Keeps(passed, t)
  BY DEF ReturnFalse, Keeps, TypeOK, challenge
<1>2. CASE Return(t, "empty")
  <2>1. ThreadInv(t)' /\ Keeps(stage, t) /\ Keeps(result, t)
    BY <1>2, EmptyHanded
  <2>2. QED BY <1>1, <2>1 DEF KeepsOthers, Keeps
<1>3. CASE ~Return(t, "empty")
  <2>1. /\ stage[t] = "kpub" /\ Enter(t, "sod", "ias") /\ UNCHANGED result
        /\ passed' = [passed EXCEPT ![t] = FALSE]
    BY <1>3 DEF ReturnFalse
  <2>2. stage'[t] = "sod" /\ Keeps(stage, t) BY <2>1, EnterMoves
  <2>3. ~passed'[t] BY <2>1 DEF TypeOK
  <2>4. ThreadInv(t)'
    BY <1>1, <2>1, <2>2, <2>3
       DEF ThreadInv, HashedInv, ResultInv, ChallengeInv, VerifiedInv, Accepted, InCall
  <2>5. QED BY <1>1, <2>1, <2>2, <2>4 DEF KeepsOthers, Keeps
<1>4. QED BY <1>2, <1>3

LEMMA OwnStep ==
  ASSUME TypeOK, NEW t \in Threads, ThreadInv(t), Step(t)
  PROVE  ThreadInv(t)' /\ KeepsOthers(t)
<1> DEFINE Goal == ThreadInv(t)' /\ KeepsOthers(t)
<1>1. ASSUME NEW a \in Auths, ReadNis(t, a) PROVE Goal
  <2>1. /\ Enter(t, IF a = "none" THEN "select" ELSE "id", "ias")
        /\ auth' = [auth EXCEPT ![t] = a]
        /\ hashed' = [hashed EXCEPT ![t] = [file \in Files |-> "absent"]]
        /\ passed' = [passed EXCEPT ![t] = TRUE]
        /\ challenged' = [challenged EXCEPT ![t] = FALSE]
        /\ result' = [result EXCEPT ![t] = "none"] /\ UNCHANGED cloned
    BY <1>1 DEF ReadNis
  <2>2. /\ stage'[t] = (IF a = "none" THEN "select" ELSE "id")
        /\ Keeps(stage, t)
    BY <2>1, EnterMoves
  <2>3. auth'[t] = a /\ result'[t] = "none" /\ ~challenged'[t]
    BY <2>1 DEF TypeOK
  <2>4. ThreadInv(t)'
    BY <2>2, <2>3 DEF ThreadInv, HashedInv, ResultInv, ChallengeInv, VerifiedInv, Accepted, InCall
  <2>5. QED BY <2>1, <2>2, <2>4 DEF KeepsOthers, Keeps
<1>2. CASE UNCHANGED challenge /\ \E c : Proceed(t, c)
  BY <1>2, Unchanged DEF Proceed
<1>3. CASE ReadSelectIas(t)
  BY <1>2, <1>3, ReturnTrueStep DEF ReadSelectIas
<1>4. CASE ReadSelectCie(t)
  BY <1>2, <1>4, ReturnTrueStep DEF ReadSelectCie
<1>5. CASE ReadSelectEf(t)
  BY <1>2, <1>5, ReturnFalseStep DEF ReadSelectEf
<1>6. CASE ReadPage(t)
  BY <1>6, Unchanged, ReturnTrueStep DEF ReadPage
<1>7. CASE MseSet(t)
  <2>1. /\ stage[t] = "challenge" /\ UNCHANGED <<auth, hashed, passed, result>>
        /\ UNCHANGED <<cloned, challenged>>
        /\ Enter(t, "challenge", "internal") \/ Enter(t, "sod", "ias")
    BY <1>7 DEF MseSet, At, challenge
  <2>2. stage'[t] \in {"challenge", "sod"} /\ Keeps(stage, t)
    BY <2>1, EnterMoves
  <2>3. ThreadInv(t)'
    BY <2>1, <2>2 DEF ThreadInv, HashedInv, ResultInv, ChallengeInv, VerifiedInv, Accepted, InCall
  <2>4. QED BY <2>1, <2>2, <2>3 DEF KeepsOthers, Keeps
<1>8. CASE InternalAuthenticate(t)
  <2>1. /\ stage[t] = "challenge" /\ UNCHANGED <<cloned, auth, hashed, result>>
        /\ Enter(t, "sod", "ias")
        /\ \/ Compare(t, se /\ ~cloned /\ hashed[t]["kpub"] # "other")
           \/ UNCHANGED <<passed, challenged>>
    BY <1>8 DEF InternalAuthenticate, At
  <2>2. stage'[t] = "sod" /\ Keeps(stage, t) BY <2>1, EnterMoves
  <2>3. Keeps(passed, t) /\ Keeps(challenged, t)
    BY <2>1 DEF Compare, Keeps, TypeOK
  <2>4. (passed'[t] => passed[t]) /\ (cloned /\ challenged'[t] => ~passed'[t])
    BY <2>1 DEF Compare, ThreadInv, ChallengeInv, InCall, TypeOK
  <2>5. ThreadInv(t)'
    BY <2>1, <2>2, <2>4
       DEF ThreadInv, HashedInv, ResultInv, ChallengeInv, VerifiedInv, Accepted, InCall
  <2>6. QED BY <2>1, <2>2, <2>3, <2>5 DEF KeepsOthers, Keeps
<1>9. CASE SelectIas(t) \/ SelectCie(t)
  <2>1. /\ stage[t] = "select" /\ UNCHANGED <<auth, hashed, passed>>
        /\ UNCHANGED <<cloned, challenged>>
        /\ \/ Enter(t, "select", "cie") /\ UNCHANGED result
           \/ Enter(t, "nis", "ias") /\ UNCHANGED result
           \/ Return(t, "empty")
    BY <1>9 DEF SelectIas, SelectCie, At, challenge
  <2>2. CASE Return(t, "empty")
    <3>1. ThreadInv(t)' /\ Keeps(stage, t) /\ Keeps(result, t)
      BY <2>2, EmptyHanded
    <3>2. QED BY <2>1, <3>1 DEF KeepsOthers, Keeps
  <2>3. CASE ~Return(t, "empty")
    <3>1. stage'[t] \in {"select", "nis"} /\ Keeps(stage, t) /\ UNCHANGED result
      BY <2>1, <2>3, EnterMoves
    <3>2. ThreadInv(t)'
      BY <2>1, <3>1 DEF ThreadInv, HashedInv, ResultInv, ChallengeInv, VerifiedInv, Accepted, InCall
    <3>3. QED BY <2>1, <3>1, <3>2 DEF KeepsOthers, Keeps
  <2>4. QED BY <2>2, <2>3
<1>10. QED
  BY <1>1, <1>3, <1>4, <1>5, <1>6, <1>7, <1>8, <1>9 DEF Step

(* A card does not turn into a clone. *)
LEMMA CardStays == ASSUME NEW t \in Threads, Step(t) PROVE UNCHANGED cloned
BY DEF Step, ReadNis, ReadSelectIas, ReadSelectCie, ReadSelectEf, ReadPage, MseSet,
       InternalAuthenticate, SelectIas, SelectCie, challenge

LEMMA InvariantStep ==
  ASSUME IInv, [Next]_vars
  PROVE  IInv'
<1>1. TypeOK' BY TypeStep DEF IInv
<1>2. CASE UNCHANGED vars
  <2>1. UNCHANGED <<stage, auth, hashed, passed, result>> /\ UNCHANGED challenge
    BY <1>2 DEF vars, challenge
  <2>2. QED BY <1>1, <2>1, Unchanged DEF IInv
<1>3. ASSUME NEW t \in Threads, Step(t) PROVE IInv'
  <2>1. ThreadInv(t)' /\ KeepsOthers(t) /\ UNCHANGED cloned
    BY <1>3, OwnStep, CardStays DEF IInv
  <2>2. ASSUME NEW u \in Threads, u # t PROVE ThreadInv(u)'
    <3>1. /\ stage'[u] = stage[u] /\ auth'[u] = auth[u]
          /\ hashed'[u] = hashed[u] /\ passed'[u] = passed[u]
          /\ challenged'[u] = challenged[u] /\ result'[u] = result[u]
      BY <2>1, <2>2 DEF KeepsOthers, Keeps
    <3>2. ThreadInv(u) BY DEF IInv
    <3>3. QED
      BY <2>1, <3>1, <3>2 DEF ThreadInv, HashedInv, ResultInv, ChallengeInv, VerifiedInv, Accepted, InCall
  <2>3. QED BY <1>1, <2>1, <2>2 DEF IInv
<1>4. QED BY <1>2, <1>3 DEF Next

LEMMA InvariantInit == Init => IInv
BY TypeInit
   DEF Init, IInv, ThreadInv, HashedInv, ResultInv, ChallengeInv, VerifiedInv, Accepted, InCall

THEOREM Invariance == Spec => []IInv
<1>1. QED BY InvariantInit, InvariantStep, PTL DEF Spec

(* However many threads share the card, and whatever commands fail, a      *)
(* thread past authenticate has verified the files its method is about.    *)
THEOREM AcceptanceIsVerified == Spec => []AcceptedMeansVerified
<1>1. IInv => AcceptedMeansVerified
  BY DEF IInv, ThreadInv, VerifiedInv, AcceptedMeansVerified
<1>2. QED BY <1>1, Invariance, PTL

-----------------------------------------------------------------------------
(* What a call has come to as long as it is undisturbed: it has the card   *)
(* where it left it, only pages of its file, and no digest of another one. *)

(* The call is one a clone is found out by.                                *)
Doubt(t) == cloned /\ auth[t] = "internal"

Expected(t) == IF Doubt(t) THEN "empty" ELSE "nis"

QuietCall(t) ==
  /\ result[t] \in {"none", Expected(t)}
  /\ stage[t] \in {"id", "kpub", "challenge"} => passed[t]
  /\ stage[t] = "sod" => passed[t] = ~Doubt(t)
  /\ stage[t] \in {"select", "nis"} => ~Doubt(t)
  /\ stage[t] \in {"kpub", "challenge"} => auth[t] = "internal"
  /\ At(t, "challenge", "internal") => se
  /\ \A file \in Files : hashed[t][file] # "other"

QuietRead(t) ==
  stage[t] \in Reads =>
    /\ step[t] \in {"ias", "cie", "ef"} => content[t] = <<>>
    /\ step[t] = "ef" => df = "cie"
    /\ step[t] = "read" =>
         /\ ef = Target(t)
         /\ Len(content[t]) <= Pages(ef)
         /\ content[t] = [n \in 1 .. Len(content[t]) |-> ef]

QuietInv(t) == ~disturbed[t] => QuietCall(t) /\ QuietRead(t)

(* A command that failed disturbs its call; any command disturbs the calls *)
(* of the other threads, and nothing else.                                 *)
LEMMA Disturbance ==
  ASSUME TypeOK, NEW t \in Threads
  PROVE  /\ Refused(t) \/ Lost(t) => disturbed'[t]
         /\ Served(t) /\ ~disturbed'[t] => ~disturbed[t]
         /\ Served(t) \/ Refused(t) \/ Lost(t) =>
              \A u \in Threads : u # t =>
                /\ InCall(u) => disturbed'[u]
                /\ disturbed[u] => disturbed'[u]
BY DEF TypeOK, Served, Refused, Lost, Disturb

LEMMA EnterReads ==
  ASSUME TypeOK, NEW t \in Threads, NEW s, NEW c, Enter(t, s, c),
         s \in Reads => c = "ias"
  PROVE  QuietRead(t)'
BY DEF Enter, TypeOK, QuietRead

LEMMA ReturnReads ==
  ASSUME TypeOK, NEW t \in Threads, NEW r, Return(t, r)
  PROVE  QuietRead(t)'
BY EnterReads DEF Return, Reads

(* An undisturbed read_EF_file has read the whole file.                    *)
LEMMA QuietReturnTrue ==
  ASSUME TypeOK, NEW t \in Threads, QuietCall(t), ReturnTrue(t, FALSE),
         UNCHANGED cloned, content[t] = Whole(Target(t))
  PROVE  QuietCall(t)' /\ QuietRead(t)'
<1>d. UNCHANGED auth /\ (Doubt(t)' <=> Doubt(t)) /\ Expected(t)' = Expected(t)
  BY DEF ReturnTrue, Doubt, Expected
<1>1. /\ stage[t] \in Reads /\ Target(t) \in Files
      /\ content[t] # <<>> /\ Head(content[t]) = Target(t)
      /\ Len(content[t]) = Pages(Target(t))
  <2>1. stage[t] \in Reads /\ Target(t) \in Files
    BY DEF ReturnTrue, Reads, Target, Files
  <2>2. Pages(Target(t)) \in {1, 2}
    BY DEF Pages, LongFile
  <2>3. content[t] = [n \in 1 .. Pages(Target(t)) |-> Target(t)]
    BY DEF Whole
  <2>4. /\ content[t] \in Seq(Files) /\ Len(content[t]) = Pages(Target(t))
        /\ content[t][1] = Target(t)
    BY <2>1, <2>2, <2>3
  <2>. QED  BY <2>1, <2>2, <2>4
<1>2. CASE stage[t] = "id" /\ AfterId(t, content[t])
  <2>1. /\ Hash(t, "id", TRUE) /\ UNCHANGED <<passed, result>>
        /\ Enter(t, IF auth[t] = "internal" THEN "kpub" ELSE "sod", "ias")
    BY <1>1, <1>2 DEF AfterId, Target
  <2>2. QuietRead(t)'
    BY <2>1, EnterReads DEF Reads
  <2>3. stage'[t] = (IF auth[t] = "internal" THEN "kpub" ELSE "sod")
    BY <2>1, EnterMoves
  <2>4. \A file \in Files : hashed'[t][file] # "other"
    BY <2>1 DEF QuietCall, Hash, TypeOK, Files
  <2>5. passed'[t] /\ result'[t] = result[t]
    BY <1>2, <2>1 DEF QuietCall
  <2>. QED  BY <1>d, <2>2, <2>3, <2>4, <2>5 DEF QuietCall, Doubt, At
<1>3. CASE stage[t] = "kpub" /\ AfterKpub(t, content[t])
  <2>1. /\ Hash(t, "kpub", TRUE) /\ UNCHANGED <<passed, result>>
        /\ Enter(t, "challenge", "mse")
    <3>1. content[t] = Whole("kpub") /\ Head(content[t]) = "kpub"
          /\ content[t] # <<>> /\ Len(content[t]) >= Pages(Head(content[t]))
      BY <1>1, <1>3 DEF Target, Pages, LongFile
    <3>. QED  BY <1>3, <3>1 DEF AfterKpub
  <2>2. QuietRead(t)'
    BY <2>1, EnterReads DEF Reads
  <2>3. stage'[t] = "challenge" /\ step'[t] = "mse" /\ auth[t] = "internal"
    BY <1>3, <2>1, EnterMoves DEF Enter, QuietCall, TypeOK
  <2>4. \A file \in Files : hashed'[t][file] # "other"
    BY <2>1 DEF QuietCall, Hash, TypeOK, Files
  <2>5. passed'[t] /\ result'[t] = result[t]
    BY <1>3, <2>1 DEF QuietCall
  <2>. QED  BY <1>d, <2>2, <2>3, <2>4, <2>5 DEF QuietCall, Doubt, At
<1>4. CASE stage[t] = "sod" /\ AfterSod(t, content[t])
  <2>1. VerifySod(t)
    BY <1>4 DEF VerifySod, QuietCall, Target
  <2>2. Judge(t, VerifySod(t)) /\ UNCHANGED hashed
    BY <1>1, <1>4 DEF AfterSod
  <2>3. passed[t] = ~Doubt(t)
    BY <1>4 DEF QuietCall
  <2>4. CASE Doubt(t)
    <3>1. Return(t, "empty")
      BY <2>2, <2>3, <2>4 DEF Judge
    <3>. QED  BY <1>d, <2>2, <2>4, <3>1, ReturnReads, ReturnMoves
             DEF QuietCall, Expected, At
  <2>5. CASE ~Doubt(t)
    <3>1. Enter(t, "select", "ias") /\ UNCHANGED <<result, hashed>>
      BY <2>1, <2>2, <2>3, <2>5 DEF Judge
    <3>2. QuietRead(t)' /\ stage'[t] = "select"
      BY <3>1, EnterReads, EnterMoves DEF Reads
    <3>. QED  BY <1>d, <2>5, <3>1, <3>2 DEF QuietCall, At
  <2>. QED  BY <2>4, <2>5
<1>5. CASE stage[t] = "nis" /\ AfterNis(t, FALSE, content[t])
  <2>1. Return(t, "nis") /\ UNCHANGED <<hashed, passed>>
    BY <1>1, <1>5 DEF AfterNis, Target
  <2>2. Expected(t) = "nis"
    BY <1>5 DEF QuietCall, Expected
  <2>. QED  BY <1>d, <2>1, <2>2, ReturnReads, ReturnMoves DEF QuietCall, At
<1>. QED  BY <1>2, <1>3, <1>4, <1>5 DEF ReturnTrue

(* A page more, of the file that is selected.                              *)
LEMMA QuietPage ==
  ASSUME TypeOK, NEW t \in Threads, QuietRead(t), stage[t] \in Reads,
         step[t] = "read", PageLeft(t),
         content' = [content EXCEPT ![t] = Append(@, ef)],
         UNCHANGED <<df, ef, stage, step>>
  PROVE  QuietRead(t)'
<1>. DEFINE n == Len(content[t])
<1>1. /\ content[t] \in Seq(Files) /\ n \in Nat /\ ef \in Files
      /\ n < Pages(ef) /\ Pages(ef) \in Nat
      /\ content[t] = [i \in 1 .. n |-> ef] /\ ef = Target(t)
  BY LenProperties DEF TypeOK, PageLeft, QuietRead, Pages, LongFile
<1>2. content'[t] = Append(content[t], ef)
  BY DEF TypeOK
<1>3. Len(content'[t]) = n + 1 /\ n + 1 <= Pages(ef)
  BY <1>1, <1>2, AppendProperties
<1>4. content'[t] = [i \in 1 .. n + 1 |-> ef]
  <2>1. content'[t] = [i \in 1 .. n + 1 |-> IF i = n + 1 THEN ef ELSE content[t][i]]
    BY <1>1, <1>2
  <2>2. \A i \in 1 .. n + 1 : i # n + 1 => content[t][i] = ef
    BY <1>1
  <2>. QED  BY <2>1, <2>2
<1>. QED  BY <1>1, <1>3, <1>4 DEF QuietRead, Target

LEMMA QuietOwnStep ==
  ASSUME TypeOK, NEW t \in Threads, QuietInv(t), Step(t)
  PROVE  QuietInv(t)'
<1>. SUFFICES ASSUME ~disturbed'[t]
              PROVE  QuietCall(t)' /\ QuietRead(t)'
  BY DEF QuietInv
<1>0. Served(t) => QuietCall(t) /\ QuietRead(t)
  BY Disturbance DEF QuietInv
<1>n. ~Refused(t) /\ ~Lost(t)
  BY Disturbance
<1>c. UNCHANGED cloned
  BY CardStays
<1>k. ASSUME QuietCall(t), UNCHANGED <<stage, auth, hashed, passed, result>>, step'[t] # "internal"
      PROVE  QuietCall(t)'
  BY <1>c, <1>k DEF QuietCall, Doubt, Expected, At
<1>1. ASSUME NEW a \in Auths, ReadNis(t, a)
      PROVE  QuietCall(t)' /\ QuietRead(t)'
  <2>1. QuietRead(t)'
    BY <1>1, EnterReads DEF ReadNis, Reads
  <2>2. stage'[t] = (IF a = "none" THEN "select" ELSE "id")
    BY <1>1, EnterMoves DEF ReadNis
  <2>3. /\ auth'[t] = a /\ passed'[t] /\ result'[t] = "none"
        /\ \A file \in Files : hashed'[t][file] # "other"
    BY <1>1 DEF ReadNis, TypeOK, Files
  <2>. QED  BY <2>1, <2>2, <2>3 DEF QuietCall, Doubt, At
<1>2. CASE ReadSelectIas(t)
  <2>1. Served(t) /\ Proceed(t, "cie") /\ stage[t] \in Reads /\ step[t] = "ias"
    BY <1>n, <1>2 DEF ReadSelectIas
  <2>2. step'[t] = "cie"
    BY <2>1 DEF Proceed, TypeOK
  <2>3. QuietCall(t)'
    BY <1>0, <1>k, <2>1, <2>2 DEF Proceed
  <2>. QED  BY <1>0, <2>1, <2>2, <2>3 DEF Proceed, QuietRead
<1>3. CASE ReadSelectCie(t)
  <2>1. /\ Served(t) /\ SelectDf("cie") /\ Proceed(t, "ef")
        /\ stage[t] \in Reads /\ step[t] = "cie"
    BY <1>n, <1>3 DEF ReadSelectCie
  <2>2. step'[t] = "ef" /\ df' = "cie"
    BY <2>1 DEF Proceed, SelectDf, TypeOK
  <2>3. QuietCall(t)'
    BY <1>0, <1>k, <2>1, <2>2 DEF Proceed
  <2>. QED  BY <1>0, <2>1, <2>2, <2>3 DEF Proceed, QuietRead
<1>4. CASE ReadSelectEf(t)
  <2>1. /\ Served(t) /\ df = "cie" /\ ef' = Target(t) /\ Proceed(t, "read")
        /\ stage[t] \in Reads /\ step[t] = "ef"
    BY <1>0, <1>n, <1>4 DEF ReadSelectEf, QuietRead
  <2>2. QuietCall(t)'
    BY <1>0, <1>k, <2>1 DEF Proceed, TypeOK
  <2>3. content'[t] = <<>> /\ Target(t)' = Target(t) /\ step'[t] = "read"
    BY <1>0, <2>1 DEF Proceed, QuietRead, Target, TypeOK
  <2>4. Len(content'[t]) = 0 /\ content'[t] = [n \in 1 .. 0 |-> ef']
    BY <2>3
  <2>5. 0 <= Pages(ef')
    BY DEF Pages, LongFile
  <2>. QED  BY <2>1, <2>2, <2>3, <2>4, <2>5 DEF QuietRead
<1>5. CASE ReadPage(t)
  <2>1. Served(t) /\ UNCHANGED card /\ stage[t] \in Reads /\ step[t] = "read"
    BY <1>n, <1>5 DEF ReadPage
  <2>2. QuietCall(t) /\ QuietRead(t)
    BY <1>0, <2>1
  <2>3. CASE ReturnTrue(t, FALSE) /\ ~PageLeft(t)
    <3>1. /\ ef = Target(t) /\ ef \in Files /\ Len(content[t]) \in Nat
          /\ Len(content[t]) <= Pages(ef) /\ Pages(ef) \in Nat
          /\ content[t] = [n \in 1 .. Len(content[t]) |-> ef]
      BY <2>1, <2>2, LenProperties
         DEF QuietRead, Target, Reads, Files, Pages, LongFile, TypeOK
    <3>2. Len(content[t]) = Pages(ef)
      BY <2>3, <3>1 DEF PageLeft, Files
    <3>3. content[t] = Whole(Target(t))
      BY <3>1, <3>2 DEF Whole
    <3>. QED  BY <1>c, <2>2, <2>3, <3>3, QuietReturnTrue
  <2>4. CASE /\ PageLeft(t)
             /\ content' = [content EXCEPT ![t] = Append(@, ef)]
             /\ UNCHANGED <<stage, step, auth, hashed, passed, result>>
    BY <1>k, <2>1, <2>2, <2>4, QuietPage DEF card
  <2>. QED  BY <1>n, <1>5, <2>3, <2>4 DEF ReadPage
<1>6. CASE MseSet(t)
  <2>1. /\ Served(t) /\ Enter(t, "challenge", "internal") /\ se'
        /\ UNCHANGED <<auth, hashed, passed, result>> /\ stage[t] = "challenge"
    BY <1>n, <1>6 DEF MseSet, At
  <2>2. QuietRead(t)' /\ stage'[t] = "challenge"
    BY <2>1, EnterReads, EnterMoves DEF Reads
  <2>. QED  BY <1>0, <1>c, <2>1, <2>2 DEF QuietCall, Doubt, Expected
<1>7. CASE InternalAuthenticate(t)
  <2>1. /\ Served(t) /\ Enter(t, "sod", "ias") /\ UNCHANGED <<auth, hashed, result>>
        /\ At(t, "challenge", "internal")
    BY <1>n, <1>7 DEF InternalAuthenticate
  <2>2. /\ se /\ passed[t] /\ auth[t] = "internal" /\ hashed[t]["kpub"] # "other"
        /\ QuietCall(t)
    BY <1>0, <2>1 DEF QuietCall, At, Files
  <2>3. Compare(t, se /\ ~cloned /\ hashed[t]["kpub"] # "other")
    BY <1>n, <1>7, <2>2 DEF InternalAuthenticate
  <2>4. passed'[t] = ~Doubt(t)
    BY <2>2, <2>3 DEF Compare, Doubt, TypeOK
  <2>5. QuietRead(t)' /\ stage'[t] = "sod"
    BY <2>1, EnterReads, EnterMoves DEF Reads
  <2>. QED  BY <1>c, <2>1, <2>2, <2>4, <2>5 DEF QuietCall, Doubt, Expected, At
<1>8. CASE SelectIas(t) \/ SelectCie(t)
  <2>1. /\ Served(t) /\ UNCHANGED <<auth, hashed, passed, result>> /\ stage[t] = "select"
        /\ Enter(t, "select", "cie") \/ Enter(t, "nis", "ias")
    BY <1>n, <1>8 DEF SelectIas, SelectCie, At
  <2>2. QuietRead(t)' /\ stage'[t] \in {"select", "nis"}
    BY <2>1, EnterReads, EnterMoves DEF Reads
  <2>. QED  BY <1>0, <1>c, <2>1, <2>2 DEF QuietCall, Doubt, Expected, At
<1>. QED  BY <1>1, <1>2, <1>3, <1>4, <1>5, <1>6, <1>7, <1>8 DEF Step

(* The commands of another thread disturb a call, and leave alone a thread *)
(* that is in no call.                                                     *)
LEMMA QuietOtherStep ==
  ASSUME TypeOK, NEW t \in Threads, ThreadInv(t), Step(t),
         NEW u \in Threads, u # t, QuietInv(u)
  PROVE  QuietInv(u)'
<1>1. CASE \E a \in Auths : ReadNis(t, a)
  <2>1. /\ UNCHANGED card /\ UNCHANGED cloned /\ auth'[u] = auth[u]
        /\ stage'[u] = stage[u] /\ step'[u] = step[u] /\ content'[u] = content[u]
        /\ hashed'[u] = hashed[u] /\ passed'[u] = passed[u]
        /\ result'[u] = result[u] /\ disturbed'[u] = disturbed[u]
    BY <1>1 DEF ReadNis, Enter, TypeOK
  <2>2. (Doubt(u)' <=> Doubt(u)) /\ Expected(u)' = Expected(u) /\ UNCHANGED se
    BY <2>1 DEF Doubt, Expected, card
  <2>3. QuietCall(u) => QuietCall(u)'
    BY <2>1, <2>2 DEF QuietCall, At
  <2>. QED  BY <2>1, <2>3 DEF QuietInv, QuietRead, Target, card
<1>2. CASE ~\E a \in Auths : ReadNis(t, a)
  <2>1. Served(t) \/ Refused(t) \/ Lost(t)
    BY <1>2 DEF Step, ReadSelectIas, ReadSelectCie, ReadSelectEf, ReadPage, MseSet,
                InternalAuthenticate, SelectIas, SelectCie
  <2>2. /\ InCall(u) => disturbed'[u]
        /\ disturbed[u] => disturbed'[u]
    BY <2>1, Disturbance
  <2>3. KeepsOthers(t)
    BY OwnStep
  <2>4. CASE InCall(u)
    BY <2>2, <2>4 DEF QuietInv
  <2>5. CASE ~InCall(u)
    <3>1. stage'[u] \in {"idle", "crashed"}
      BY <2>3, <2>5 DEF KeepsOthers, Keeps, InCall
    <3>2. Expected(u)' = Expected(u) /\ result'[u] = result[u] /\ hashed'[u] = hashed[u]
      BY <2>3, CardStays DEF KeepsOthers, Keeps, Expected, Doubt
    <3>3. QuietCall(u) => QuietCall(u)'
      BY <3>1, <3>2 DEF QuietCall, At
    <3>4. QuietRead(u)'
      BY <3>1 DEF QuietRead, Reads
    <3>. QED  BY <2>2, <3>3, <3>4 DEF QuietInv
  <2>. QED  BY <2>4, <2>5
<1>. QED  BY <1>1, <1>2

LEMMA QuietStep ==
  ASSUME IInv, \A t \in Threads : QuietInv(t), [Next]_vars
  PROVE  \A t \in Threads : QuietInv(t)'
<1>1. CASE UNCHANGED vars
  <2>. SUFFICES ASSUME NEW t \in Threads
                PROVE  QuietInv(t) <=> QuietInv(t)'
    OBVIOUS
  <2>1. QuietCall(t) <=> QuietCall(t)'
    BY <1>1 DEF vars, QuietCall, Doubt, Expected, At
  <2>2. QuietRead(t) <=> QuietRead(t)'
    BY <1>1 DEF vars, QuietRead, Target
  <2>. QED  BY <1>1, <2>1, <2>2 DEF vars, QuietInv
<1>2. ASSUME NEW t \in Threads, Step(t), NEW u \in Threads
      PROVE  QuietInv(u)'
  BY <1>2, QuietOwnStep, QuietOtherStep DEF IInv
<1>. QED  BY <1>1, <1>2 DEF Next

(* A readNis that returns anything but the NIS was disturbed: whatever     *)
(* state the card was left in, and however many threads have used it.      *)
THEOREM UndisturbedIsRight == Spec => []WrongOnlyIfDisturbed
<1>. DEFINE QInv == \A t \in Threads : QuietInv(t)
<1>1. Init => QInv
  BY DEF Init, QuietInv, QuietCall, QuietRead, Reads, Files, At
<1>2. IInv /\ QInv /\ [Next]_vars => QInv'
  BY QuietStep
<1>3. QInv => WrongOnlyIfDisturbed
  BY DEF QuietInv, QuietCall, Expected, Doubt, WrongOnlyIfDisturbed
<1>. HIDE DEF QInv
<1>. QED  BY <1>1, <1>2, <1>3, Invariance, PTL DEF Spec

================================================================================
