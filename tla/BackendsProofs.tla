---------------------------- MODULE BackendsProofs ----------------------------
(***************************************************************************)
(* Theorems about Backends, for any set of readers and any number of       *)
(* contexts and enumerations.                                              *)
(***************************************************************************)
EXTENDS Backends, TLAPS

Generation(tok) == tok[1]

(* Tokens and connections come from enumerations of the past, and the      *)
(* tokens there are carry the context of the backend that keeps them.      *)
ProvenanceInv ==
  /\ backend <= established
  /\ \A tok \in tokenList \cup open : Generation(tok) <= enumerations
  /\ \A tok \in tokenList : context[tok] = backend /\ backend # NoContext

(* isConnected is the other way round: a token that takes itself for       *)
(* connected has no card handle.                                           *)
FlagInv == isConnected \cap hasCard = {}

IInv ==
  /\ TypeOK
  /\ ProvenanceInv
  /\ PcscResourcesOwned
  /\ CardsSound
  /\ FlagInv

(* The tokens of one enumeration are new. *)
LEMMA NewTokens ==
  ASSUME IInv, enumerations < MaxEnumerations, NEW found \in SUBSET Readers,
         NEW new, new = {enumerations + 1} \X found
  PROVE  /\ new \subseteq Tokens
         /\ new \cap (tokenList \cup open) = {}
         /\ \A tok \in new : Generation(tok) = enumerations + 1
<1>1. enumerations + 1 \in 1 .. MaxEnumerations /\ enumerations \in Nat
  BY BackendBounds DEF IInv, TypeOK
<1>2. \A tok \in new : Generation(tok) = enumerations + 1
  BY DEF Generation
<1>3. new \subseteq Tokens
  BY <1>1 DEF Tokens
<1>4. \A tok \in tokenList \cup open : Generation(tok) # enumerations + 1
  <2>1. \A tok \in tokenList \cup open :
          Generation(tok) <= enumerations /\ Generation(tok) \in Nat
    BY DEF IInv, TypeOK, ProvenanceInv, Tokens, Generation
  <2>2. QED
    BY <1>1, <2>1
<1>5. QED
  BY <1>2, <1>3, <1>4

(* Every operation keeps the invariant. *)
LEMMA IInvStep ==
  ASSUME IInv, [Next]_vars
  PROVE  IInv'
<1> USE DEF IInv
<1>0. CASE UNCHANGED vars
  BY <1>0
     DEF vars, TypeOK, ProvenanceInv, PcscResourcesOwned, CardsSound, FlagInv
<1>1. CASE InitBackend
  BY <1>1, BackendBounds
     DEF InitBackend, HoldTokens, OpenAfterRelease, Sound, TypeOK,
            ProvenanceInv, PcscResourcesOwned, CardsSound, FlagInv,
            Contexts, NoContext, Generation
<1>2. ASSUME NEW found \in SUBSET Readers, Enumerate(found), Sound,
             UNCHANGED <<established, contexts, backend, handles>>,
             idList' \in {"null", "allocated", "freed"}, status' \in {"sound", "undefined"}
      PROVE  IInv'
  <2>1. PICK new : new = {enumerations + 1} \X found
    OBVIOUS
  <2>2. /\ new \subseteq Tokens
        /\ new \cap (tokenList \cup open) = {}
        /\ \A tok \in new : Generation(tok) = enumerations + 1
    BY <1>2, <2>1, NewTokens DEF Enumerate
  <2>3. /\ enumerations' = enumerations + 1 /\ enumerations' \in 0 .. MaxEnumerations
        /\ open' \subseteq open
        /\ tokenList' = new /\ isConnected' = {} /\ hasCard' = {}
        /\ context' = [tok \in Tokens |-> IF tok \in new THEN backend ELSE context[tok]]
        /\ backend # NoContext
    <3>1. /\ enumerations' = enumerations + 1 /\ open' \subseteq open /\ backend # NoContext
          /\ context' = [tok \in Tokens |-> IF tok \in new THEN backend ELSE context[tok]]
          /\ enumerations < MaxEnumerations
      BY <1>2, <2>1 DEF Enumerate, OpenAfterDestroying
    <3>2. tokenList' = new /\ isConnected' = isConnected \cap new /\ hasCard' = hasCard \cap new
      BY <1>2, <2>1 DEF Enumerate, HoldTokens
    <3>3. isConnected' = {} /\ hasCard' = {}
      BY <2>2, <3>2 DEF TypeOK
    <3>4. enumerations' \in 0 .. MaxEnumerations
      BY <3>1, BackendBounds DEF TypeOK
    <3>5. QED
      BY <3>1, <3>2, <3>3, <3>4
  <2>4. TypeOK'
    BY <1>2, <2>2, <2>3 DEF TypeOK
  <2>5. ProvenanceInv'
    <3>1. \A tok \in new : context'[tok] = backend /\ Generation(tok) <= enumerations'
      BY <2>2, <2>3 DEF TypeOK
    <3>2. \A tok \in open : Generation(tok) <= enumerations'
      BY <2>3 DEF TypeOK, ProvenanceInv, Tokens, Generation
    <3>3. QED
      BY <1>2, <2>3, <3>1, <3>2 DEF ProvenanceInv, Generation
  <2>6. PcscResourcesOwned'
    BY <1>2, <2>2, <2>3 DEF PcscResourcesOwned, TypeOK
  <2>7. CardsSound' /\ FlagInv'
    BY <2>3 DEF CardsSound, FlagInv, Reader
  <2>8. QED
    BY <2>4, <2>5, <2>6, <2>7
<1>3. CASE ListReaders /\ idList' \in {"null", "allocated", "freed"} /\ status' \in {"sound", "undefined"}
  <2>1. ASSUME NEW found \in SUBSET Readers, Enumerate(found) PROVE IInv'
    BY <1>2, <1>3, <2>1 DEF ListReaders
  <2>2. CASE UNCHANGED <<open, enumerations, tokenList, context, isConnected, hasCard>>
    BY <1>3, <2>2
       DEF ListReaders, TypeOK, ProvenanceInv, PcscResourcesOwned, CardsSound, FlagInv
  <2>3. QED
    BY <1>3, <2>1, <2>2 DEF ListReaders
<1>4. CASE ReadersList
  BY <1>3, <1>4 DEF ReadersList, TypeOK
<1>5. CASE AllocateReaderList
  BY <1>3, <1>5 DEF AllocateReaderList, StatusAfterDelete, TypeOK
<1>6. ASSUME NEW name \in Readers, GetToken(name) PROVE IInv'
  <2>1. PICK tok \in tokenList : Connect(tok)
    BY <1>6 DEF GetToken
  <2>2. TypeOK'
    BY <1>6, <2>1 DEF GetToken, Connect, TypeOK
  <2>3. ProvenanceInv' /\ PcscResourcesOwned'
    BY <1>6, <2>1
       DEF GetToken, Connect, ProvenanceInv, PcscResourcesOwned, Generation
  <2>4. CardsSound'
    BY <1>6, <2>1 DEF GetToken, Connect, CardsSound, Reader
  <2>5. FlagInv'
    BY <1>6, <2>1 DEF GetToken, Connect, FlagInv
  <2>6. QED
    BY <2>2, <2>3, <2>4, <2>5
<1>7. ASSUME NEW withBackend \in BOOLEAN, Deinit(withBackend) PROVE IInv'
  BY <1>7
     DEF Deinit, HoldTokens, OpenAfterRelease, StatusAfterDelete, TypeOK,
            ProvenanceInv, PcscResourcesOwned, CardsSound, FlagInv,
            Contexts, NoContext, Generation
<1>8. QED
  BY <1>0, <1>1, <1>4, <1>5, <1>6, <1>7 DEF Next

(* The invariant holds throughout every behaviour. *)
THEOREM Invariance == Spec => []IInv
<1>1. Init => IInv
  BY BackendBounds
     DEF Init, IInv, TypeOK, ProvenanceInv, PcscResourcesOwned, CardsSound, FlagInv,
         Contexts, NoContext
<1>2. IInv /\ [Next]_vars => IInv'
  BY IInvStep
<1>3. QED
  BY <1>1, <1>2, PTL DEF Spec

(* Members exist only of tokens that exist. *)
THEOREM TypeCorrect == Spec => []TypeOK
<1>1. IInv => TypeOK
  BY DEF IInv
<1>2. QED
  BY Invariance, <1>1, PTL

(* However often a client initialises, enumerates and connects, pcscd has  *)
(* at most the one context of the backend in use, and no connection of     *)
(* another.                                                                *)
THEOREM ResourcesOwned == Spec => []PcscResourcesOwned
<1>1. IInv => PcscResourcesOwned
  BY DEF IInv
<1>2. QED
  BY Invariance, <1>1, PTL

(* A card handle that a token holds is never one that was closed. *)
THEOREM CardsAlwaysSound == Spec => []CardsSound
<1>1. IInv => CardsSound
  BY DEF IInv
<1>2. QED
  BY Invariance, <1>1, PTL

(* A connection ends only with its context: the destructors of the tokens, *)
(* which look at isConnected, disconnect none that is open.                *)
THEOREM OnlyContextsEndConnections == Spec => ConnectionsEndWithContext
<1>1. ASSUME IInv, [Next]_vars, NEW tok \in open \ open'
      PROVE  context[tok] \notin contexts'
  <2>1. \A toks : OpenAfterDestroying(toks) = open
    BY <1>1 DEF OpenAfterDestroying, IInv, FlagInv
  <2>2. CASE InitBackend
    BY <1>1, <2>2, BackendBounds
       DEF InitBackend, OpenAfterRelease, IInv, TypeOK, ProvenanceInv, PcscResourcesOwned,
           Contexts, NoContext
  <2>3. CASE ListReaders
    BY <1>1, <2>1, <2>3 DEF ListReaders, Enumerate
  <2>4. ASSUME NEW name \in Readers, GetToken(name) PROVE FALSE
    BY <1>1, <2>4 DEF GetToken, Connect
  <2>5. ASSUME NEW withBackend \in BOOLEAN, Deinit(withBackend)
        PROVE  context[tok] \notin contexts'
    BY <1>1, <2>5 DEF Deinit, OpenAfterRelease
  <2>6. QED
    BY <1>1, <2>2, <2>3, <2>4, <2>5 DEF Next, vars, ReadersList, AllocateReaderList
<1>2. IInv /\ [Next]_vars => [\A tok \in open \ open' : context[tok] \notin contexts']_vars
  BY <1>1
<1>3. QED
  BY <1>2, Invariance, PTL DEF Spec, ConnectionsEndWithContext

=============================================================================
