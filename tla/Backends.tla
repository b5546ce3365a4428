------------------------------- MODULE Backends -------------------------------
(***************************************************************************)
(* The PC/SC backend of the SDK and the tokens it hands out: init,         *)
(* readersList, NIS_ReaderList, getToken and deinit, with ReaderPCSC and   *)
(* TokenPCSC under them and the contexts and exclusive connections of      *)
(* pcscd under those.  Every operation here is one step: the program locks *)
(* none of this, so it is modelled for a client that calls it from one     *)
(* thread at a time.  The executors that deinit stops first, and what may  *)
(* come in between, are in PollExecutors.                                  *)
(*                                                                         *)
(* A token is named by the enumeration that created it and its reader, and *)
(* a connection by the token that opened it.                               *)
(***************************************************************************)
EXTENDS Naturals

CONSTANTS
  Readers,          \* the names of the readers that may be attached
  MaxContexts,      \* bound on the PC/SC contexts established
  MaxEnumerations   \* bound on the enumerations of the readers

Contexts == 1 .. MaxContexts
NoContext == 0
Tokens == (1 .. MaxEnumerations) \X Readers
Reader(tok) == tok[2]

ASSUME BackendBounds ==
  /\ MaxContexts \in Nat
  /\ MaxEnumerations \in Nat

VARIABLES
  established,   \* pcscd: how many contexts were ever established
  contexts,      \* pcscd: the contexts that were not released
  open,          \* pcscd: the connections that are open
  backend,       \* the context of the ReaderPCSC in NISManager::backends
  enumerations,  \* how often the readers were enumerated
  tokenList,     \* the tokens the backend keeps, and so keeps alive
  context,       \* TokenPCSC::context
  isConnected,   \* the tokens with TokenPCSC::isConnected set
  hasCard,       \* the tokens whose TokenPCSC::card is their connection
  idList,        \* NISManager::idList
  handles,       \* what getToken returned and no deinit invalidated
  status         \* "undefined" once memory was freed twice

vars == <<established, contexts, open, backend, enumerations, tokenList,
          context, isConnected, hasCard, idList, handles, status>>

Sound == status = "sound"

-----------------------------------------------------------------------------
(* ~ReaderPCSC releases the context, which ends the context's connections, *)
(* and only then do the tokens go: their SCardDisconnect finds nothing.    *)
OpenAfterRelease(c) == {tok \in open : context[tok] # c}

(* ~TokenPCSC disconnects a token that takes itself for connected; the     *)
(* call can only succeed on a card handle that is one.                     *)
OpenAfterDestroying(toks) == open \ (toks \cap isConnected \cap hasCard)

(* Mutant of HoldTokens: what is known of a connection outlives its token. *)
HoldTokensAndMembers(toks) ==
  /\ tokenList' = toks
  /\ UNCHANGED <<isConnected, hasCard>>

(* The tokens a backend drops take their members with them. *)
HoldTokens(toks) ==
  /\ tokenList' = toks
  /\ isConnected' = isConnected \cap toks
  /\ hasCard' = hasCard \cap toks

(* Mutant of InitBackend: the context of the replaced backend is lost. *)
InitBackendLeaking ==
  /\ Sound
  /\ established < MaxContexts
  /\ established' = established + 1
  /\ contexts' = contexts \cup {established'}
  /\ backend' = established'
  /\ HoldTokens({})
  /\ UNCHANGED <<open, enumerations, context, idList, handles, status>>

(* Mutant of InitBackend: the new backend takes over the tokens of the old. *)
InitBackendKeepingTokens ==
  /\ Sound
  /\ established < MaxContexts
  /\ established' = established + 1
  /\ contexts' = (contexts \ {backend}) \cup {established'}
  /\ backend' = established'
  /\ open' = OpenAfterRelease(backend)
  /\ UNCHANGED <<enumerations, tokenList, context, isConnected, hasCard,
                 idList, handles, status>>

(* init(NIS_BACKEND_PCSC): a new ReaderPCSC replaces the one in the map.   *)
(* One that gets no context is dropped at once, and init returns -1.       *)
InitBackend ==
  /\ Sound
  /\ established < MaxContexts
  /\ established' = established + 1
  /\ contexts' = (contexts \ {backend}) \cup {established'}
  /\ backend' = established'
  /\ open' = OpenAfterRelease(backend)
  /\ HoldTokens({})
  /\ UNCHANGED <<enumerations, context, idList, handles, status>>

(* ReaderPCSC::enumerateReaderList clears the token list and fills it with *)
(* a new token for each reader found: none when SCardListReaders fails.    *)
Enumerate(found) ==
  LET new == {enumerations + 1} \X found IN
  /\ backend # NoContext
  /\ enumerations < MaxEnumerations
  /\ enumerations' = enumerations + 1
  /\ open' = OpenAfterDestroying(tokenList)
  /\ HoldTokens(new)
  /\ context' = [tok \in Tokens |-> IF tok \in new THEN backend ELSE context[tok]]

(* readersList enumerates the one backend there can be. *)
ListReaders ==
  /\ Sound
  /\ \/ \E found \in SUBSET Readers : Enumerate(found)
     \/ /\ backend = NoContext
        /\ UNCHANGED <<open, enumerations, tokenList, context, isConnected,
                       hasCard>>
  /\ UNCHANGED <<established, contexts, backend, handles>>

(* readersList, or NIS_ReaderList into an array of the client. *)
ReadersList == ListReaders /\ UNCHANGED <<idList, status>>

(* delete[] idList *)
StatusAfterDelete == IF idList = "freed" THEN "undefined" ELSE status

(* NIS_ReaderList with auto-allocation: allocateIdentifiersList deletes    *)
(* the old list.                                                           *)
AllocateReaderList ==
  /\ ListReaders
  /\ status' = StatusAfterDelete
  /\ idList' = "allocated"

(* Mutant of Connect: a failed connect leaves the card handle as it was. *)
ConnectKeepingCard(tok) ==
  \/ /\ tok \notin isConnected
     /\ \A other \in open : Reader(other) # Reader(tok)
     /\ open' = open \cup {tok}
     /\ hasCard' = hasCard \cup {tok}
     /\ handles' = handles \cup {tok}
     /\ UNCHANGED isConnected
  \/ /\ tok \notin isConnected
     /\ isConnected' = isConnected \cup {tok}
     /\ UNCHANGED <<open, hasCard, handles>>
  \/ /\ tok \in isConnected
     /\ handles' = handles \cup {tok}
     /\ UNCHANGED <<open, isConnected, hasCard>>

(* TokenPCSC::connect: SCardConnect asks for exclusive access, so it fails *)
(* while the reader has a connection, and may fail at any other time.  It  *)
(* zeroes the card handle when it fails.                                   *)
Connect(tok) ==
  \/ /\ tok \notin isConnected
     /\ \A other \in open : Reader(other) # Reader(tok)
     /\ open' = open \cup {tok}
     /\ hasCard' = hasCard \cup {tok}
     /\ handles' = handles \cup {tok}
     /\ UNCHANGED isConnected
  \/ /\ tok \notin isConnected
     /\ isConnected' = isConnected \cup {tok}
     /\ hasCard' = hasCard \ {tok}
     /\ UNCHANGED <<open, handles>>
  \/ /\ tok \in isConnected
     /\ handles' = handles \cup {tok}
     /\ UNCHANGED <<open, isConnected, hasCard>>

(* getToken returns the token of that name if connect() says OK. *)
GetToken(name) ==
  /\ Sound
  /\ \E tok \in tokenList : Reader(tok) = name /\ Connect(tok)
  /\ UNCHANGED <<established, contexts, backend, enumerations, tokenList,
                 context, idList, status>>

(* deinit removes the backend if its bit is set, and deletes the           *)
(* identifiers list, whose pointer it keeps.                               *)
Deinit(withBackend) ==
  /\ Sound
  /\ \/ /\ withBackend
        /\ contexts' = contexts \ {backend}
        /\ backend' = NoContext
        /\ open' = OpenAfterRelease(backend)
        /\ HoldTokens({})
        /\ handles' = {}
     \/ /\ ~withBackend
        /\ UNCHANGED <<contexts, backend, open, tokenList, isConnected,
                       hasCard, handles>>
  /\ status' = StatusAfterDelete
  /\ idList' = IF idList = "null" THEN "null" ELSE "freed"
  /\ UNCHANGED <<established, enumerations, context>>

-----------------------------------------------------------------------------
Init ==
  /\ established = 0
  /\ contexts = {}
  /\ open = {}
  /\ backend = NoContext
  /\ enumerations = 0
  /\ tokenList = {}
  /\ context = [tok \in Tokens |-> NoContext]
  /\ isConnected = {}
  /\ hasCard = {}
  /\ idList = "null"
  /\ handles = {}
  /\ status = "sound"

Next ==
  \/ InitBackend
  \/ ReadersList
  \/ AllocateReaderList
  \/ \E name \in Readers : GetToken(name)
  \/ \E withBackend \in BOOLEAN : Deinit(withBackend)

Spec == Init /\ [][Next]_vars

-----------------------------------------------------------------------------
(* Only a token that exists has members. *)
TypeOK ==
  /\ established \in 0 .. MaxContexts
  /\ contexts \subseteq Contexts
  /\ open \subseteq Tokens
  /\ backend \in Contexts \cup {NoContext}
  /\ enumerations \in 0 .. MaxEnumerations
  /\ tokenList \subseteq Tokens
  /\ context \in [Tokens -> Contexts \cup {NoContext}]
  /\ isConnected \subseteq tokenList
  /\ hasCard \subseteq tokenList
  /\ idList \in {"null", "allocated", "freed"}
  /\ handles \subseteq Tokens
  /\ status \in {"sound", "undefined"}

(* The SDK leaves nothing behind in pcscd: a context belongs to the        *)
(* backend in use, and a connection to that context.  Initialising again,  *)
(* or deinitialising, gives every reader free that an earlier call had     *)
(* taken for itself and lost track of.                                     *)
PcscResourcesOwned ==
  /\ contexts = {backend} \ {NoContext}
  /\ \A tok \in open : context[tok] = backend /\ backend # NoContext

(* No two connections to one reader, and no token that would transmit      *)
(* through a connection that was closed under it.                          *)
CardsSound ==
  /\ \A tok1, tok2 \in open : Reader(tok1) = Reader(tok2) => tok1 = tok2
  /\ hasCard \subseteq open

(* A card that getToken has taken for itself stays taken until init or     *)
(* deinit drops the context: no list of the readers and no other getToken  *)
(* gives it back.  isConnected, which is set when a connect fails and not  *)
(* when one succeeds (token_pcsc.cpp:26-28), keeps the destructor of a     *)
(* connected token from disconnecting it; it is a token without a card     *)
(* handle that tries.                                                      *)
ConnectionsEndWithContext ==
  [][\A tok \in open \ open' : context[tok] \notin contexts']_vars

(* Handles are good until deinit (nis.cpp:106, 229). *)
HandlesValidUntilDeinit == handles \subseteq tokenList

(* The list that NIS_ReaderList allocates is freed automatically on deinit *)
(* (nis.cpp:151): once.                                                    *)
ListFreedOnce == Sound

=============================================================================
