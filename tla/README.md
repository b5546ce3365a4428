# A TLA+ model of the CIE NIS SDK

The SDK reads the NIS, a twelve-digit number, from an Italian identity card
(CIE) through a PC/SC reader. A client lists the readers, gets a token for one
of them, and reads from the token either once (`readNis` without a callback) or
again and again on a background thread that calls the client back (`readNis`
with a callback, until `stopPoll` or `deinit`). The modules in this directory
model that life cycle, the dialogue with the card, the reading and the
verification of its files, and the parser, arrays and encodings underneath.
They are written from the C++ code in `src/src/`; line numbers below refer to
it.

- [Inventory](#inventory)
- [Modules](#modules)
- [Assumptions about what is not in the code](#assumptions-about-what-is-not-in-the-code)
- [Runs](#runs)
- [Disagreements between the code and its documents](#disagreements-between-the-code-and-its-documents)
- [Proofs](#proofs)
- [Not modelled](#not-modelled)
- [Plan](#plan)

## Inventory

| Component | State it keeps | Operations | What makes it correct |
|---|---|---|---|
| Polling executors: `nis.cpp`, `nis_manager.*`, `executor.h`, `uid.h`, `pollNis` and the polling `readNis` of `token.cpp` | the table of executors and its mutex; per executor its references, `exitPoll` and its thread; the uid counter | polling `readNis`, `stopPoll`, `deinit`, `pollNis` | the table is only used under the mutex; a thread can be stopped for as long as it runs; nobody uses a destroyed executor; `deinit` ends every thread there is when it removes the executors; no callback after the thread was joined; the mutex comes back |
| Backends and tokens: `nis.cpp`, `reader*`, `token_pcsc.*` | the backend, its PC/SC context, its tokens, each token's connection; the list of reader names; the handles clients have | `init`, `readersList`, `NIS_ReaderList`, `getToken`, `deinit` | contexts and connections belong to the backend in use; no token uses a closed connection; a reader that was taken is given back with its context |
| Card session: blocking `readNis` and `authenticate` of `token.cpp`, `requests.cpp`, `TokenPCSC::transmit` | what is selected on the card; per call the files read, their digests, the verdict | `readNis(auth)`, `authenticate`, `read_EF_file`, `select_df_*`, `mse_set`, `internal_authenticate` | accepted means verified, a clone is found out; a call works whatever an earlier one left behind; the result is the NIS or empty |
| File reading: `readBinaryContent` of `token.cpp` | offset, buffer, outcome | one call | the bytes are the file's, in order and complete, or the call fails; the loop ends |
| SOD verification: `verifySod` of `token.cpp` | the check that comes next, the entries compared, `hashSod` | one call | what is accepted was signed by the certificate the SOD names, with the hash of each file; nothing genuine is refused |
| ASN.1 parser: `asn/`, with `getASN1Tag` of `array.cpp` and the tag and length helpers of `util.cpp` | the calls of `Parse` under way, the tree of tags | `Parse`, `Reparse`, `Encode`, `GetASN1DataLenght`, `getASN1Tag` | tags and positions are those of the input; nothing of it is left out; nothing is read outside of it; encoding and parsing agree; a call ends |
| Reader list buffer: `NIS_ReaderList` of `nis.cpp` | the client's array, the place in it, what is left of it | one call | the names are where the client looks for them, and nothing is written outside of the array |
| Byte arrays: `util/array.*` | each array's block and size, views into blocks | construction, assignment, move, `resize`, `append`, `push`, `clear`, `mid`, `left`, `right` | each block has one owner, no freed block is read, no call changes another array |
| Padding and hexadecimal: `util/util.cpp` | the array that is padded; the place in the text that is read | `PutPaddingBT*`, `RemovePaddingBT*`, `ISOPad*`, `RemoveISOPad`, `ANSIPad`, `readHexData`, `dumpHexData` | what is put can be removed, what is dumped can be read, nothing is written outside of the array |
| Digests, exceptions, thread helpers, interactive session, examples | | | see [Not modelled](#not-modelled) |

The components meet in few places. The client calls the API from any of its
threads, and also from inside a callback. `readNis` with a callback creates a
background thread, `pollNis`, which calls the blocking `readNis` of its token in
a loop; the table in `NISManager` is all that connects that thread to a later
`stopPoll` or `deinit`, which set the plain bool `exitPoll` and join it. `deinit`
stops the threads first, gives the mutex back, and then destroys the backend with its
tokens: what starts a thread in between starts it on a token that is about to go. All
threads that read from one token share the connection to its card, without a
lock: what one of them selects, the others find selected.

Hard, then, are: the order of `readNis`, `stopPoll` and `deinit` against a thread
that starts, reads, calls back and sleeps on its own; the ownership of an
executor through five references in three threads; the mutex, locked by hand in
one place and held across thread creation and `join`; commands of several threads
on one card; commands that are refused or lost half-way through a call, whose
failure many callers do not look at; and objects that hold on to connections,
contexts and tokens that another call has closed. Under them there is sequential
code whose hard part is arithmetic and order: sums of `size_t` and differences that
wrap around, lengths that are believed before they are checked, arrays that free a
block before they read what is in it. `PROJECT.json` lists these
hazards line by line, with the properties that answer to them.

## Modules

| Module | Models | Its proofs |
|---|---|---|
| `PollService` | what polling promises a client (abstract) | `PollExecutorsProofs` |
| `PollExecutors` | polling `readNis`, `stopPoll`, the executor part of `deinit`, `pollNis` | `PollExecutorsProofs` |
| `Backends` | `init`, the reader lists, `getToken`, `deinit`, over PC/SC | `BackendsProofs` |
| `CardSession` | blocking `readNis`, `authenticate`, `requests.cpp`, over a shared card | `CardSessionProofs` |
| `FileRead` | what reading a file promises (abstract) | |
| `ReadBinary` | `readBinaryContent` | `ReadBinaryProofs` |
| `SodCheck` | `verifySod`, check by check | `SodCheckProofs` |
| `Asn1` | `CASNParser`, `CASNTag` | `Asn1Proofs` |
| `ByteArrays` | `ByteDynArray` and `ByteArray` | `InMemoryProofs` |
| `ReaderList` | the packing of names by `NIS_ReaderList` | `ReaderListProofs` |
| `Padding` | the paddings and their removal | `InMemoryProofs` |
| `HexText` | `readHexData`, `dumpHexData` | `InMemoryProofs` |
| `MC...` | instances for TLC; `MCSodCheck` has the SODs, and `MCInMemory` the last six components side by side | `InMemoryProofs` for `MCInMemory` |

A definition whose comment begins "Mutant of" is a variant of the code with a
plausible bug in it. No specification uses it: it shows that a property can fail.

### PollExecutors

Executor `e` is the object of the `e`-th polling call of `readNis`, and `e` also
names its background thread. An action is a step between two points at which
other threads can notice something: taking and giving back the mutex, creating
the thread, storing or erasing an entry, copying the pointer, the join.

| State | Code |
|---|---|
| `mutexType` | which of the mutexes POSIX allows as a default `execMutex` is (below) |
| `owner` | who holds `execMutex` |
| `executors` | `NISManager::executors`, from uid to executor |
| `calls`, `Uid` | the counter behind `Utils::getUid` and its 32-bit value |
| `refs` | who holds a `shared_ptr`: `readNis`'s frame (`pollCntr`), the table, the thread (`cntr`), `removeExecutor` (`pe`) |
| `exitPoll`, `joinable` | `PollExecutor::exitPoll`, and whether `PollExecutor::th` is joinable |
| `poller` | where `pollNis` is: created, at the test of `exitPoll`, reading, in the callback, asleep, done |
| `destroyed`, `late` | the executors whose token a `deinit` has destroyed; a history: those launched while a `deinit` was between the executors and the backend, or after their token was gone |
| `pc`, `op`, `hand`, `todo` | where a thread is in an API call, which call, the executor in its hands, the uids left to remove |
| `status` | the process: running, ended by `std::terminate`, or in undefined behaviour |

Some details of the code matter. `readNis` calls `lockExecutors` and then
`addExecutor`, which locks the same mutex again: what happens is up to the
platform's default mutex, and the model has all three cases: it waits for
itself for ever (`normal`, glibc), it throws (`errorcheck`, the BSDs), it succeeds
(`recursive`). `removeExecutor` erases the entry before it writes `exitPoll` and
copies the pointer through the erased iterator; the freed node is taken to keep
its contents for that long, so what counts is whether somebody else keeps the
executor alive. And `removeExecutor` joins with the mutex held, in `stopPoll` and,
for every executor in turn, in `deinit`. A join that throws (there is no thread,
or it is one's own) unwinds and releases the mutex. A `deinit` that has removed all of
them releases the mutex (`FinishRemoval`) and then removes the backend in a step of
its own (`RemoveBackend`): a `readNis` that waited for the mutex gets it between the
two (nis.cpp:113-116), and a thread whose token is gone is in undefined behaviour at
its next read.

`exitPoll` is a plain bool written and read by two threads. That is a data race;
the loop contains calls the compiler cannot see through, so it reads the flag
on every turn, and the model takes it so. `pollNis` has no return statement, which
does no harm in the unoptimised build that the CMake file makes.

### PollService

Each executor is absent, polling, stopping, stopped or reaped, its callback runs
or does not, and while it is stopping it may owe one last callback for the read
that was under way. `PollExecutors` implements it under the mapping at the end of
that module: the phase follows from `poller`, `exitPoll` and `joinable`.

### Backends

One API call is one action; the calls come one after the other, which is how
a client must use this part: none of it is locked. A token is named by the
enumeration that created it and its reader. `contexts` and `open` are what pcscd
knows of contexts and exclusive connections; `tokenList`, `context`,
`isConnected` and `hasCard` are what the SDK's objects say of them. `handles` are
the tokens a client was given and no `deinit` has invalidated. `connect` sets
`isConnected` when it fails and leaves it unset when it succeeds (token_pcsc.cpp:28),
and the model does the same. A poll, and what `deinit` does about it, are not in this
module: the window between the two halves of `deinit` is in `PollExecutors`.

### CardSession

Every command sent to the card is one step: it may be served, refused by the
card, or lost by the reader. `TokenPCSC::transmit` ignores what `SCardTransmit`
returns and looks at the end of the response instead, so that a lost command is
judged by what was in the response before: zeros, a failure, in a fresh one, and
the 9000 of the previous selection where `read_EF_file` uses one two-byte response
for three commands. The card is its selected DF, its selected EF and
whether MSE SET was done; and it is genuine or a clone, which has all the files and
not the private key, and so never answers the challenge right. A file is one or two pages, a page is named by the file
it is of. `stage` and `step` say which part of `readNis` a thread is in and its next
command; `hashed`, `passed`, `result` are `hashSet`, `authPassed` and what is returned.
Two variables are histories: `disturbed`, whether a command of the call failed or
another thread used the card meanwhile, and `challenged`, whether an answer was
compared with the challenge at all. `authenticate` has no `else` for an `mse_set` or an
`internal_authenticate` that fails (token.cpp:339-349): `passed` stays as it is then.

`read_EF_file` returns true when a DF cannot be selected (requests.cpp:187) and
whatever `readBinaryContent` returned, so its callers may go on with nothing or
with part of a file. Where they then read memory that is not there the result is
"undefined" and the thread takes no further step.

### ReadBinary and FileRead

A byte is named by its offset. Each `READ BINARY` of a page is one action per
outcome that the loop tells apart: 9000 (with a full page, or the short last one),
6282, 6Cxx with the repeated read, 6B00, anything else. The offset is sent in two bytes,
so that it starts again at `OffsetRange` (65536). From `SfiOffset` (32768) on the first
of them has its high bit set and is a short file identifier for the card, of this file
or of another, and only the second one is an offset (`ByIdentifier`, `Places`).
A repeated read that fails in its turn is `ReadShorterFails`: the code takes what the
buffer then holds for the page. `FileRead` reads a file in a single step, whole, or
fails.

### SodCheck

What `CardSession` takes as one step, a SOD that is accepted or not, is here the
sequence of checks of `verifySod`, in the code's order, with one step per entry of
the issuer's name and of the list of hashes. A SOD is the parts that the checks
compare: the list of hashes, the digest among the signed attributes, the algorithm,
the certificate and its key, the signature, issuer and serial number of the signer.
The numbers are sequences of octets, as they are in DER: the serial number is compared
with the octets of OpenSSL's magnitude (`Magnitude`, which has no 00 before a high
bit), and of a data group's number the first octet counts (`DataGroup`). The issuer's
name is a sequence of sets, of which the code looks at the first attribute, while the
name of the certificate is a list of all attributes (`entries`). A digest is
named by what it is the digest of, and a signature tells its key, its algorithm and
what was signed. `check` is the next check or the verdict: "accepted", "refused"
where the code throws, and "undefined" where it takes the first of something without
asking whether there is one (the first tag of the SOD, the first attribute of a set,
its type and value, the octet of a data group's number, the RSA key of the
certificate). Each attribute is compared in its first two tags only, as the code does.
The certificate is what OpenSSL makes of it: its entries have a type and a value.

### Asn1

A call of `Parse` is a `Level`: the bytes from the start of its data to the end of
the whole array, of which the first `size` are its data, and the place `l` in them.
The recursion of the code is the stack `levels`; one step is one turn of the loop, or
the end of a level. Keeping the bytes after a level's end matters because the code
reads the bytes of a length before it asks whether they are there. What a read beyond
the array returns is not modelled: the behaviour may go on as every outcome it can
lead to, and is "undefined" from there on if nothing stops it (`ReadBeyondArray`).
The tree is the sequence `elements`, each with its parent. Sums are modulo `SizeT`.
After a parse any tag's content may be parsed again (`Reparse`), the tree may be
encoded, wrapped in one more tag (`getASN1Tag`), and what came out parsed in its
turn. `Reparse` of a
bit string skips a byte that `Encode` then would not write; the parser refuses to
encode it, and so does the model.

### ByteArrays

A `ByteDynArray` is its `_data` (`block`) with the size of what the block holds; a
`ByteArray` is a `view`, one of which is kept. Each call is one action, in which
`new` may return any block that is free at that moment: also the one the call has
just freed. A call that reads a block which is no longer there, or more than it has,
sets `broken`. Sums of sizes are modulo the number of `size_t` values, in the bound check of a
view too, so that one whose end wraps around lies outside of its array. `lost` and
`stale` are history variables: the blocks whose only pointer the move assignment wrote
over, and whether the view's block was freed.

### ReaderList

One step is one turn of one of the function's two loops: measuring the names and
copying them. Names are their lengths; a cell of the array is a character of a name,
a NUL, or `Stale`, what was there before. `strncpy` fills all that is left with NULs,
and writes none when the name is as long as the room. `remainingLen` is an int that
may become negative; given to `strncpy` it then is huge, and the behaviour
"undefined".

### Padding and HexText

`Padding` puts a padding around a message, or takes an array of any origin, and
removes the padding. `HexText` reads a dump of its own or a text of another origin,
one turn of the loop at a time. In both, `size() - 3` and the like are differences
modulo the number of `size_t` values, and where a text is read behind its NUL every
answer is possible. `countHexData` and `setHexData` scan as `readHexData` does.

### How the modules fit together

Where a module takes as one step, or as given, what another one models, a property of
the other one says why that is right:

| Taken as given | in | is shown by |
|---|---|---|
| a `deinit` finds no thread on the tokens it destroys but those that are started once it has released the table | `Backends`, which has no polls | `DeinitQuiesces` of `PollExecutors` |
| a poll calls back between its start and the return of `stopPoll`, and at no other time | a client of the SDK | `ImplementsService` of `PollExecutors` |
| the commands of a token go to the card it was connected to | `CardSession` | `CardsSound` and `ConnectionsEndWithContext` of `Backends`, while the token lives |
| pages that are read come in order, until the end of the file or a failure | `CardSession` | `InOrder` and `ReadsWholeFile` of `ReadBinary` |
| a SOD that is accepted has the digests, and a genuine one is not refused | `CardSession` | `AcceptedIsSigned` and `GenuineIsAccepted` of `SodCheck`, with the exceptions these name |
| what the SOD's tags contain is what is at their positions in the SOD | `SodCheck` | `AsnNested`, `AsnSlices`, `AsnCovers` and `AsnRoundTrip` of `Asn1` |

These are arguments from one module to the next, not refinements that a tool checks,
but for the second and for `ReadsWholeFile`. That a token lives while a thread reads
from it is not among them: a list of the readers destroys it (`backends_relist`).

## Assumptions about what is not in the code

- pcscd: a context's connections end with the context; `SCardConnect` in exclusive
  mode fails while the reader has a connection, and zeroes the handle it is given.
  `SCardTransmit` that fails leaves the response and its length as they were.
- the card answers 6Cxx only to READ BINARY: `transmit` would write through a null
  pointer (token_pcsc.cpp:61) for every other command.
- the card: selecting a DF deselects the EF and undoes MSE SET; an EF can be
  selected only under the CIE's DF; files do not change; a genuine one answers
  the challenge with the key that belongs to its `Servizi_Int.Kpub`, and a clone has its
  files and answers something else. READ BINARY with the high bit of its first parameter
  set reads the file with that short identifier, and selects it.
- in `CardSession`, `verifySod` accepts a SOD if and only if it is genuine and has every
  digest in `hashSet`; what that takes, and the genuine SODs it refuses, are in `SodCheck`.
- OpenSSL: `d2i_X509` returns null or a certificate, whose name has entries of a type
  and a value; `RSA_verify` succeeds exactly for a signature by the key, over the
  digest, with the algorithm; the data of an `ASN1_INTEGER` is its magnitude, with no 00
  in front; an `X509_NAME` counts attributes, not sets.
- `new` does not fail; `RAND_bytes` may write any bytes.
- sizes: the size of an array is at most half of the largest `size_t` (`MaxArray`), as
  C++ allocators guarantee, and at most the four bytes of size beyond which
  `ASN1LLength` throws; `SizeT` is 256 to the power of `SizeBytes`; the size
  of an array that is padded is a `size_t` (`PadSizes`), and the text of a dump, three
  characters to a byte, and any text that is read, have a size that a `size_t` holds
  (`HexAssumption`).
- threads: scheduling is fair, see the liveness run.

## Runs

| Run | Question | Instance |
|---|---|---|
| `executors_safety` | `TypeOK`, `TableGuarded`, `NoOrphan`, `DeinitQuiesces`, `PromotionSucceeds`, and `ImplementsService` | two application threads, two polls, three uids, all mutex types, callbacks that call `readNis`, `stopPoll` and `deinit`; 868,000 states |
| `executors_liveness` | `MutexReleased`, `StopTakesEffect` | two application threads, one poll, recursive mutex, callbacks that do not call the API; 7,300 states |
| `executors_glibc_hang`, `executors_callback_stop` | violated, see below | one application thread, one poll |
| `backends_safety` | `TypeOK`, `PcscResourcesOwned`, `CardsSound`, `ConnectionsEndWithContext` | two readers, three contexts, three enumerations; 98,000 states |
| `backends_relist`, `backends_double_free` | violated, see below | one reader |
| `session_shared` | `TypeOK`, `AcceptedMeansVerified`, `WrongOnlyIfDisturbed` | two threads, all methods, a genuine card or a clone, any command refused or lost; 206,000 states |
| `session_lost` | violated, see below | one thread, no authentication |
| `session_clone` | violated, see below | one thread, internal authentication |
| `readbinary` | `TypeOK`, `InOrder`, `ReadsWholeFile`, `Terminates` | pages of 2 bytes, files up to 11, short identifiers from offset 8 on, offsets that wrap around at 16 and go on to 18, requests for all or 0 to 9 bytes, repeated reads that fail; 42,000 states |
| `in_memory` | 18 invariants of the six last modules, and `AsnTerminates`, `OthersUnchanged` | see below; 388,000 states |

**Executors.** `TableGuarded`: only the owner of the mutex is at a place where the
table is used. `NoOrphan`: a running thread's executor is in the table or in the
hands of a call, so there is always a way to stop it, and it is over when the
`stopPoll` that removed it returns. It needs uids that do not wrap around and does
not hold where the second lock throws, since the thread is already created then.
`DeinitQuiesces`: when `deinit` has removed the last executor no thread is left, and
those that are alive until it has removed the backend, or on a token that is gone, were
launched after it had released the mutex. That some are is a fault of the code which
the property delimits.
`PromotionSucceeds`: a new thread's `weak_ptr` can always be promoted, so the else
branches of `pollNis` are dead. Two application threads are enough for every pair of
calls to meet, and callbacks add two more callers; two executors are enough for an
entry to be removed while another is added, for a callback of one to stop the other,
and for `deinit` to find more than one. Three uids are more than the executors, so
the uid does not wrap; one is never used, so a `stopPoll` of an unknown uid occurs.

**Liveness.** Fairness is weak and per thread: the operating system runs every
thread that can run, the card transaction, the callback and the sleep end. No
fairness is assumed of a client (it need not call anything) and none of the mutex
(a thread that waits for it may wait for ever while others take turns), so what is
stated is that the mutex is given back, not that each waiter gets it. It is checked
for the one mutex type under which polling works and for callbacks that stay out of
the API, because otherwise it is not true: see `executors_callback_stop`. One poll is
enough: a second one would be one more turn of the loop of `deinit`, and its thread does
not wait for the first.

**Backends.** `PcscResourcesOwned` and `CardsSound` relate the SDK's idea of
connections with pcscd's, across re-initialisation and repeated listing.
`ConnectionsEndWithContext`: a reader that `getToken` has taken exclusively stays taken
until `init` or `deinit` drops the context. The destructor of a token is there to give it
back, but looks at the inverted `isConnected`, and so calls `SCardDisconnect` for tokens
only that have no card handle: a failing `connect`, which sets the flag, zeroes the
handle. Three
contexts and three enumerations allow a backend to be replaced and replaced again and
tokens of two earlier enumerations to be about; two readers allow one to be connected
while the other is not. The readers are interchangeable, which the symmetry set uses.

**Card session.** `AcceptedMeansVerified`: whatever fails and whoever else uses the
card, a call that gets past `authenticate` has verified digests, although most
results on the way there are ignored; and if its card is a clone and it asked for the
internal authentication, no answer to the challenge was looked at, which is what
`session_clone` shows can happen. `WrongOnlyIfDisturbed`: a call whose commands are
carried out and that has the card to itself returns the NIS, or finds the clone, from whatever state earlier
calls left the card in, including half-way failures of the same thread. Two threads
suffice: what others did shows only in the selection on the card, and one other thread
can set it to anything. Two pages are enough for a file to be cut short.

**Reading.** Bytes have eight values here and pages two bytes, so that a last page may be
short or full, four pages come before the first offset that is a short file
identifier (8), and the offset wraps around at 16; the loop is followed to offset 18
(`MaxOffset`), where the start of the file has been read again. `InOrder` says what is
true of such files: the bytes are in their places up to the first short identifier.
`ReadsWholeFile` speaks of the other case (`Plain`, below), as the theorem does.
`Terminates` assumes that commands return.

**In memory.** The components of this run share nothing, so that one of them moves
while the others are in their initial states: every behaviour of each, and no product
of them.

- `Asn1`: arrays of up to four bytes of every kind the parser tells apart (primitive,
  constructed, multi-byte and zero tags, bit strings, lengths in the short, long and
  indefinite form), the same after a sequence's tag; sizes around 127, 128, 255 and
  258, where lengths grow a byte; `SizeT` is 256^2, so that three bytes of length
  lose one and a sum can wrap around. `AsnNested` and `AsnSlices` say that the tree
  is one of the input: each tag lies in its parent, after the tags before it, and its
  positions cut a tag out of the array, of a sequence too: the last byte of the tag, a
  length that stands for exactly the rest, and the content. `AsnCovers`: the tags of a
  level leave no gap, and what comes after the last of them begins with an end of
  contents. `AsnStraysOnlyIfTruncated` says when
  the parser leaves the array: only after a length that is cut off or that wraps
  around. `AsnRoundTrip`: what was parsed, encoded and parsed again is the same tree.
  `AsnTerminates`: a call ends. Fairness is weak and only of the parser's own
  turns: a thread that runs a call goes on with it.
- `ByteArrays`: two arrays of at most two bytes, three blocks, one more than can be
  owned, and a view, whose start and size are 0, 1 or 7; `size_t` has eight values
  (`BaSizeT`), so that the end of a view wraps around. Two arrays are enough for source and destination to differ or to
  be the same, and for a third block to be lost.
- `ReaderList`: up to three names of lengths 0 to 3, and arrays of every size up to
  more than the longest list needs (14).
- `SodCheck`: the SODs of a few documents, with lists that have two entries for a data
  group, a malformed one or one whose number has no octet or two, names of one set, two,
  or one set of two attributes, and serial numbers with and without a high bit and a 00;
  each also with any part changed, missing, or taken from another SOD; the digests
  of one or two files.
- `Padding`: messages that are shorter than a block by one, exactly a block and
  longer by one, for each block size, and around 256 bytes, where the mask of
  `ISOPad16` matters; arrays of 0 to 6 bytes for the paddings to the left, whose
  overhead is 3.
- `HexText`: every text of up to four characters from the kinds that the loop tells
  apart, every notation of every pair of four bytes (`Noted`), every dump of up to three bytes.

`MemoryTypeOK` is the conjunction of the modules' type invariants.

**Deadlock.** No run checks for it, since in every model the system may really stop:
a call of the in-memory components and of `readBinaryContent` ends, a client need not
call anything, the counters have bounds, and the process may have ended. That threads
wait for each other is a matter of `MutexReleased` and `ReadNisReturns`.

## Disagreements between the code and its documents

Found while modelling; each of these six has a run whose trace shows it.

- `executors_glibc_hang`: with glibc's default mutex a polling `readNis` waits for
  the mutex it holds (nis_manager.h:104 after token.cpp:260), and never
  "returns immediately" (nis.cpp:201). No poll can be started on Linux.
- `executors_callback_stop`: where polling works, a `stopPoll` joins with the mutex
  held while the callback it waits for is in a `stopPoll` of its own and waits for
  the mutex.
- `backends_relist`: handles die on the next listing, not on `deinit` (nis.cpp:106,
  229).
- `backends_double_free`: the list "automatically freed on deinit" (nis.cpp:151) is
  freed again by the next `deinit`, or by the next list.
- `session_lost`: with one lost selection the blocking `readNis` returns a status word
  as the NIS, and not an empty string (token.cpp:390).
- `session_clone`: a clone passes the internal authentication when `mse_set` or
  `internal_authenticate` fails (token.cpp:339-349), although "Internal Authentication checks
  SOD digests and whether the card has been cloned" (nis_types.h:55).

Others are in the models without a run of their own:

- a `getToken` that comes after one whose `connect` failed takes the token for connected
  and returns it, without a connection (`Connect`; token_pcsc.cpp:28), where nis.cpp:90
  promises `nullptr` on error; so does one that comes after two `getToken` of a token
  that was connected, since the second of them failed and zeroed the handle;
- a thread that is started while `deinit` is between the executors and the backend reads
  from a destroyed token (`RemoveBackend`, `PollRead`; nis.cpp:113-116);
- a genuine SOD is refused if its serial number has a 00 before a high bit, as DER has it,
  for OpenSSL's number has not (`CheckSerial`; token.cpp:187-190), or if a set of the
  issuer's name has more attributes than one (`CheckIssuerLength`; token.cpp:173-175); a
  data group whose number has a 00 in front is taken for the group 0 (`DataGroup`;
  token.cpp:203); and a certificate without an RSA key is used as if it had one
  (`CheckKey`; token.cpp:159-164). Conversely a serial number 80 in the SOD passes for 00 80
  of the certificate;
- a file beyond 32768 bytes is continued with the bytes of another one, or of its own
  beginning (`ByIdentifier`; token.cpp:484);
- a `stopPoll` that comes before the new thread has promoted its `weak_ptr` destroys
  the executor and its joinable thread, which ends the process (`RemoveExecutor`,
  `StatusAfterDrop`); executor.h:26 promises a graceful end;
- when the thread cannot be created `readNis` still returns 0 (`CreateThread`;
  token.cpp:240 promises a negative value), and the later `join` throws;
- two threads that read from one token undo each other's selections, and a read
  may then come back with nothing or, with lost commands, the wrong file (`CardSession`
  with two threads; example-nis-cpp.cpp:78 and 82 do start two on one token);
- the repeated `READ BINARY` after 6Cxx (token.cpp:500) assigns its result to a
  variable nobody reads, so that a failure is reported as success with bytes that are
  not the file's (`ReadShorterFails`; token.h:57);
- `contentLength` does not bound what is read (`Continue`; token.h:56): pages are
  read whole and the starting offset is not counted. The SDK only ever asks for -1;
- the parser reads the bytes of a length before it asks whether they are there
  (`ReadBeyondArray`; ASNParser.cpp:206), and a length that wraps around the sum
  passes the bound check (`Element`; ASNParser.cpp:225);
- the move assignment of a `ByteDynArray` leaks the block it had (`MoveAssign`;
  array.cpp:46), an array that is assigned to itself is empty then (`CopyAssign`),
  and `append` of a view of the array itself reads the freed block (`AppendView`); a view
  whose start and size wrap around when they are added passes its check (`Slice`;
  array.cpp:35, 174, 186);
- `PutPaddingBT1` and `PutPaddingBT2` fill beyond an array of two bytes
  (util.cpp:184), and a random zero in the filling of block type 2 makes the message
  longer when the padding is removed;
- the dump "00" may be read as no byte at all (`ZeroMark`; util.cpp:117);
- the last name of the readers is copied with a huge size when it would begin beyond
  the client's array (`CopyName`; nis.cpp:178);
- `verifySod` does not look at tags that follow the type and the value in an entry of
  the issuer's name (`CheckIssuerEntry`; token.cpp:183).

## Proofs

All are checked by TLAPS for every value of the constants that the named assumptions
(`...Assumption`, `BackendBounds`) allow.

**PollExecutorsProofs.** The theorems `TypeCorrect`, `TableIsGuarded`,
`NoThreadIsOrphaned`, `DeinitQuiescence` and `PromotionAlwaysSucceeds` follow from one
inductive invariant, `IInv`. None of them is inductive alone. That the table is guarded
rests on every position at the table being one of the owner (`LockInv`), with calls only
where their operation takes them (`CallInv`). That a thread can be found rests on an
executor belonging to the one `readNis` that made it until it is in the table
(`FreshInv`, `StartInv`), and on entries being unstopped executors under their own uid
(`EntryInv`). Promotion rests on the reference in `readNis`'s frame while the thread is
launched (`FrameInv`) and on a running thread being joinable (`ThreadInv`), which is why
nobody can destroy its executor quietly. `DeinitQuiesces` rests on `deinit` having every
entry left to remove (`KeysInv`), and, where the second lock throws and a thread is left
without an entry, on the mutex then staying locked (`ErrorcheckInv`); from the release of
the mutex on, `LateInv` keeps what was launched before apart from what was launched since.

`Implementation`, in the same module: `Spec => ImplementsService`, by `IInv` and
one lemma per action that says which step of the service it is, or a stutter.

**BackendsProofs.** `TypeCorrect`, `ResourcesOwned`, `CardsAlwaysSound`,
and the action property `OnlyContextsEndConnections`. The strengthening has two parts:
`ProvenanceInv`, that tokens and connections stem from enumerations of the past,
so that a new token is not an old one, and that the tokens there are carry the
context of the backend that keeps them; and `FlagInv`, that no token with `isConnected`
set has a card handle.

**CardSessionProofs.** `TypeCorrect`, `AcceptanceIsVerified` and
`UndisturbedIsRight`, for any number of threads. The invariant follows the verdict
through `authenticate`: by the time the SOD is compared each file the method is about
has left a digest, genuine or other, or has cost the call its `passed` (`HashedInv`),
so the comparison cannot pass for want of a digest; `VerifiedInv` carries what it
found to the result, and `ChallengeInv` that a clone whose answer was compared has not
`passed`. `UndisturbedIsRight` is the invariant `WrongOnlyIfDisturbed`:
`QuietInv` says, for each place in a call that nothing has disturbed, what is
selected on the card and which pages were read, and needs no knowledge of what was
selected when the call began.

**ReadBinaryProofs.** `TypeCorrect`; `BytesInOrder`, by `PlaceInv`: while the
offset is in the file and before `SfiOffset` the buffer is as long as the offset is past
the start, so that the next byte lands in its place, and after that the bytes that have a
place are there; and `Atomicity`, that reading page
by page implements reading in one step, under `Plain`: the whole file is asked for, a
repeated read does not fail, and the largest file ends a page before `SfiOffset`.
`WholeInv` says that the buffer is then the file from the start to the offset.
Without `Plain` it is not true, see above.

**SodCheckProofs.** `AcceptanceIsSigned` and `GenuineIsNeverRefused`, for any SODs
and files. The invariant `SodInv` says for each check what the checks before it have
established (`Checked`), that the compared entries of the issuer's name agree
(`Compared`), that `hashSod` has, of each data group, the last entry among those read
(`ReadSoFar`), and what a verdict follows from (`Judged`). Both are restricted as their comments say:
the first speaks of the comparisons the code makes (`Named`, `Lists`), which take a
magnitude for a serial number and an octet for a number, and the second excepts the
genuine SODs these refuse (`Plain`, `SingleValued`). The second theorem is the
harder one: a refusal in the last comparison must mean that the list does not have
the hash, whatever the order of its entries and however often it names a data group.

**ReaderListProofs.** `Listed`, `AllocationSuffices` and `OnlyLastNameIsCut`, for any
names and any size of the array. The strengthening says that `at` and `remainingLen`
add up to the array's size, that `at` is where the next name belongs, and what each
cell before `at` and after it holds; with the list's length known from the first
loop, an allocated array then has room for each name.

**Asn1Proofs.** `TypeCorrect`, `NestedTags`, `SlicesOfTags`,
`StraysOnlyIfTruncated` and `RoundTrip`, for arrays of any length and content and a `size_t` of any
number of bytes. The tags alone do not tell why they are nested, for a turn of the loop
sees the place in its own level only. The invariant `AsnInv` says of each level where in
the array its bytes are and that its end is the end of the tag it parses the content of
(`LevelsPlaced`); with that go, at each turn, `Nested` and `Slices`, which at the end are
`AsnNested` and `AsnSlices`. That the slice of a tag, seen as an array of its own, has a
length that ends with it is a matter of the digits of the length, which lie in the tag
and mean the same there. Two
things had to be found out about sums of `size_t`. A length of fewer digits than a
`size_t` has is less than `SizeT` divided by 256 and cannot make the bound check wrap
around; one of as many can, hence the last disjunct of `AsnStraysOnlyIfTruncated`. And
`TypeCorrect` needs arrays of at most `MaxArray` bytes (`Small`): the number of bytes that
`PutLength` writes for a larger one is not determined by the code, which throws. The
folds and recursive functions of the module (`DataLen`, `Encoding`, `Pow256`) are proved
to be what their equations say by induction on the least number for which they are not
(`Induction`), since the induction theorems of the library cannot be used.

`RoundTrip` is the longest of these proofs, in four parts.

- One tag: `PutLength` writes the fewest digits and `DataLen` counts them up again
  (`PutLengthIs`), so the header that `Tlv` writes is read as it was (`TlvIsRead`), the
  length within the bound and the sum not wrapping around. This needs a length of fewer
  digits than a `size_t` has, which `Small` gives.
- The tree that is encoded (`TreeInv`): its tags are tags in the sense of the reading loop
  (`IsTag`), a sequence has no content of its own, no tag reads as an end of contents
  (`Legible`), and a tag comes before those in it and they before the one after it. All
  of that is proved of what `Parse` makes of any array, and again of what a `Reparse`
  adds at the end of the list, which is out of order; the encoding does not see that, and
  it is the only case where the tree read back is not the same (`forced`).
- Reading it back (`ReadInv`): there is a function from the tags that have been read to
  those that were written, which keeps tag, content and parent and is in order, and one
  that says of each tag up to where the tags in it have been read. A level holds the
  encoding of the tags of its own tag, and its position is the end of the last of them
  that was read; a turn of the loop then reads the next one and nothing else.
- At the end each tag has been read, so the copies have the encoding of what was written
  (`Encoding` of both, from the last tag to the first), and where the tags were in order
  the function is the identity. No step of reading back throws or leaves the array.

The property is not inductive even with `AsnInv`: what a level is about to read is
determined by a tree that no variable of the parser holds. The tag that `getASN1Tag` puts
around an array is assumed to be one (`TagsAssumption`, by `IsTag`): verifySod passes 0x31
(token.cpp:152, 155).

**InMemoryProofs.** The arrays, the paddings and the hexadecimal texts, and all the
components of `MCInMemory` together.

- Arrays: `Ownership` and `LeaksAreMoves` (by `BaInv`, which counts the blocks: each is
  free, owned once or lost), `NoAliasing` (the action property `OthersUnchanged`) and
  `ViewsOfOthersHold` (by `ViewHolds`: a view that did not wrap around and whose block was
  not freed lies in it), for any arrays, blocks, bytes and sizes, of a `size_t` too.
- Paddings: `PaddingsAreInverse` and `PaddingsFillBlocks`, for messages and arrays of any
  length, any block sizes and random bytes. Neither is inductive: what a removal finds
  depends on what was put, so `PadInv` says byte by byte what a padded array is
  (`PadShape`): the message, the marks and the filling between them. That the search for
  the mark stops at the mark and nowhere else is then a matter of the places before it.
- Texts: `HexIsReadBack`, for dumps of any length. `HexInv` says where in a dump the scan
  may be, at the first digit of a byte or at the space after one, and that it has read
  the bytes before (`ReadsDump`). The first turn of a dump of one byte is the exception,
  where the function looks behind the end of the text and may take "00" for a mark.
- Notations: `NotationsAgree`, for any two bytes of any digits, among any other texts. `NotationInv` says that the scan is
  always at a form, for what is left of one behind its `0` or `0x` is a form again
  (`TurnAtForm`); that no turn takes a mark of the next byte for its own is a matter of
  the separator between them, which is where the search ahead in `ZeroMark` ends.
- `EachComponent`: a behaviour of the run's specification is one of each component's, so
  that all of the theorems above are about the run too. `MemoryTypes`: all of the type
  invariants, with what they add to types.

Only model-checked are `AsnCovers` and liveness (`MutexReleased`, `StopTakesEffect`,
`Terminates`, `AsnTerminates`), which is beyond the prover. Every other safety invariant
and action property of the passing runs is a theorem.

What the models show violated is shown on the instance of its run.

## Not modelled

- Of `util/array`: what works on bytes in place (`fill`, `random`, `reverse`), the
  comparisons, and `set`, `detach`, `load`, `atoi` and `indexOf`, which nothing
  calls. Of `util/util`: `RemoveSha1`, `RemoveSha256`, `ByteArrayToInt`, and of the
  parser `tagInt` and `setASN1Tag`, which nothing calls either. `GetASN1DataLenght`, which
  `authenticate` calls on the first bytes of a key (token.cpp:316), reads the header of one
  tag as `Parse` does and keeps no state.
- What is written into an array before `PutPaddingBT*` refuses it.
- `digest`: calls of Crypto++; `util/exception`: wording and stack traces;
  `Requests::start_interactive_session`: terminal input and output; `arch/posix`: behind
  `USE_EXT_THREAD`, which no build sets and under which the callers do not compile;
  the programs in `test/`: read as clients of the API.
- The part of `readBinaryContent` under `#if false`, and everything commented out.
- The data race on the client's `nisData` array between a poll and the client: there
  is no documented moment to read it but the callback.
- The C wrappers `NIS_*`, which only pass calls on, beyond what `NIS_ReaderList`
  adds; `configure` and `reset`, which do nothing.

## Plan

The components above are modelled as far as [Not modelled](#not-modelled) says. What
could come next:

1. `Sdk`: `PollExecutors`, `Backends` and `CardSession` together, where a background
   read takes time while the client lists, stops and deinitialises: which
   rules of a client keep its threads off destroyed tokens.
2. `CardSession`'s step that verifies a SOD as an abstraction of `SodCheck`, by a
   refinement mapping.
