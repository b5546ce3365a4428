---------------------------- MODULE PollExecutors ----------------------------
(***************************************************************************)
(* The polling executors of the SDK and the table NISManager keeps of      *)
(* them: the polling form of Token::readNis, stopPoll, the executor part   *)
(* of deinit, and the background thread pollNis that invokes the client's  *)
(* callback.                                                               *)
(*                                                                         *)
(* A thread is an application thread or a poller.  Executor number e is    *)
(* the object created by the e-th polling call of readNis, and e is also   *)
(* the name of its poller thread.                                          *)
(***************************************************************************)
EXTENDS Naturals

CONSTANTS
  App,          \* the application threads that call the API
  MaxStarts,    \* bound on the polling calls of readNis in a behaviour
  UidModulus,   \* size of the range of a uid: 2^32 in the code
  MutexTypes,   \* the mutex types a build may give execMutex (see RelockWaits)
  CallbackOps,  \* the API calls a client's callback may issue
  NoThread      \* the owner of a free mutex

Exec == 1 .. MaxStarts
NoExec == 0
Thread == App \cup Exec

ASSUME BoundsAssumption ==
  /\ MaxStarts \in Nat
  /\ UidModulus \in Nat \ {0}

ASSUME ThreadAssumption ==
  /\ App \cap Exec = {}
  /\ NoThread \notin Thread

ASSUME BuildAssumption ==
  /\ MutexTypes \subseteq {"normal", "errorcheck", "recursive"}
  /\ CallbackOps \subseteq {"readNis", "stopPoll", "deinit"}

VARIABLES
  mutexType,  \* the type of execMutex in this build; never changes
  owner,      \* the thread that holds execMutex, or NoThread
  calls,      \* how often Utils::getUid was called (before wrapping)
  executors,  \* NISManager::executors, a uid-indexed table
  refs,       \* the holders of a shared_ptr to each executor
  exitPoll,   \* PollExecutor::exitPoll
  joinable,   \* whether PollExecutor::th is joinable
  poller,     \* where each background thread is in pollNis
  pc,         \* where each thread is in an API call
  op,         \* the API call a thread is in, or made last
  hand,       \* the executor an API call is working on
  todo,       \* the uids an API call has still to remove
  destroyed,  \* the executors whose Token a deinit has destroyed
  late,       \* the executors launched between a deinit's removal of all
              \* executors and its removal of the backend, or still later
              \* although their Token was destroyed (a history)
  status      \* what has become of the process

platform == <<mutexType>>
table == <<owner, executors>>
objects == <<refs, exitPoll, joinable>>
call == <<pc, op, hand, todo>>
tokens == <<destroyed, late>>
vars == <<mutexType, owner, calls, executors, refs, exitPoll, joinable,
          poller, pc, op, hand, todo, destroyed, late, status>>

-----------------------------------------------------------------------------
(* The uid an executor gets from the atomic 32-bit counter. *)
Uid(e) == e % UidModulus
Uids == 0 .. UidModulus - 1

Operations == {"readNis", "stopPoll", "deinit"}

(* rn_*: the polling form of readNis; the rest: stopPoll and deinit, which *)
(* alone gets to "backends".                                               *)
Locations == {"idle", "rn_lock", "rn_thread", "rn_add", "rn_unlock",
              "rn_return", "lock", "remove", "copy", "join", "backends",
              "stuck"}

PollLocations == {"none", "created", "test", "read", "callback", "sleep",
                  "done"}
Active == {"created", "test", "read", "callback", "sleep"}

Running == status = "running"

(* An application thread may call the API whenever it is outside it, a     *)
(* poller only from within the client's callback.                          *)
MayCall(t, f) ==
  /\ Running
  /\ pc[t] = "idle"
  /\ t \notin App => poller[t] = "callback" /\ f \in CallbackOps

At(t, location) == Running /\ pc[t] = location

Goto(t, location) == pc' = [pc EXCEPT ![t] = location]

(* The last shared_ptr to a PollExecutor takes the object with it, and the *)
(* destructor of a std::thread that is still joinable ends the process.    *)
StatusAfterDrop(e, holder) ==
  IF refs[e] = {holder} /\ joinable[e] THEN "terminated" ELSE status

(* An exception leaves the API: an application thread is back in its own   *)
(* code, a poller has nobody to catch it and the process ends.             *)
Throw(t) == Goto(t, "idle")
StatusAfterThrow(t) == IF t \in App THEN status ELSE "terminated"

(***************************************************************************)
(* std::mutex::lock by the thread that already owns the mutex is undefined *)
(* in C++; std::mutex is a PTHREAD_MUTEX_DEFAULT, which POSIX lets be one  *)
(* of three types.  "normal" (glibc): the thread waits for itself for      *)
(* ever.  "errorcheck" (BSD): lock throws std::system_error.  "recursive": *)
(* it succeeds.                                                            *)
(***************************************************************************)
RelockWaits == mutexType = "normal"
RelockThrows == mutexType = "errorcheck"
RelockSucceeds == mutexType = "recursive"

-----------------------------------------------------------------------------
(* The polling form of Token::readNis. *)

(* Takes a uid and fills a new PollExecutor, held by the local pollCntr. *)
ReadNis(t) ==
  /\ MayCall(t, "readNis")
  /\ calls < MaxStarts
  /\ calls' = calls + 1
  /\ refs' = [refs EXCEPT ![calls + 1] = {"frame"}]
  /\ hand' = [hand EXCEPT ![t] = calls + 1]
  /\ op' = [op EXCEPT ![t] = "readNis"]
  /\ Goto(t, "rn_lock")
  /\ UNCHANGED <<platform, tokens, table, exitPoll, joinable, poller, todo,
                 status>>

LockFails(t) ==
  /\ owner = t
  /\ RelockThrows
  /\ Throw(t)
  /\ UNCHANGED owner

(* lockExecutors(). *)
LockExecutors(t) ==
  /\ At(t, "rn_lock")
  /\ \/ /\ owner = NoThread
        /\ owner' = t
        /\ Goto(t, "rn_thread")
        /\ UNCHANGED <<refs, status>>
     \/ /\ LockFails(t)
        /\ refs' = [refs EXCEPT ![hand[t]] = @ \ {"frame"}]
        /\ status' = StatusAfterThrow(t)
  /\ UNCHANGED <<platform, tokens, executors, calls, exitPoll, joinable,
                 poller, op, hand, todo>>

(* deinit is between the removal of the executors and of the backends.     *)
DeinitHalfWay == \E t \in Thread : pc[t] = "backends"

(* The std::thread is launched with a weak_ptr to the executor; a failure  *)
(* to launch it is caught, logged and otherwise ignored.                   *)
CreateThread(t) ==
  LET e == hand[t] IN
  /\ At(t, "rn_thread")
  /\ \/ /\ poller' = [poller EXCEPT ![e] = "created"]
        /\ joinable' = [joinable EXCEPT ![e] = TRUE]
        /\ late' = IF DeinitHalfWay \/ e \in destroyed
                   THEN late \cup {e} ELSE late
     \/ UNCHANGED <<poller, joinable, late>>
  /\ Goto(t, "rn_add")
  /\ UNCHANGED <<platform, destroyed, table, calls, refs, exitPoll, op, hand,
                 todo, status>>

(* The executor stored under this executor's uid, if any, is replaced and  *)
(* loses the reference of the table.                                       *)
Store(e) ==
  LET old == executors[Uid(e)] IN
  /\ executors' = [executors EXCEPT ![Uid(e)] = e]
  /\ refs' = [x \in Exec |-> (refs[x] \ (IF x = old THEN {"map"} ELSE {}))
                                \cup (IF x = e THEN {"map"} ELSE {})]
  /\ status' = IF old = NoExec THEN status ELSE StatusAfterDrop(old, "map")

(* addExecutor(): its lock_guard locks execMutex, which lockExecutors() of *)
(* the same thread has left locked.                                        *)
AddExecutor(t) ==
  /\ At(t, "rn_add")
  /\ \/ /\ RelockSucceeds
        /\ Store(hand[t])
        /\ Goto(t, "rn_unlock")
     \/ /\ RelockWaits
        /\ Goto(t, "stuck")
        /\ UNCHANGED <<executors, refs, status>>
     \/ /\ RelockThrows
        /\ Throw(t)
        /\ refs' = [refs EXCEPT ![hand[t]] = @ \ {"frame"}]
        /\ status' = IF t \notin App THEN StatusAfterThrow(t)
                     ELSE StatusAfterDrop(hand[t], "frame")
        /\ UNCHANGED executors
  /\ UNCHANGED <<platform, tokens, owner, calls, exitPoll, joinable, poller,
                 op, hand, todo>>

UnlockExecutors(t) ==
  /\ At(t, "rn_unlock")
  /\ owner' = NoThread
  /\ Goto(t, "rn_return")
  /\ UNCHANGED <<platform, tokens, executors, calls, objects, poller, op, hand,
                 todo, status>>

(* readNis returns 0 and its local pollCntr goes out of scope. *)
ReturnReadNis(t) ==
  /\ At(t, "rn_return")
  /\ refs' = [refs EXCEPT ![hand[t]] = @ \ {"frame"}]
  /\ status' = StatusAfterDrop(hand[t], "frame")
  /\ Goto(t, "idle")
  /\ UNCHANGED <<platform, tokens, table, calls, exitPoll, joinable, poller,
                 op, hand, todo>>

-----------------------------------------------------------------------------
(* stopPoll, and deinit as far as the executors are concerned. *)

StopPoll(t, uid) ==
  /\ MayCall(t, "stopPoll")
  /\ op' = [op EXCEPT ![t] = "stopPoll"]
  /\ todo' = [todo EXCEPT ![t] = {uid}]
  /\ Goto(t, "lock")
  /\ UNCHANGED <<platform, tokens, table, calls, objects, poller, hand,
                 status>>

Deinit(t) ==
  /\ MayCall(t, "deinit")
  /\ op' = [op EXCEPT ![t] = "deinit"]
  /\ todo' = [todo EXCEPT ![t] = {}]
  /\ Goto(t, "lock")
  /\ UNCHANGED <<platform, tokens, table, calls, objects, poller, hand,
                 status>>

(* Mutants of Keys: the collected range is one too long, one too short. *)
KeysOverrun ==
  {u \in 0 .. UidModulus : u \in Uids => executors[u] # NoExec}
KeysCutShort ==
  {u \in 0 .. UidModulus - 2 : executors[u] # NoExec}

(* The uids in the table. *)
Keys == {u \in Uids : executors[u] # NoExec}

(* Mutant of LockTable: removeExecutor(uid, false), which takes no lock. *)
LockTableUnguarded(t) ==
  /\ At(t, "lock")
  /\ owner' = t
  /\ todo' = IF op[t] = "deinit" THEN [todo EXCEPT ![t] = Keys] ELSE todo
  /\ Goto(t, "remove")
  /\ UNCHANGED <<platform, tokens, executors, calls, objects, poller, op, hand,
                 status>>

(* removeExecutor locks when called by stopPoll; removeAllExecutors locks  *)
(* once, collects every key and calls removeExecutor without locking.      *)
LockTable(t) ==
  /\ At(t, "lock")
  /\ \/ /\ owner = NoThread
        /\ owner' = t
        /\ todo' = IF op[t] = "deinit" THEN [todo EXCEPT ![t] = Keys] ELSE todo
        /\ Goto(t, "remove")
        /\ UNCHANGED status
     \/ /\ LockFails(t)
        /\ status' = StatusAfterThrow(t)
        /\ UNCHANGED todo
  /\ UNCHANGED <<platform, tokens, executors, calls, objects, poller, op,
                 hand>>

(* The entry is erased, which drops the table's reference, and only then   *)
(* is exitPoll set, through the erased iterator.  The freed node still     *)
(* holds its pointer, so this works as long as somebody else keeps the     *)
(* executor alive.                                                         *)
RemoveExecutor(t, uid) ==
  LET e == executors[uid] IN
  /\ At(t, "remove")
  /\ uid \in todo[t]
  /\ todo' = [todo EXCEPT ![t] = @ \ {uid}]
  /\ \/ /\ e = NoExec
        /\ UNCHANGED <<executors, refs, exitPoll, pc, hand, status>>
     \/ /\ e # NoExec
        /\ executors' = [executors EXCEPT ![uid] = NoExec]
        /\ refs' = [refs EXCEPT ![e] = @ \ {"map"}]
        /\ exitPoll' = [exitPoll EXCEPT ![e] = TRUE]
        /\ hand' = [hand EXCEPT ![t] = e]
        /\ status' = IF refs[e] = {"map"} /\ ~joinable[e] THEN "undefined"
                     ELSE StatusAfterDrop(e, "map")
        /\ Goto(t, "copy")
  /\ UNCHANGED <<platform, tokens, owner, calls, joinable, poller, op>>

(* The shared_ptr pe is copied from the erased entry: after exitPoll was   *)
(* set, and undefined if nobody holds the executor any more.               *)
CopyExecutor(t) ==
  /\ At(t, "copy")
  /\ refs' = [refs EXCEPT ![hand[t]] = @ \cup {"remover"}]
  /\ status' = IF refs[hand[t]] = {} THEN "undefined" ELSE status
  /\ Goto(t, "join")
  /\ UNCHANGED <<platform, tokens, table, calls, exitPoll, joinable, poller,
                 op, hand, todo>>

(* Mutant of JoinThread: the thread is detached instead of joined. *)
JoinThreadDetached(t) ==
  /\ At(t, "join")
  /\ refs' = [refs EXCEPT ![hand[t]] = @ \ {"remover"}]
  /\ joinable' = [joinable EXCEPT ![hand[t]] = FALSE]
  /\ Goto(t, "remove")
  /\ UNCHANGED <<platform, tokens, table, calls, exitPoll, poller, op, hand,
                 todo, status>>

(* Mutant of JoinThread: a mutex locked by hand stays locked on a throw. *)
JoinThreadLeakingLock(t) ==
  LET e == hand[t] IN
  /\ At(t, "join")
  /\ refs' = [refs EXCEPT ![e] = @ \ {"remover"}]
  /\ \/ joinable[e] /\ poller[e] = "done" /\ Goto(t, "remove")
     \/ ~joinable[e] /\ Throw(t)
  /\ joinable' = [joinable EXCEPT ![e] = FALSE]
  /\ UNCHANGED <<platform, tokens, table, calls, exitPoll, poller, op, hand,
                 todo, status>>

(* th.join(), with execMutex held.  It throws when no thread was launched, *)
(* and when a callback removes the executor of its own thread; unwinding   *)
(* then releases the mutex and pe.                                         *)
JoinThread(t) ==
  LET e == hand[t] IN
  /\ At(t, "join")
  /\ refs' = [refs EXCEPT ![e] = @ \ {"remover"}]
  /\ \/ /\ joinable[e]
        /\ poller[e] = "done"
        /\ joinable' = [joinable EXCEPT ![e] = FALSE]
        /\ Goto(t, "remove")
        /\ UNCHANGED <<owner, status>>
     \/ /\ ~joinable[e] \/ e = t
        /\ Throw(t)
        /\ owner' = NoThread
        /\ status' = StatusAfterThrow(t)
        /\ UNCHANGED joinable
  /\ UNCHANGED <<platform, tokens, executors, calls, exitPoll, poller, op,
                 hand, todo>>

(* All asked-for entries are gone and the mutex is released.  stopPoll     *)
(* returns; deinit goes on, with nothing locked any more.                  *)
FinishRemoval(t) ==
  /\ At(t, "remove")
  /\ todo[t] = {}
  /\ owner' = NoThread
  /\ Goto(t, IF op[t] = "deinit" THEN "backends" ELSE "idle")
  /\ UNCHANGED <<platform, tokens, executors, calls, objects, poller, op, hand,
                 todo, status>>

(* deinit removes the backend, if its bit is set, and with it the Tokens   *)
(* that all executors created so far read from.  Two threads that are here *)
(* together race on the table of backends.                                 *)
RemoveBackend(t) ==
  /\ At(t, "backends")
  /\ destroyed' \in {destroyed, destroyed \cup 1 .. calls}
  /\ status' \in IF \E s \in Thread \ {t} : pc[s] = "backends"
                 THEN {status, "undefined"} ELSE {status}
  /\ Goto(t, "idle")
  /\ UNCHANGED <<platform, late, table, calls, objects, poller, op, hand,
                 todo>>

-----------------------------------------------------------------------------
(* pollNis, the background thread of executor e. *)

PollStep(e, from, to) ==
  /\ Running
  /\ poller[e] = from
  /\ poller' = [poller EXCEPT ![e] = to]
  /\ UNCHANGED <<platform, tokens, table, calls, exitPoll, joinable, call>>

(* Mutant of PollAcquire: a do-while loop, which reads before it tests. *)
PollAcquireThenRead(e) ==
  /\ PollStep(e, "created", "read")
  /\ refs' = [refs EXCEPT ![e] = @ \cup {"thread"}]
  /\ UNCHANGED status

(* The weak_ptr is promoted.  pollNis also has a branch for an executor    *)
(* that is gone by now; PromotionSucceeds states that it is dead code.     *)
PollAcquire(e) ==
  /\ refs[e] # {}
  /\ PollStep(e, "created", "test")
  /\ refs' = [refs EXCEPT ![e] = @ \cup {"thread"}]
  /\ UNCHANGED status

(* while(!cntr->exitPoll): on leaving the loop cntr goes out of scope and  *)
(* the thread returns.                                                     *)
PollTest(e) ==
  \/ /\ ~exitPoll[e]
     /\ PollStep(e, "test", "read")
     /\ UNCHANGED <<refs, status>>
  \/ /\ exitPoll[e]
     /\ PollStep(e, "test", "done")
     /\ refs' = [refs EXCEPT ![e] = @ \ {"thread"}]
     /\ status' = StatusAfterDrop(e, "thread")

(* The blocking readNis returns 0 whatever it read, so the callback runs;  *)
(* an exception it throws has nobody to catch it.  A Token that deinit has *)
(* destroyed meanwhile is read all the same.                               *)
PollRead(e) ==
  /\ PollStep(e, "read", "callback")
  /\ status' \in IF e \in destroyed THEN {"undefined"}
                 ELSE {status, "terminated"}
  /\ UNCHANGED refs

PollCallback(e) ==
  /\ pc[e] = "idle"
  /\ PollStep(e, "callback", "sleep")
  /\ UNCHANGED <<refs, status>>

(* Mutant of PollSleep: exitPoll is tested once, ahead of the loop. *)
PollSleepThenRead(e) == PollStep(e, "sleep", "read") /\ UNCHANGED <<refs, status>>

PollSleep(e) == PollStep(e, "sleep", "test") /\ UNCHANGED <<refs, status>>

-----------------------------------------------------------------------------
Init ==
  /\ mutexType \in MutexTypes
  /\ owner = NoThread
  /\ calls = 0
  /\ executors = [u \in Uids |-> NoExec]
  /\ refs = [e \in Exec |-> {}]
  /\ exitPoll = [e \in Exec |-> FALSE]
  /\ joinable = [e \in Exec |-> FALSE]
  /\ poller = [e \in Exec |-> "none"]
  /\ pc = [t \in Thread |-> "idle"]
  /\ op = [t \in Thread |-> "stopPoll"]
  /\ hand = [t \in Thread |-> NoExec]
  /\ todo = [t \in Thread |-> {}]
  /\ destroyed = {}
  /\ late = {}
  /\ status = "running"

(* What a thread does on its own once it is in an API call. *)
CallStep(t) ==
  \/ LockExecutors(t)
  \/ CreateThread(t)
  \/ AddExecutor(t)
  \/ UnlockExecutors(t)
  \/ ReturnReadNis(t)
  \/ LockTable(t)
  \/ \E uid \in Uids : RemoveExecutor(t, uid)
  \/ CopyExecutor(t)
  \/ JoinThread(t)
  \/ FinishRemoval(t)
  \/ RemoveBackend(t)

(* What the application, or a callback, decides to do. *)
ClientStep(t) ==
  \/ ReadNis(t)
  \/ \E uid \in Uids : StopPoll(t, uid)
  \/ Deinit(t)

PollerStep(e) ==
  \/ PollAcquire(e)
  \/ PollTest(e)
  \/ PollRead(e)
  \/ PollCallback(e)
  \/ PollSleep(e)

Next ==
  \/ \E t \in Thread : ClientStep(t) \/ CallStep(t)
  \/ \E e \in Exec : PollerStep(e)

Spec == Init /\ [][Next]_vars

(* The operating system schedules every thread, a card transaction and a   *)
(* callback return, and a sleep ends.  Nobody is obliged to call the API,  *)
(* and a mutex is not handed over in any particular order.                 *)
Fairness ==
  /\ \A t \in Thread : WF_vars(CallStep(t))
  /\ \A e \in Exec : WF_vars(PollerStep(e))

FairSpec == Spec /\ Fairness

-----------------------------------------------------------------------------
(* Invariants and properties. *)

TypeOK ==
  /\ mutexType \in MutexTypes
  /\ owner \in Thread \cup {NoThread}
  /\ calls \in 0 .. MaxStarts
  /\ executors \in [Uids -> Exec \cup {NoExec}]
  /\ refs \in [Exec -> SUBSET {"frame", "map", "thread", "remover"}]
  /\ exitPoll \in [Exec -> BOOLEAN]
  /\ joinable \in [Exec -> BOOLEAN]
  /\ poller \in [Exec -> PollLocations]
  /\ pc \in [Thread -> Locations]
  /\ op \in [Thread -> Operations]
  /\ hand \in [Thread -> Exec \cup {NoExec}]
  /\ todo \in [Thread -> SUBSET Uids]
  /\ destroyed \in SUBSET Exec
  /\ late \in SUBSET Exec
  /\ status \in {"running", "terminated", "undefined"}

(* The places where a thread reads or writes the table of executors. *)
Critical(t) == pc[t] \in {"rn_thread", "rn_add", "rn_unlock", "stuck",
                          "remove", "copy", "join"}

(* The table is only ever read or changed by the one thread that owns      *)
(* execMutex, although readNis locks by hand, stopPoll by a lock chosen at *)
(* run time and deinit on behalf of removeExecutor.                        *)
TableGuarded ==
  \A t1, t2 \in Thread :
    Critical(t1) => owner = t1 /\ (Critical(t2) => t1 = t2)

Registered(e) == executors[Uid(e)] = e

(* The executor that a call in progress is about to register, or has taken *)
(* out of the table and not yet joined.                                    *)
InHand(e) ==
  \E t \in Thread : hand[t] = e /\ pc[t] \in {"rn_add", "stuck", "copy", "join"}

(* Every background thread can be stopped: its executor is in the table    *)
(* that stopPoll and deinit search, or in the hands of a call in progress. *)
(* In particular a thread is over by the time the stopPoll that removed it *)
(* returns.  It holds while uids do not wrap around to one still in use,   *)
(* and not where the second lock of execMutex throws.                      *)
NoOrphan ==
  (Running /\ MaxStarts < UidModulus /\ mutexType # "errorcheck") =>
    \A e \in Exec : poller[e] \in Active => Registered(e) \/ InHand(e)

(* deinit ends every thread that reads from a Token: when it has removed   *)
(* the last executor none is left, and those that are alive while it goes  *)
(* on to the backend, or read from a Token it has destroyed, were launched *)
(* after it had released execMutex.  The code does not keep these out: a   *)
(* readNis that waits for the mutex, or is called in time, gets it between *)
(* the two (nis.cpp:113-116) and starts a thread on a dying Token.         *)
DeinitQuiesces ==
  (Running /\ MaxStarts < UidModulus) =>
    \A e \in Exec : poller[e] \in Active =>
      /\ \A t \in Thread :
           ~(pc[t] = "remove" /\ op[t] = "deinit" /\ todo[t] = {})
      /\ DeinitHalfWay \/ e \in destroyed => e \in late

(* A new background thread always finds its executor alive when it turns   *)
(* its weak_ptr into a shared_ptr: whoever destroys the executor earlier   *)
(* ends the process, so the else-path of pollNis is never taken.           *)
PromotionSucceeds ==
  Running => \A e \in Exec : poller[e] = "created" => refs[e] # {}

(***************************************************************************)
(* The service the executors implement: once stopped, an executor issues   *)
(* at most the one callback it was already reading for, and none after its *)
(* thread was joined.                                                      *)
(***************************************************************************)
Phase(e) ==
  IF poller[e] = "none" THEN "absent"
  ELSE IF poller[e] \in Active THEN IF exitPoll[e] THEN "stopping" ELSE "polling"
  ELSE IF joinable[e] THEN "stopped" ELSE "reaped"

SvcPhase == [e \in Exec |-> Phase(e)]
SvcFiring == [e \in Exec |-> poller[e] = "callback"]
SvcOwed == [e \in Exec |-> poller[e] = "read" /\ exitPoll[e]]

Service ==
  INSTANCE PollService WITH
    phase <- SvcPhase, firing <- SvcFiring, owed <- SvcOwed

(* Every behaviour of the executors is one of the polling service. *)
ImplementsService == Service!Spec

(* execMutex, held across thread creation and across join, is always given *)
(* back.                                                                   *)
MutexReleased ==
  \A t \in Thread : owner = t ~> (owner # t \/ ~Running)

(* A thread that was told to exit does so, whatever it was waiting for. *)
StopTakesEffect ==
  \A e \in Exec :
    exitPoll[e] /\ poller[e] \in Active ~> (poller[e] = "done" \/ ~Running)

(* readNis with a callback returns (nis.cpp:201). *)
ReadNisReturns ==
  \A t \in Thread :
    (pc[t] = "rn_lock") ~> (pc[t] \in {"rn_return", "idle"} \/ ~Running)

=============================================================================
