------------------------- MODULE PollExecutorsProofs -------------------------
(***************************************************************************)
(* Theorems about PollExecutors, for any number of application threads and *)
(* polling calls, any uid range and any mix of mutex types.                *)
(***************************************************************************)
EXTENDS PollExecutors, TLAPS

(* Only the owner of execMutex is where the table is used. *)
LockInv == \A t \in Thread : Critical(t) => owner = t

(* Executors that are still to be created have left no trace. *)
FreshInv ==
  /\ \A t \in Thread : hand[t] <= calls
  /\ \A e \in Exec : e > calls =>
       /\ poller[e] = "none"
       /\ ~exitPoll[e]
       /\ \A u \in Uids : executors[u] # e

Starting(t) == pc[t] \in {"rn_lock", "rn_thread", "rn_add", "stuck"}

(* The executor a call of readNis has created is its own until it is in    *)
(* the table, and has no thread until the call launches one.               *)
StartInv ==
  \A t \in Thread : Starting(t) =>
    /\ hand[t] \in Exec
    /\ ~exitPoll[hand[t]]
    /\ \A u \in Uids : executors[u] # hand[t]
    /\ pc[t] \in {"rn_lock", "rn_thread"} => poller[hand[t]] = "none"
    /\ \A s \in Thread \ {t} :
         pc[s] # "idle" /\ op[s] = "readNis" => hand[s] # hand[t]

(* The local shared_ptr of readNis keeps the executor alive while its      *)
(* thread is launched.                                                     *)
FrameInv ==
  \A t \in Thread : pc[t] \in {"rn_lock", "rn_thread"} => "frame" \in refs[hand[t]]

(* A call is where its operation can be, with an executor in hand where it *)
(* needs one.                                                              *)
CallInv ==
  \A t \in Thread :
    /\ pc[t] \in {"rn_lock", "rn_thread", "rn_add", "rn_unlock", "rn_return",
                  "stuck"} => op[t] = "readNis"
    /\ pc[t] \in {"lock", "remove", "copy", "join"} => op[t] # "readNis"
    /\ pc[t] \in {"rn_unlock", "rn_return", "copy", "join"} => hand[t] \in Exec

(* An entry of the table is an executor that nobody has stopped, under its *)
(* own uid.                                                                *)
EntryInv ==
  \A u \in Uids : executors[u] # NoExec =>
    Uid(executors[u]) = u /\ ~exitPoll[executors[u]]

(* A thread that has not ended was launched by the std::thread of its      *)
(* executor and not yet joined; one that has ended was told to.            *)
ThreadInv ==
  \A e \in Exec :
    /\ poller[e] \in Active => joinable[e]
    /\ poller[e] = "done" => exitPoll[e]

(* deinit still has every entry of the table to remove. *)
KeysInv ==
  \A t \in Thread :
    pc[t] \in {"remove", "copy", "join"} /\ op[t] = "deinit" => Keys \subseteq todo[t]

(* Where the second lock throws, no thread gets past the mutex once a      *)
(* polling thread was launched.                                            *)
ErrorcheckInv ==
  mutexType = "errorcheck" =>
    /\ \A t \in Thread : pc[t] \notin {"rn_unlock", "rn_return"}
    /\ \A e \in Exec : poller[e] \in Active =>
         /\ owner # NoThread
         /\ \A t \in Thread : pc[t] \notin {"remove", "copy", "join"}

IInv ==
  /\ TypeOK
  /\ LockInv
  /\ FreshInv
  /\ StartInv
  /\ FrameInv
  /\ CallInv
  /\ EntryInv
  /\ ThreadInv
  /\ KeysInv
  /\ ErrorcheckInv
-----------------------------------------------------------------------------
(* Arithmetic of uids. *)

(* A uid is in the range of the table's keys. *)
LEMMA UidRange == \A e \in Exec \cup {NoExec} : Uid(e) \in Uids
  BY BoundsAssumption DEF Exec, NoExec, Uid, Uids

(* While the counter has not wrapped, a uid is the number of its executor. *)
LEMMA UidInjective ==
  ASSUME MaxStarts < UidModulus, NEW e \in Exec
  PROVE  Uid(e) = e
  BY BoundsAssumption DEF Exec, Uid

-----------------------------------------------------------------------------
(* Every step of a thread, a caller or a poller keeps the types. *)
LEMMA TypeStep ==
  ASSUME TypeOK, StartInv, [Next]_vars
  PROVE  TypeOK'
<1> USE DEF TypeOK, vars, platform, tokens, table, objects, call
<1>0. CASE UNCHANGED vars
  BY <1>0
<1>1. ASSUME NEW t \in Thread, ReadNis(t) PROVE TypeOK'
  BY <1>1, BoundsAssumption
     DEF ReadNis, MayCall, Goto, Locations, Operations, Exec
<1>2. ASSUME NEW t \in Thread, NEW uid \in Uids, StopPoll(t, uid) PROVE TypeOK'
  BY <1>2 DEF StopPoll, MayCall, Goto, Locations, Operations, Uids
<1>3. ASSUME NEW t \in Thread, Deinit(t) PROVE TypeOK'
  BY <1>3 DEF Deinit, MayCall, Goto, Locations, Operations
<1>4. ASSUME NEW t \in Thread, LockExecutors(t) PROVE TypeOK'
  BY <1>4
     DEF LockExecutors, At, LockFails, Throw, Goto, Locations, StatusAfterThrow
<1>5. ASSUME NEW t \in Thread, CreateThread(t) PROVE TypeOK'
  <2>1. hand[t] \in Exec
    BY <1>5 DEF CreateThread, At, StartInv, Starting
  <2>2. late' \in SUBSET Exec
    BY <1>5, <2>1 DEF CreateThread
  <2>3. poller' \in [Exec -> PollLocations] /\ pc' \in [Thread -> Locations]
    BY <1>5 DEF CreateThread, At, Goto, Locations, PollLocations
  <2>4. joinable' \in [Exec -> BOOLEAN]
    BY <1>5 DEF CreateThread
  <2>5. QED
    BY <1>5, <2>2, <2>3, <2>4 DEF CreateThread
<1>6. ASSUME NEW t \in Thread, AddExecutor(t) PROVE TypeOK'
  <2> SUFFICES pc' \in [Thread -> Locations] /\ executors' \in [Uids -> Exec \cup {NoExec}]
                /\ refs' \in [Exec -> SUBSET {"frame", "map", "thread", "remover"}]
                /\ status' \in {"running", "terminated", "undefined"}
    BY <1>6 DEF AddExecutor
  <2>1. pc' \in [Thread -> Locations]
    BY <1>6 DEF AddExecutor, Goto, Throw, Locations
  <2>2. executors' \in [Uids -> Exec \cup {NoExec}]
    BY <1>6, UidRange DEF AddExecutor, Store
  <2>3. refs' \in [Exec -> SUBSET {"frame", "map", "thread", "remover"}]
    BY <1>6 DEF AddExecutor, Store
  <2>4. status' \in {"running", "terminated", "undefined"}
    BY <1>6 DEF AddExecutor, Store, StatusAfterThrow, StatusAfterDrop
  <2>5. QED BY <2>1, <2>2, <2>3, <2>4
<1>7. ASSUME NEW t \in Thread, UnlockExecutors(t) PROVE TypeOK'
  BY <1>7 DEF UnlockExecutors, At, Goto, Locations
<1>8. ASSUME NEW t \in Thread, ReturnReadNis(t) PROVE TypeOK'
  BY <1>8 DEF ReturnReadNis, At, Goto, Locations, StatusAfterDrop
<1>9. ASSUME NEW t \in Thread, LockTable(t) PROVE TypeOK'
  BY <1>9
     DEF LockTable, At, LockFails, Throw, Goto, Locations, StatusAfterThrow,
            Keys
<1>10. ASSUME NEW t \in Thread, NEW uid \in Uids, RemoveExecutor(t, uid)
       PROVE  TypeOK'
  <2> DEFINE e == executors[uid]
  <2>1. e \in Exec \cup {NoExec} OBVIOUS
  <2>2. CASE e = NoExec BY <1>10, <2>2 DEF RemoveExecutor
  <2>3. CASE e # NoExec
    <3>1. e \in Exec BY <2>1, <2>3
    <3>2. executors' \in [Uids -> Exec \cup {NoExec}]
      BY <1>10, <2>3 DEF RemoveExecutor
    <3>3. refs' \in [Exec -> SUBSET {"frame", "map", "thread", "remover"}]
      BY <1>10, <2>3, <3>1 DEF RemoveExecutor
    <3>4. status' \in {"running", "terminated", "undefined"}
      BY <1>10, <2>3 DEF RemoveExecutor, StatusAfterDrop
    <3>5. hand' \in [Thread -> Exec \cup {NoExec}]
      BY <1>10, <2>3 DEF RemoveExecutor
    <3>6. QED
      BY <1>10, <2>3, <3>2, <3>3, <3>4, <3>5
         DEF RemoveExecutor, Goto, Locations
  <2>4. QED BY <2>2, <2>3
<1>11. ASSUME NEW t \in Thread, CopyExecutor(t) PROVE TypeOK'
  BY <1>11 DEF CopyExecutor, At, Goto, Locations
<1>12. ASSUME NEW t \in Thread, JoinThread(t) PROVE TypeOK'
  BY <1>12 DEF JoinThread, At, Throw, Goto, Locations, StatusAfterThrow
<1>13. ASSUME NEW t \in Thread, FinishRemoval(t) PROVE TypeOK'
  BY <1>13 DEF FinishRemoval, At, Goto, Locations
<1>14. ASSUME NEW e \in Exec, PollAcquire(e) PROVE TypeOK'
  BY <1>14 DEF PollAcquire, PollStep, PollLocations
<1>15. ASSUME NEW e \in Exec, PollTest(e) PROVE TypeOK'
  BY <1>15 DEF PollTest, PollStep, PollLocations, StatusAfterDrop
<1>16. ASSUME NEW e \in Exec, PollRead(e) PROVE TypeOK'
  BY <1>16 DEF PollRead, PollStep, PollLocations
<1>17. ASSUME NEW e \in Exec, PollCallback(e) PROVE TypeOK'
  BY <1>17 DEF PollCallback, PollStep, PollLocations
<1>18. ASSUME NEW e \in Exec, PollSleep(e) PROVE TypeOK'
  BY <1>18 DEF PollSleep, PollStep, PollLocations
<1>19. ASSUME NEW t \in Thread, RemoveBackend(t) PROVE TypeOK'
  BY <1>19, BoundsAssumption DEF RemoveBackend, At, Goto, Locations, Exec
<1>99. QED
  BY <1>0, <1>1, <1>2, <1>3, <1>4, <1>5, <1>6, <1>7, <1>8, <1>9, <1>10, <1>11,
         <1>12, <1>13, <1>14, <1>15, <1>16, <1>17, <1>18, <1>19
     DEF Next, ClientStep, CallStep, PollerStep

(* Only a thread that finds the mutex free becomes its owner, so no second *)
(* thread gets to the table.                                               *)
LEMMA LockInvStep ==
  ASSUME TypeOK, LockInv, [Next]_vars
  PROVE  LockInv'
<1> USE
   DEF TypeOK, LockInv, Critical, Thread, vars, platform, tokens, table, objects, call
<1>0. CASE UNCHANGED vars
  BY <1>0
<1>1. ASSUME NEW t \in Thread, ReadNis(t) PROVE LockInv'
  BY <1>1 DEF ReadNis, MayCall, Goto
<1>2. ASSUME NEW t \in Thread, NEW uid \in Uids, StopPoll(t, uid)
      PROVE  LockInv'
  BY <1>2 DEF StopPoll, MayCall, Goto
<1>3. ASSUME NEW t \in Thread, Deinit(t) PROVE LockInv'
  BY <1>3 DEF Deinit, MayCall, Goto
<1>4. ASSUME NEW t \in Thread, LockExecutors(t) PROVE LockInv'
  BY <1>4, ThreadAssumption DEF LockExecutors, At, LockFails, Throw, Goto
<1>5. ASSUME NEW t \in Thread, CreateThread(t) PROVE LockInv'
  BY <1>5 DEF CreateThread, At, Goto
<1>6. ASSUME NEW t \in Thread, AddExecutor(t) PROVE LockInv'
  BY <1>6 DEF AddExecutor, At, Throw, Goto, Store
<1>7. ASSUME NEW t \in Thread, UnlockExecutors(t) PROVE LockInv'
  BY <1>7 DEF UnlockExecutors, At, Goto
<1>8. ASSUME NEW t \in Thread, ReturnReadNis(t) PROVE LockInv'
  BY <1>8 DEF ReturnReadNis, At, Goto
<1>9. ASSUME NEW t \in Thread, LockTable(t) PROVE LockInv'
  BY <1>9, ThreadAssumption DEF LockTable, At, LockFails, Throw, Goto
<1>10. ASSUME NEW t \in Thread, NEW uid \in Uids, RemoveExecutor(t, uid)
       PROVE  LockInv'
  BY <1>10 DEF RemoveExecutor, At, Goto
<1>11. ASSUME NEW t \in Thread, CopyExecutor(t) PROVE LockInv'
  BY <1>11 DEF CopyExecutor, At, Goto
<1>12. ASSUME NEW t \in Thread, JoinThread(t) PROVE LockInv'
  BY <1>12 DEF JoinThread, At, Throw, Goto
<1>13. ASSUME NEW t \in Thread, FinishRemoval(t) PROVE LockInv'
  BY <1>13 DEF FinishRemoval, At, Goto
<1>14. ASSUME NEW e \in Exec, PollAcquire(e) PROVE LockInv'
  BY <1>14 DEF PollAcquire, PollStep
<1>15. ASSUME NEW e \in Exec, PollTest(e) PROVE LockInv'
  BY <1>15 DEF PollTest, PollStep
<1>16. ASSUME NEW e \in Exec, PollRead(e) PROVE LockInv'
  BY <1>16 DEF PollRead, PollStep
<1>17. ASSUME NEW e \in Exec, PollCallback(e) PROVE LockInv'
  BY <1>17 DEF PollCallback, PollStep
<1>18. ASSUME NEW e \in Exec, PollSleep(e) PROVE LockInv'
  BY <1>18 DEF PollSleep, PollStep
<1>19. ASSUME NEW t \in Thread, RemoveBackend(t) PROVE LockInv'
  BY <1>19 DEF RemoveBackend, At, Goto
<1>99. QED
  BY <1>0, <1>1, <1>2, <1>3, <1>4, <1>5, <1>6, <1>7, <1>8, <1>9, <1>10, <1>11,
         <1>12, <1>13, <1>14, <1>15, <1>16, <1>17, <1>18, <1>19
     DEF Next, ClientStep, CallStep, PollerStep

(* A call moves only between the locations of its own operation. *)
LEMMA CallInvStep ==
  ASSUME TypeOK, StartInv, CallInv, [Next]_vars
  PROVE  CallInv'
<1> USE DEF TypeOK, CallInv, vars, platform, tokens, table, objects, call
<1>0. CASE UNCHANGED vars
  BY <1>0
<1>1. ASSUME NEW t \in Thread, ReadNis(t) PROVE CallInv'
  BY <1>1 DEF ReadNis, MayCall, Goto, Operations, Exec
<1>2. ASSUME NEW t \in Thread, NEW uid \in Uids, StopPoll(t, uid)
      PROVE  CallInv'
  BY <1>2 DEF StopPoll, MayCall, Goto, Operations, Exec
<1>3. ASSUME NEW t \in Thread, Deinit(t) PROVE CallInv'
  BY <1>3 DEF Deinit, MayCall, Goto, Operations, Exec
<1>4. ASSUME NEW t \in Thread, LockExecutors(t) PROVE CallInv'
  BY <1>4 DEF LockExecutors, At, LockFails, Throw, Goto, Operations, Exec
<1>5. ASSUME NEW t \in Thread, CreateThread(t) PROVE CallInv'
  BY <1>5 DEF CreateThread, At, Goto, Operations, Exec
<1>6. ASSUME NEW t \in Thread, AddExecutor(t) PROVE CallInv'
  BY <1>6 DEF AddExecutor, StartInv, Starting, At, Throw, Goto, Store
<1>7. ASSUME NEW t \in Thread, UnlockExecutors(t) PROVE CallInv'
  BY <1>7 DEF UnlockExecutors, At, Goto, Operations, Exec
<1>8. ASSUME NEW t \in Thread, ReturnReadNis(t) PROVE CallInv'
  BY <1>8 DEF ReturnReadNis, At, Goto, Operations, Exec
<1>9. ASSUME NEW t \in Thread, LockTable(t) PROVE CallInv'
  BY <1>9 DEF LockTable, At, LockFails, Throw, Goto, Operations, Exec
<1>10. ASSUME NEW t \in Thread, NEW uid \in Uids, RemoveExecutor(t, uid)
       PROVE  CallInv'
  BY <1>10 DEF RemoveExecutor, At, Goto, Operations, Exec
<1>11. ASSUME NEW t \in Thread, CopyExecutor(t) PROVE CallInv'
  BY <1>11 DEF CopyExecutor, At, Goto, Operations, Exec
<1>12. ASSUME NEW t \in Thread, JoinThread(t) PROVE CallInv'
  BY <1>12 DEF JoinThread, At, Throw, Goto, Operations, Exec
<1>13. ASSUME NEW t \in Thread, FinishRemoval(t) PROVE CallInv'
  BY <1>13 DEF FinishRemoval, At, Goto, Operations, Exec
<1>14. ASSUME NEW e \in Exec, PollAcquire(e) PROVE CallInv'
  BY <1>14 DEF PollAcquire, PollStep, Operations, Exec
<1>15. ASSUME NEW e \in Exec, PollTest(e) PROVE CallInv'
  BY <1>15 DEF PollTest, PollStep, Operations, Exec
<1>16. ASSUME NEW e \in Exec, PollRead(e) PROVE CallInv'
  BY <1>16 DEF PollRead, PollStep, Operations, Exec
<1>17. ASSUME NEW e \in Exec, PollCallback(e) PROVE CallInv'
  BY <1>17 DEF PollCallback, PollStep, Operations, Exec
<1>18. ASSUME NEW e \in Exec, PollSleep(e) PROVE CallInv'
  BY <1>18 DEF PollSleep, PollStep, Operations, Exec
<1>19. ASSUME NEW t \in Thread, RemoveBackend(t) PROVE CallInv'
  BY <1>19 DEF RemoveBackend, At, Goto, Operations, Exec
<1>99. QED
  BY <1>0, <1>1, <1>2, <1>3, <1>4, <1>5, <1>6, <1>7, <1>8, <1>9, <1>10, <1>11,
         <1>12, <1>13, <1>14, <1>15, <1>16, <1>17, <1>18, <1>19
     DEF Next, ClientStep, CallStep, PollerStep

(* Nobody touches an executor before the readNis that creates it. *)
LEMMA FreshInvStep ==
  ASSUME TypeOK, FreshInv, StartInv, CallInv, [Next]_vars
  PROVE  FreshInv'
<1> USE DEF TypeOK, FreshInv, vars, platform, tokens, table, objects, call
<1>0. CASE UNCHANGED vars
  BY <1>0
<1>1. ASSUME NEW t \in Thread, ReadNis(t) PROVE FreshInv'
  BY <1>1 DEF ReadNis, MayCall, Goto, Exec, NoExec
<1>2. ASSUME NEW t \in Thread, NEW uid \in Uids, StopPoll(t, uid)
      PROVE  FreshInv'
  BY <1>2 DEF StopPoll, MayCall, Goto, Exec, NoExec
<1>3. ASSUME NEW t \in Thread, Deinit(t) PROVE FreshInv'
  BY <1>3 DEF Deinit, MayCall, Goto, Exec, NoExec
<1>4. ASSUME NEW t \in Thread, LockExecutors(t) PROVE FreshInv'
  BY <1>4 DEF LockExecutors, At, LockFails, Throw, Goto, Exec, NoExec
<1>5. ASSUME NEW t \in Thread, CreateThread(t) PROVE FreshInv'
  <2>1. hand[t] <= calls /\ hand[t] \in Nat /\ calls \in Nat
    BY DEF Exec, NoExec
  <2>2. SUFFICES ASSUME NEW x \in Exec, x > calls' PROVE poller'[x] = "none"
    BY <1>5 DEF CreateThread, At, Goto
  <2>3. x # hand[t] BY <2>1, <2>2, <1>5 DEF CreateThread, Exec
  <2>4. poller'[x] = poller[x] BY <1>5, <2>3 DEF CreateThread
  <2>5. QED BY <1>5, <2>2, <2>4 DEF CreateThread
<1>6. ASSUME NEW t \in Thread, AddExecutor(t) PROVE FreshInv'
  BY <1>6 DEF AddExecutor, At, Throw, Goto, Store, Exec, NoExec
<1>7. ASSUME NEW t \in Thread, UnlockExecutors(t) PROVE FreshInv'
  BY <1>7 DEF UnlockExecutors, At, Goto, Exec, NoExec
<1>8. ASSUME NEW t \in Thread, ReturnReadNis(t) PROVE FreshInv'
  BY <1>8 DEF ReturnReadNis, At, Goto, Exec, NoExec
<1>9. ASSUME NEW t \in Thread, LockTable(t) PROVE FreshInv'
  BY <1>9 DEF LockTable, At, LockFails, Throw, Goto, Exec, NoExec
<1>10. ASSUME NEW t \in Thread, NEW uid \in Uids, RemoveExecutor(t, uid)
       PROVE  FreshInv'
  <2> DEFINE d == executors[uid]
  <2>1. CASE d = NoExec BY <1>10, <2>1 DEF RemoveExecutor
  <2>2. CASE d # NoExec
    <3>1. d \in Exec /\ d <= calls BY <2>2 DEF Exec, NoExec
    <3>2. hand' = [hand EXCEPT ![t] = d] /\ exitPoll' = [exitPoll EXCEPT ![d] = TRUE]
          /\ executors' = [executors EXCEPT ![uid] = NoExec] /\ UNCHANGED <<calls, poller>>
      BY <1>10, <2>2 DEF RemoveExecutor
    <3>3. \A s \in Thread : hand'[s] <= calls' BY <3>1, <3>2
    <3>4. ASSUME NEW x \in Exec, x > calls'
          PROVE  ~exitPoll'[x] /\ \A u \in Uids : executors'[u] # x
      BY <3>1, <3>2, <3>4 DEF Exec, NoExec
    <3>5. QED BY <3>2, <3>3, <3>4
  <2>3. QED BY <2>1, <2>2
<1>11. ASSUME NEW t \in Thread, CopyExecutor(t) PROVE FreshInv'
  BY <1>11 DEF CopyExecutor, At, Goto, Exec, NoExec
<1>12. ASSUME NEW t \in Thread, JoinThread(t) PROVE FreshInv'
  BY <1>12 DEF JoinThread, At, Throw, Goto, Exec, NoExec
<1>13. ASSUME NEW t \in Thread, FinishRemoval(t) PROVE FreshInv'
  BY <1>13 DEF FinishRemoval, At, Goto, Exec, NoExec
<1>14. ASSUME NEW e \in Exec, PollAcquire(e) PROVE FreshInv'
  BY <1>14 DEF PollAcquire, PollStep, Exec, NoExec
<1>15. ASSUME NEW e \in Exec, PollTest(e) PROVE FreshInv'
  <2>1. e <= calls BY <1>15 DEF PollTest, PollStep, Exec
  <2>2. ASSUME NEW x \in Exec, x > calls' PROVE poller'[x] = "none"
    BY <1>15, <2>1, <2>2 DEF PollTest, PollStep
  <2>3. QED BY <1>15, <2>2 DEF PollTest, PollStep
<1>16. ASSUME NEW e \in Exec, PollRead(e) PROVE FreshInv'
  BY <1>16 DEF PollRead, PollStep, Exec, NoExec
<1>17. ASSUME NEW e \in Exec, PollCallback(e) PROVE FreshInv'
  BY <1>17 DEF PollCallback, PollStep, Exec, NoExec
<1>18. ASSUME NEW e \in Exec, PollSleep(e) PROVE FreshInv'
  BY <1>18 DEF PollSleep, PollStep, Exec, NoExec
<1>19. ASSUME NEW t \in Thread, RemoveBackend(t) PROVE FreshInv'
  BY <1>19 DEF RemoveBackend, At, Goto, Exec, NoExec
<1>99. QED
  BY <1>0, <1>1, <1>2, <1>3, <1>4, <1>5, <1>6, <1>7, <1>8, <1>9, <1>10, <1>11,
         <1>12, <1>13, <1>14, <1>15, <1>16, <1>17, <1>18, <1>19
     DEF Next, ClientStep, CallStep, PollerStep

(* The executor of a readNis under way belongs to that call alone. *)
LEMMA StartInvStep ==
  ASSUME TypeOK, FreshInv, StartInv, CallInv, [Next]_vars
  PROVE  StartInv'
<1> USE DEF TypeOK, StartInv, Starting, vars, platform, tokens, table, objects, call
<1>0. CASE UNCHANGED vars
  BY <1>0
<1>1. ASSUME NEW t \in Thread, ReadNis(t) PROVE StartInv'
  <2> DEFINE d == calls + 1
  <2>1. d \in Exec /\ d > calls /\ calls \in Nat
    BY <1>1, BoundsAssumption DEF ReadNis, Exec
  <2>2. ~exitPoll[d] /\ poller[d] = "none" /\ \A u \in Uids : executors[u] # d
    BY <2>1 DEF FreshInv
  <2>3. hand' = [hand EXCEPT ![t] = d] /\ pc' = [pc EXCEPT ![t] = "rn_lock"] /\ op' = [op EXCEPT ![t] = "readNis"]
        /\ UNCHANGED <<executors, exitPoll, poller>> /\ pc[t] = "idle"
    BY <1>1 DEF ReadNis, MayCall, Goto
  <2>4. \A s \in Thread : hand[s] # d BY <2>1 DEF FreshInv, Exec, NoExec
  <2>5. ASSUME NEW r \in Thread, Starting(r)'
        PROVE  /\ hand'[r] \in Exec
               /\ ~exitPoll'[hand'[r]]
               /\ \A u \in Uids : executors'[u] # hand'[r]
               /\ pc'[r] \in {"rn_lock", "rn_thread"} => poller'[hand'[r]] = "none"
               /\ \A s \in Thread \ {r} :
                    pc'[s] # "idle" /\ op'[s] = "readNis" => hand'[s] # hand'[r]
    <3>1. CASE r = t BY <2>1, <2>2, <2>3, <2>4, <3>1
    <3>2. CASE r # t
      <4>1. Starting(r) /\ hand'[r] = hand[r] /\ pc'[r] = pc[r]
        BY <2>3, <2>5, <3>2
      <4>2. QED BY <2>3, <2>4, <4>1
    <3>3. QED BY <3>1, <3>2
  <2>6. QED BY <2>5
<1>2. ASSUME NEW t \in Thread, NEW uid \in Uids, StopPoll(t, uid)
      PROVE  StartInv'
  BY <1>2 DEF StopPoll, MayCall, Goto, Exec, NoExec
<1>3. ASSUME NEW t \in Thread, Deinit(t) PROVE StartInv'
  BY <1>3 DEF Deinit, MayCall, Goto, Exec, NoExec
<1>4. ASSUME NEW t \in Thread, LockExecutors(t) PROVE StartInv'
  BY <1>4 DEF LockExecutors, At, LockFails, Throw, Goto, Exec, NoExec
<1>5. ASSUME NEW t \in Thread, CreateThread(t) PROVE StartInv'
  <2> DEFINE d == hand[t]
  <2>1. pc[t] = "rn_thread" /\ pc' = [pc EXCEPT ![t] = "rn_add"] /\ UNCHANGED <<hand, op, executors, exitPoll>>
        /\ (poller' = [poller EXCEPT ![d] = "created"] \/ UNCHANGED poller)
    BY <1>5 DEF CreateThread, At, Goto
  <2>2. op[t] = "readNis" BY <2>1 DEF CallInv
  <2>3. ASSUME NEW r \in Thread, pc'[r] \in {"rn_lock", "rn_thread"}
        PROVE  poller'[hand'[r]] = "none"
    <3>1. r # t /\ pc'[r] = pc[r] BY <2>1, <2>3
    <3>2. hand[r] # d BY <2>1, <2>2, <2>3, <3>1
    <3>3. poller[hand[r]] = "none" /\ hand[r] \in Exec BY <2>3, <3>1
    <3>4. QED BY <2>1, <3>2, <3>3
  <2>4. QED BY <2>1, <2>3
<1>6. ASSUME NEW t \in Thread, AddExecutor(t) PROVE StartInv'
  <2> DEFINE d == hand[t]
  <2>1. pc[t] = "rn_add" /\ UNCHANGED <<hand, op, exitPoll, poller>>
    BY <1>6 DEF AddExecutor, At
  <2>2. op[t] = "readNis" /\ d \in Exec /\ Uid(d) \in Uids
    BY <2>1, UidRange DEF CallInv
  <2>3. \E to \in {"rn_unlock", "stuck", "idle"} : pc' = [pc EXCEPT ![t] = to]
    BY <1>6 DEF AddExecutor, Goto, Throw
  <2>4. UNCHANGED executors \/ (executors' = [executors EXCEPT ![Uid(d)] = d] /\ pc'[t] = "rn_unlock")
    BY <1>6 DEF AddExecutor, Store, Goto
  <2>5. \A r \in Thread : Starting(r)' => Starting(r) /\ (r # t \/ UNCHANGED executors)
    BY <2>1, <2>3, <2>4
  <2>6. ASSUME NEW r \in Thread, Starting(r)'
        PROVE  \A u \in Uids : executors'[u] # hand'[r]
    <3>1. CASE UNCHANGED executors BY <2>1, <2>5, <2>6, <3>1
    <3>2. CASE r # t
      <4>1. hand[r] # d BY <2>1, <2>2, <2>5, <2>6, <3>2
      <4>2. QED BY <2>1, <2>2, <2>4, <2>5, <2>6, <4>1
    <3>3. QED BY <2>5, <2>6, <3>1, <3>2
  <2>7. QED BY <2>1, <2>3, <2>5, <2>6
<1>7. ASSUME NEW t \in Thread, UnlockExecutors(t) PROVE StartInv'
  BY <1>7 DEF UnlockExecutors, At, Goto, Exec, NoExec
<1>8. ASSUME NEW t \in Thread, ReturnReadNis(t) PROVE StartInv'
  BY <1>8 DEF ReturnReadNis, At, Goto, Exec, NoExec
<1>9. ASSUME NEW t \in Thread, LockTable(t) PROVE StartInv'
  BY <1>9 DEF LockTable, At, LockFails, Throw, Goto, Exec, NoExec
<1>10. ASSUME NEW t \in Thread, NEW uid \in Uids, RemoveExecutor(t, uid)
       PROVE  StartInv'
  <2> DEFINE d == executors[uid]
  <2>1. CASE d = NoExec BY <1>10, <2>1 DEF RemoveExecutor
  <2>2. CASE d # NoExec
    <3>1. /\ executors' = [executors EXCEPT ![uid] = NoExec] /\ exitPoll' = [exitPoll EXCEPT ![d] = TRUE]
          /\ hand' = [hand EXCEPT ![t] = d] /\ pc[t] = "remove" /\ pc' = [pc EXCEPT ![t] = "copy"]
          /\ UNCHANGED <<op, poller>>
      BY <1>10, <2>2 DEF RemoveExecutor, At, Goto
    <3>2. op[t] # "readNis" BY <3>1 DEF CallInv
    <3>3. ASSUME NEW r \in Thread, Starting(r)'
          PROVE  /\ hand'[r] \in Exec
                 /\ ~exitPoll'[hand'[r]]
                 /\ \A u \in Uids : executors'[u] # hand'[r]
                 /\ pc'[r] \in {"rn_lock", "rn_thread"} => poller'[hand'[r]] = "none"
                 /\ \A s \in Thread \ {r} :
                      pc'[s] # "idle" /\ op'[s] = "readNis" => hand'[s] # hand'[r]
      <4>1. r # t /\ Starting(r) /\ hand'[r] = hand[r] /\ pc'[r] = pc[r]
        BY <3>1, <3>3
      <4>2. hand[r] # d /\ hand[r] \in Exec /\ hand[r] # NoExec
        BY <4>1 DEF Exec, NoExec
      <4>3. ~exitPoll'[hand'[r]] BY <3>1, <4>1, <4>2
      <4>4. \A u \in Uids : executors'[u] # hand'[r] BY <3>1, <4>1, <4>2
      <4>5. ASSUME NEW s \in Thread \ {r}, pc'[s] # "idle", op'[s] = "readNis"
            PROVE  hand'[s] # hand'[r]
        <5>1. s # t BY <3>1, <3>2, <4>5
        <5>2. pc[s] # "idle" /\ op[s] = "readNis" /\ hand'[s] = hand[s]
          BY <3>1, <4>5, <5>1
        <5>3. QED BY <4>1, <5>2
      <4>6. QED BY <3>1, <4>1, <4>2, <4>3, <4>4, <4>5
    <3>4. QED BY <3>3
  <2>3. QED BY <2>1, <2>2
<1>11. ASSUME NEW t \in Thread, CopyExecutor(t) PROVE StartInv'
  BY <1>11 DEF CopyExecutor, At, Goto, Exec, NoExec
<1>12. ASSUME NEW t \in Thread, JoinThread(t) PROVE StartInv'
  BY <1>12 DEF JoinThread, At, Throw, Goto, Exec, NoExec
<1>13. ASSUME NEW t \in Thread, FinishRemoval(t) PROVE StartInv'
  BY <1>13 DEF FinishRemoval, At, Goto, Exec, NoExec
<1>14. ASSUME NEW e \in Exec, PollAcquire(e) PROVE StartInv'
  BY <1>14 DEF PollAcquire, PollStep, Exec, NoExec
<1>15. ASSUME NEW e \in Exec, PollTest(e) PROVE StartInv'
  <2>1. \E to \in {"read", "done"} : poller' = [poller EXCEPT ![e] = to]
    BY <1>15 DEF PollTest, PollStep
  <2>2. poller[e] = "test" /\ UNCHANGED <<hand, pc, op, executors, exitPoll>>
    BY <1>15 DEF PollTest, PollStep
  <2>3. QED BY <2>1, <2>2
<1>16. ASSUME NEW e \in Exec, PollRead(e) PROVE StartInv'
  BY <1>16 DEF PollRead, PollStep, Exec, NoExec
<1>17. ASSUME NEW e \in Exec, PollCallback(e) PROVE StartInv'
  BY <1>17 DEF PollCallback, PollStep, Exec, NoExec
<1>18. ASSUME NEW e \in Exec, PollSleep(e) PROVE StartInv'
  BY <1>18 DEF PollSleep, PollStep, Exec, NoExec
<1>19. ASSUME NEW t \in Thread, RemoveBackend(t) PROVE StartInv'
  BY <1>19 DEF RemoveBackend, At, Goto, Exec, NoExec
<1>99. QED
  BY <1>0, <1>1, <1>2, <1>3, <1>4, <1>5, <1>6, <1>7, <1>8, <1>9, <1>10, <1>11,
         <1>12, <1>13, <1>14, <1>15, <1>16, <1>17, <1>18, <1>19
     DEF Next, ClientStep, CallStep, PollerStep

(* Until the thread is launched, the local shared_ptr of readNis is kept. *)
LEMMA FrameInvStep ==
  ASSUME TypeOK, StartInv, CallInv, FrameInv, [Next]_vars
  PROVE  FrameInv'
<1> USE DEF TypeOK, FrameInv, vars, platform, tokens, table, objects, call
<1>0. CASE UNCHANGED vars
  BY <1>0
<1>1. ASSUME NEW t \in Thread, ReadNis(t) PROVE FrameInv'
  <2> DEFINE d == calls + 1
  <2>1. /\ d \in Exec /\ refs' = [refs EXCEPT ![d] = {"frame"}] /\ hand' = [hand EXCEPT ![t] = d]
        /\ pc' = [pc EXCEPT ![t] = "rn_lock"]
    BY <1>1, BoundsAssumption DEF ReadNis, Exec, Goto
  <2>2. QED BY <2>1
<1>2. ASSUME NEW t \in Thread, NEW uid \in Uids, StopPoll(t, uid)
      PROVE  FrameInv'
  BY <1>2 DEF StopPoll, MayCall, Goto
<1>3. ASSUME NEW t \in Thread, Deinit(t) PROVE FrameInv'
  BY <1>3 DEF Deinit, MayCall, Goto
<1>4. ASSUME NEW t \in Thread, LockExecutors(t) PROVE FrameInv'
  <2> DEFINE d == hand[t]
  <2>1. /\ pc[t] = "rn_lock" /\ UNCHANGED hand /\ op[t] = "readNis"
        /\ \/ pc' = [pc EXCEPT ![t] = "rn_thread"] /\ UNCHANGED refs
           \/ pc' = [pc EXCEPT ![t] = "idle"] /\ refs' = [refs EXCEPT ![d] = @ \ {"frame"}]
    BY <1>4 DEF LockExecutors, At, Goto, LockFails, Throw, CallInv
  <2>2. \A r \in Thread \ {t} : pc[r] \in {"rn_lock", "rn_thread"} => hand[r] # d /\ hand[r] \in Exec
    BY <2>1 DEF StartInv, Starting
  <2>3. QED BY <2>1, <2>2
<1>5. ASSUME NEW t \in Thread, CreateThread(t) PROVE FrameInv'
  BY <1>5 DEF CreateThread, At, Goto
<1>6. ASSUME NEW t \in Thread, AddExecutor(t) PROVE FrameInv'
  <2> DEFINE d == hand[t]
  <2>1. /\ pc[t] = "rn_add" /\ UNCHANGED hand /\ op[t] = "readNis"
        /\ \E to \in {"rn_unlock", "stuck", "idle"} : pc' = [pc EXCEPT ![t] = to]
    BY <1>6 DEF AddExecutor, At, Goto, Throw, CallInv
  <2>2. \A x \in Exec : x # d /\ "frame" \in refs[x] => "frame" \in refs'[x]
    BY <1>6 DEF AddExecutor, Store
  <2>3. \A r \in Thread \ {t} : pc[r] \in {"rn_lock", "rn_thread"} => hand[r] # d /\ hand[r] \in Exec
    BY <2>1 DEF StartInv, Starting
  <2>4. QED BY <2>1, <2>2, <2>3
<1>7. ASSUME NEW t \in Thread, UnlockExecutors(t) PROVE FrameInv'
  BY <1>7 DEF UnlockExecutors, At, Goto
<1>8. ASSUME NEW t \in Thread, ReturnReadNis(t) PROVE FrameInv'
  <2> DEFINE d == hand[t]
  <2>1. /\ pc[t] = "rn_return" /\ UNCHANGED hand /\ op[t] = "readNis" /\ pc' = [pc EXCEPT ![t] = "idle"]
        /\ refs' = [refs EXCEPT ![d] = @ \ {"frame"}]
    BY <1>8 DEF ReturnReadNis, At, Goto, CallInv
  <2>2. \A r \in Thread \ {t} : pc[r] \in {"rn_lock", "rn_thread"} => hand[r] # d /\ hand[r] \in Exec
    BY <2>1 DEF StartInv, Starting
  <2>3. QED BY <2>1, <2>2
<1>9. ASSUME NEW t \in Thread, LockTable(t) PROVE FrameInv'
  BY <1>9 DEF LockTable, At, LockFails, Throw, Goto
<1>10. ASSUME NEW t \in Thread, NEW uid \in Uids, RemoveExecutor(t, uid)
       PROVE  FrameInv'
  <2>1. /\ pc[t] = "remove"
        /\ pc' = [pc EXCEPT ![t] = "copy"] \/ UNCHANGED pc
        /\ \A r \in Thread \ {t} : hand'[r] = hand[r]
        /\ \A x \in Exec : "frame" \in refs[x] => "frame" \in refs'[x]
    BY <1>10 DEF RemoveExecutor, At, Goto
  <2>2. \A r \in Thread : pc'[r] \in {"rn_lock", "rn_thread"} => r # t /\ pc[r] = pc'[r] /\ hand[r] \in Exec
    BY <2>1 DEF StartInv, Starting
  <2>3. QED BY <2>1, <2>2
<1>11. ASSUME NEW t \in Thread, CopyExecutor(t) PROVE FrameInv'
  <2>1. /\ pc[t] \in {"copy", "join"} /\ UNCHANGED hand
        /\ \E to \in {"join", "remove", "idle"} : pc' = [pc EXCEPT ![t] = to]
        /\ \A x \in Exec : "frame" \in refs[x] => "frame" \in refs'[x]
    BY <1>11 DEF CopyExecutor, At, Goto, Throw
  <2>2. \A r \in Thread : pc'[r] \in {"rn_lock", "rn_thread"} => pc[r] = pc'[r] /\ hand[r] \in Exec
    BY <2>1 DEF StartInv, Starting
  <2>3. QED BY <2>1, <2>2
<1>12. ASSUME NEW t \in Thread, JoinThread(t) PROVE FrameInv'
  <2>1. /\ pc[t] \in {"copy", "join"} /\ UNCHANGED hand
        /\ \E to \in {"join", "remove", "idle"} : pc' = [pc EXCEPT ![t] = to]
        /\ \A x \in Exec : "frame" \in refs[x] => "frame" \in refs'[x]
    BY <1>12 DEF JoinThread, At, Goto, Throw
  <2>2. \A r \in Thread : pc'[r] \in {"rn_lock", "rn_thread"} => pc[r] = pc'[r] /\ hand[r] \in Exec
    BY <2>1 DEF StartInv, Starting
  <2>3. QED BY <2>1, <2>2
<1>13. ASSUME NEW t \in Thread, FinishRemoval(t) PROVE FrameInv'
  BY <1>13 DEF FinishRemoval, At, Goto
<1>14. ASSUME NEW e \in Exec, PollAcquire(e) PROVE FrameInv'
  <2>1. /\ UNCHANGED <<pc, hand>>
        /\ \A x \in Exec : "frame" \in refs[x] => "frame" \in refs'[x]
    BY <1>14 DEF PollAcquire, PollStep
  <2>2. \A r \in Thread : pc[r] \in {"rn_lock", "rn_thread"} => hand[r] \in Exec
    BY DEF StartInv, Starting
  <2>3. QED BY <2>1, <2>2
<1>15. ASSUME NEW e \in Exec, PollTest(e) PROVE FrameInv'
  <2>1. /\ UNCHANGED <<pc, hand>>
        /\ \A x \in Exec : "frame" \in refs[x] => "frame" \in refs'[x]
    BY <1>15 DEF PollTest, PollStep
  <2>2. \A r \in Thread : pc[r] \in {"rn_lock", "rn_thread"} => hand[r] \in Exec
    BY DEF StartInv, Starting
  <2>3. QED BY <2>1, <2>2
<1>16. ASSUME NEW e \in Exec, PollRead(e) PROVE FrameInv'
  BY <1>16 DEF PollRead, PollStep
<1>17. ASSUME NEW e \in Exec, PollCallback(e) PROVE FrameInv'
  BY <1>17 DEF PollCallback, PollStep
<1>18. ASSUME NEW e \in Exec, PollSleep(e) PROVE FrameInv'
  BY <1>18 DEF PollSleep, PollStep
<1>19. ASSUME NEW t \in Thread, RemoveBackend(t) PROVE FrameInv'
  BY <1>19 DEF RemoveBackend, At, Goto
<1>99. QED
  BY <1>0, <1>1, <1>2, <1>3, <1>4, <1>5, <1>6, <1>7, <1>8, <1>9, <1>10, <1>11,
         <1>12, <1>13, <1>14, <1>15, <1>16, <1>17, <1>18, <1>19
     DEF Next, ClientStep, CallStep, PollerStep

(* Entries are filed under their own uid, and leave as they are stopped. *)
LEMMA EntryInvStep ==
  ASSUME TypeOK, StartInv, EntryInv, [Next]_vars
  PROVE  EntryInv'
<1> USE DEF TypeOK, EntryInv, vars, platform, tokens, table, objects, call
<1>0. CASE UNCHANGED vars
  BY <1>0
<1>1. ASSUME NEW t \in Thread, ReadNis(t) PROVE EntryInv'
  BY <1>1 DEF ReadNis, MayCall, Goto, Exec, NoExec
<1>2. ASSUME NEW t \in Thread, NEW uid \in Uids, StopPoll(t, uid)
      PROVE  EntryInv'
  BY <1>2 DEF StopPoll, MayCall, Goto, Exec, NoExec
<1>3. ASSUME NEW t \in Thread, Deinit(t) PROVE EntryInv'
  BY <1>3 DEF Deinit, MayCall, Goto, Exec, NoExec
<1>4. ASSUME NEW t \in Thread, LockExecutors(t) PROVE EntryInv'
  BY <1>4 DEF LockExecutors, At, LockFails, Throw, Goto, Exec, NoExec
<1>5. ASSUME NEW t \in Thread, CreateThread(t) PROVE EntryInv'
  BY <1>5 DEF CreateThread, At, Goto, Exec, NoExec
<1>6. ASSUME NEW t \in Thread, AddExecutor(t) PROVE EntryInv'
  <2> DEFINE d == hand[t]
  <2>1. d \in Exec /\ ~exitPoll[d] /\ Uid(d) \in Uids
    BY <1>6, UidRange DEF AddExecutor, At, StartInv, Starting
  <2>2. CASE RelockSucceeds /\ Store(d)
    <3>1. executors' = [executors EXCEPT ![Uid(d)] = d] /\ UNCHANGED exitPoll
      BY <1>6, <2>2 DEF AddExecutor, Store
    <3>2. ASSUME NEW u \in Uids, executors'[u] # NoExec
          PROVE  Uid(executors'[u]) = u /\ ~exitPoll'[executors'[u]]
      BY <2>1, <3>1, <3>2
    <3>3. QED BY <3>2 DEF Uids, Uid
  <2>3. CASE UNCHANGED executors BY <1>6, <2>3 DEF AddExecutor, Uid, Uids
  <2>4. QED BY <1>6, <2>2, <2>3 DEF AddExecutor
<1>7. ASSUME NEW t \in Thread, UnlockExecutors(t) PROVE EntryInv'
  BY <1>7 DEF UnlockExecutors, At, Goto, Exec, NoExec
<1>8. ASSUME NEW t \in Thread, ReturnReadNis(t) PROVE EntryInv'
  BY <1>8 DEF ReturnReadNis, At, Goto, Exec, NoExec
<1>9. ASSUME NEW t \in Thread, LockTable(t) PROVE EntryInv'
  BY <1>9 DEF LockTable, At, LockFails, Throw, Goto, Exec, NoExec
<1>10. ASSUME NEW t \in Thread, NEW uid \in Uids, RemoveExecutor(t, uid)
       PROVE  EntryInv'
  <2> DEFINE d == executors[uid]
  <2>1. CASE d = NoExec BY <1>10, <2>1 DEF RemoveExecutor
  <2>2. CASE d # NoExec
    <3>1. executors' = [executors EXCEPT ![uid] = NoExec] /\ exitPoll' = [exitPoll EXCEPT ![d] = TRUE]
      BY <1>10, <2>2 DEF RemoveExecutor
    <3>2. ASSUME NEW u \in Uids, executors'[u] # NoExec
          PROVE  Uid(executors'[u]) = u /\ ~exitPoll'[executors'[u]]
      <4>1. u # uid /\ executors'[u] = executors[u] BY <3>1, <3>2
      <4>2. Uid(d) = uid /\ Uid(executors[u]) = u BY <2>2, <3>2, <4>1
      <4>3. executors[u] # d BY <4>1, <4>2
      <4>4. QED BY <3>1, <3>2, <4>1, <4>2, <4>3
    <3>3. QED BY <3>2 DEF Uids, Uid
  <2>3. QED BY <2>1, <2>2
<1>11. ASSUME NEW t \in Thread, CopyExecutor(t) PROVE EntryInv'
  BY <1>11 DEF CopyExecutor, At, Goto, Exec, NoExec
<1>12. ASSUME NEW t \in Thread, JoinThread(t) PROVE EntryInv'
  BY <1>12 DEF JoinThread, At, Throw, Goto, Exec, NoExec
<1>13. ASSUME NEW t \in Thread, FinishRemoval(t) PROVE EntryInv'
  BY <1>13 DEF FinishRemoval, At, Goto, Exec, NoExec
<1>14. ASSUME NEW e \in Exec, PollAcquire(e) PROVE EntryInv'
  BY <1>14 DEF PollAcquire, PollStep, Exec, NoExec
<1>15. ASSUME NEW e \in Exec, PollTest(e) PROVE EntryInv'
  BY <1>15 DEF PollTest, PollStep, Exec, NoExec
<1>16. ASSUME NEW e \in Exec, PollRead(e) PROVE EntryInv'
  BY <1>16 DEF PollRead, PollStep, Exec, NoExec
<1>17. ASSUME NEW e \in Exec, PollCallback(e) PROVE EntryInv'
  BY <1>17 DEF PollCallback, PollStep, Exec, NoExec
<1>18. ASSUME NEW e \in Exec, PollSleep(e) PROVE EntryInv'
  BY <1>18 DEF PollSleep, PollStep, Exec, NoExec
<1>19. ASSUME NEW t \in Thread, RemoveBackend(t) PROVE EntryInv'
  BY <1>19 DEF RemoveBackend, At, Goto, Exec, NoExec
<1>99. QED
  BY <1>0, <1>1, <1>2, <1>3, <1>4, <1>5, <1>6, <1>7, <1>8, <1>9, <1>10, <1>11,
         <1>12, <1>13, <1>14, <1>15, <1>16, <1>17, <1>18, <1>19
     DEF Next, ClientStep, CallStep, PollerStep

(* A std::thread ceases to be joinable only by joining it at its end. *)
LEMMA ThreadInvStep ==
  ASSUME TypeOK, StartInv, CallInv, ThreadInv, [Next]_vars
  PROVE  ThreadInv'
<1> USE DEF TypeOK, ThreadInv, Active, vars, platform, tokens, table, objects, call
<1>0. CASE UNCHANGED vars
  BY <1>0
<1>1. ASSUME NEW t \in Thread, ReadNis(t) PROVE ThreadInv'
  BY <1>1 DEF ReadNis, MayCall, Goto
<1>2. ASSUME NEW t \in Thread, NEW uid \in Uids, StopPoll(t, uid)
      PROVE  ThreadInv'
  BY <1>2 DEF StopPoll, MayCall, Goto
<1>3. ASSUME NEW t \in Thread, Deinit(t) PROVE ThreadInv'
  BY <1>3 DEF Deinit, MayCall, Goto
<1>4. ASSUME NEW t \in Thread, LockExecutors(t) PROVE ThreadInv'
  BY <1>4 DEF LockExecutors, At, LockFails, Throw, Goto
<1>5. ASSUME NEW t \in Thread, CreateThread(t) PROVE ThreadInv'
  BY <1>5 DEF CreateThread, At, Goto
<1>6. ASSUME NEW t \in Thread, AddExecutor(t) PROVE ThreadInv'
  BY <1>6 DEF AddExecutor, At, Throw, Goto, Store
<1>7. ASSUME NEW t \in Thread, UnlockExecutors(t) PROVE ThreadInv'
  BY <1>7 DEF UnlockExecutors, At, Goto
<1>8. ASSUME NEW t \in Thread, ReturnReadNis(t) PROVE ThreadInv'
  BY <1>8 DEF ReturnReadNis, At, Goto
<1>9. ASSUME NEW t \in Thread, LockTable(t) PROVE ThreadInv'
  BY <1>9 DEF LockTable, At, LockFails, Throw, Goto
<1>10. ASSUME NEW t \in Thread, NEW uid \in Uids, RemoveExecutor(t, uid)
       PROVE  ThreadInv'
  BY <1>10 DEF RemoveExecutor, At, Goto
<1>11. ASSUME NEW t \in Thread, CopyExecutor(t) PROVE ThreadInv'
  BY <1>11 DEF CopyExecutor, At, Goto
<1>12. ASSUME NEW t \in Thread, JoinThread(t) PROVE ThreadInv'
  BY <1>12 DEF JoinThread, At, Throw, Goto
<1>13. ASSUME NEW t \in Thread, FinishRemoval(t) PROVE ThreadInv'
  BY <1>13 DEF FinishRemoval, At, Goto
<1>14. ASSUME NEW e \in Exec, PollAcquire(e) PROVE ThreadInv'
  BY <1>14 DEF PollAcquire, PollStep
<1>15. ASSUME NEW e \in Exec, PollTest(e) PROVE ThreadInv'
  BY <1>15 DEF PollTest, PollStep
<1>16. ASSUME NEW e \in Exec, PollRead(e) PROVE ThreadInv'
  BY <1>16 DEF PollRead, PollStep
<1>17. ASSUME NEW e \in Exec, PollCallback(e) PROVE ThreadInv'
  BY <1>17 DEF PollCallback, PollStep
<1>18. ASSUME NEW e \in Exec, PollSleep(e) PROVE ThreadInv'
  BY <1>18 DEF PollSleep, PollStep
<1>19. ASSUME NEW t \in Thread, RemoveBackend(t) PROVE ThreadInv'
  BY <1>19 DEF RemoveBackend, At, Goto
<1>99. QED
  BY <1>0, <1>1, <1>2, <1>3, <1>4, <1>5, <1>6, <1>7, <1>8, <1>9, <1>10, <1>11,
         <1>12, <1>13, <1>14, <1>15, <1>16, <1>17, <1>18, <1>19
     DEF Next, ClientStep, CallStep, PollerStep

(* Nothing enters the table while deinit is emptying it. *)
LEMMA KeysInvStep ==
  ASSUME TypeOK, LockInv, KeysInv, [Next]_vars
  PROVE  KeysInv'
<1> USE
   DEF TypeOK, KeysInv, Keys, LockInv, Critical, vars, platform, tokens, table,
          objects, call
<1>0. CASE UNCHANGED vars
  BY <1>0
<1>1. ASSUME NEW t \in Thread, ReadNis(t) PROVE KeysInv'
  BY <1>1 DEF ReadNis, MayCall, Goto
<1>2. ASSUME NEW t \in Thread, NEW uid \in Uids, StopPoll(t, uid)
      PROVE  KeysInv'
  BY <1>2 DEF StopPoll, MayCall, Goto
<1>3. ASSUME NEW t \in Thread, Deinit(t) PROVE KeysInv'
  BY <1>3 DEF Deinit, MayCall, Goto
<1>4. ASSUME NEW t \in Thread, LockExecutors(t) PROVE KeysInv'
  BY <1>4 DEF LockExecutors, At, LockFails, Throw, Goto
<1>5. ASSUME NEW t \in Thread, CreateThread(t) PROVE KeysInv'
  BY <1>5 DEF CreateThread, At, Goto
<1>6. ASSUME NEW t \in Thread, AddExecutor(t) PROVE KeysInv'
  BY <1>6 DEF AddExecutor, At, Throw, Goto, Store
<1>7. ASSUME NEW t \in Thread, UnlockExecutors(t) PROVE KeysInv'
  BY <1>7 DEF UnlockExecutors, At, Goto
<1>8. ASSUME NEW t \in Thread, ReturnReadNis(t) PROVE KeysInv'
  BY <1>8 DEF ReturnReadNis, At, Goto
<1>9. ASSUME NEW t \in Thread, LockTable(t) PROVE KeysInv'
  BY <1>9 DEF LockTable, At, LockFails, Throw, Goto
<1>10. ASSUME NEW t \in Thread, NEW uid \in Uids, RemoveExecutor(t, uid)
       PROVE  KeysInv'
  BY <1>10 DEF RemoveExecutor, At, Goto
<1>11. ASSUME NEW t \in Thread, CopyExecutor(t) PROVE KeysInv'
  BY <1>11 DEF CopyExecutor, At, Goto
<1>12. ASSUME NEW t \in Thread, JoinThread(t) PROVE KeysInv'
  BY <1>12 DEF JoinThread, At, Throw, Goto
<1>13. ASSUME NEW t \in Thread, FinishRemoval(t) PROVE KeysInv'
  BY <1>13 DEF FinishRemoval, At, Goto
<1>14. ASSUME NEW e \in Exec, PollAcquire(e) PROVE KeysInv'
  BY <1>14 DEF PollAcquire, PollStep
<1>15. ASSUME NEW e \in Exec, PollTest(e) PROVE KeysInv'
  BY <1>15 DEF PollTest, PollStep
<1>16. ASSUME NEW e \in Exec, PollRead(e) PROVE KeysInv'
  BY <1>16 DEF PollRead, PollStep
<1>17. ASSUME NEW e \in Exec, PollCallback(e) PROVE KeysInv'
  BY <1>17 DEF PollCallback, PollStep
<1>18. ASSUME NEW e \in Exec, PollSleep(e) PROVE KeysInv'
  BY <1>18 DEF PollSleep, PollStep
<1>19. ASSUME NEW t \in Thread, RemoveBackend(t) PROVE KeysInv'
  BY <1>19 DEF RemoveBackend, At, Goto
<1>99. QED
  BY <1>0, <1>1, <1>2, <1>3, <1>4, <1>5, <1>6, <1>7, <1>8, <1>9, <1>10, <1>11,
         <1>12, <1>13, <1>14, <1>15, <1>16, <1>17, <1>18, <1>19
     DEF Next, ClientStep, CallStep, PollerStep

(* After a failed second lock the mutex stays locked for ever. *)
LEMMA ErrorcheckInvStep ==
  ASSUME TypeOK, LockInv, ErrorcheckInv, [Next]_vars
  PROVE  ErrorcheckInv'
<1> USE
   DEF TypeOK, ErrorcheckInv, LockInv, Critical, Active, vars, platform, tokens, table,
          objects, call
<1>0. CASE UNCHANGED vars
  BY <1>0
<1>1. ASSUME NEW t \in Thread, ReadNis(t) PROVE ErrorcheckInv'
  BY <1>1 DEF ReadNis, MayCall, Goto, RelockSucceeds, RelockThrows, RelockWaits
<1>2. ASSUME NEW t \in Thread, NEW uid \in Uids, StopPoll(t, uid)
      PROVE  ErrorcheckInv'
  BY <1>2
     DEF StopPoll, MayCall, Goto, RelockSucceeds, RelockThrows, RelockWaits
<1>3. ASSUME NEW t \in Thread, Deinit(t) PROVE ErrorcheckInv'
  BY <1>3 DEF Deinit, MayCall, Goto, RelockSucceeds, RelockThrows, RelockWaits
<1>4. ASSUME NEW t \in Thread, LockExecutors(t) PROVE ErrorcheckInv'
  BY <1>4
     DEF LockExecutors, At, LockFails, Throw, Goto, RelockSucceeds,
            RelockThrows, RelockWaits
<1>5. ASSUME NEW t \in Thread, CreateThread(t) PROVE ErrorcheckInv'
  <2>1. owner = t /\ t # NoThread
    BY <1>5, ThreadAssumption DEF CreateThread, At
  <2>2. \A s \in Thread : s # t => pc[s] \notin {"remove", "copy", "join"}
    BY <2>1
  <2>3. \A s \in Thread : pc'[s] \notin {"remove", "copy", "join"}
    BY <1>5, <2>2 DEF CreateThread, At, Goto
  <2>4. mutexType = "errorcheck" => \A s \in Thread : pc'[s] \notin {"rn_unlock", "rn_return"}
    BY <1>5 DEF CreateThread, At, Goto
  <2>5. QED BY <1>5, <2>1, <2>3, <2>4 DEF CreateThread
<1>6. ASSUME NEW t \in Thread, AddExecutor(t) PROVE ErrorcheckInv'
  BY <1>6
     DEF AddExecutor, At, Throw, Goto, Store, RelockSucceeds, RelockThrows,
            RelockWaits
<1>7. ASSUME NEW t \in Thread, UnlockExecutors(t) PROVE ErrorcheckInv'
  BY <1>7
     DEF UnlockExecutors, At, Goto, RelockSucceeds, RelockThrows, RelockWaits
<1>8. ASSUME NEW t \in Thread, ReturnReadNis(t) PROVE ErrorcheckInv'
  BY <1>8
     DEF ReturnReadNis, At, Goto, RelockSucceeds, RelockThrows, RelockWaits
<1>9. ASSUME NEW t \in Thread, LockTable(t) PROVE ErrorcheckInv'
  BY <1>9
     DEF LockTable, At, LockFails, Throw, Goto, RelockSucceeds, RelockThrows,
            RelockWaits
<1>10. ASSUME NEW t \in Thread, NEW uid \in Uids, RemoveExecutor(t, uid)
       PROVE  ErrorcheckInv'
  BY <1>10
     DEF RemoveExecutor, At, Goto, RelockSucceeds, RelockThrows, RelockWaits
<1>11. ASSUME NEW t \in Thread, CopyExecutor(t) PROVE ErrorcheckInv'
  BY <1>11
     DEF CopyExecutor, At, Goto, RelockSucceeds, RelockThrows, RelockWaits
<1>12. ASSUME NEW t \in Thread, JoinThread(t) PROVE ErrorcheckInv'
  BY <1>12
     DEF JoinThread, At, Throw, Goto, RelockSucceeds, RelockThrows, RelockWaits
<1>13. ASSUME NEW t \in Thread, FinishRemoval(t) PROVE ErrorcheckInv'
  BY <1>13
     DEF FinishRemoval, At, Goto, RelockSucceeds, RelockThrows, RelockWaits
<1>14. ASSUME NEW e \in Exec, PollAcquire(e) PROVE ErrorcheckInv'
  BY <1>14 DEF PollAcquire, PollStep, RelockSucceeds, RelockThrows, RelockWaits
<1>15. ASSUME NEW e \in Exec, PollTest(e) PROVE ErrorcheckInv'
  BY <1>15 DEF PollTest, PollStep, RelockSucceeds, RelockThrows, RelockWaits
<1>16. ASSUME NEW e \in Exec, PollRead(e) PROVE ErrorcheckInv'
  BY <1>16 DEF PollRead, PollStep, RelockSucceeds, RelockThrows, RelockWaits
<1>17. ASSUME NEW e \in Exec, PollCallback(e) PROVE ErrorcheckInv'
  BY <1>17
     DEF PollCallback, PollStep, RelockSucceeds, RelockThrows, RelockWaits
<1>18. ASSUME NEW e \in Exec, PollSleep(e) PROVE ErrorcheckInv'
  BY <1>18 DEF PollSleep, PollStep, RelockSucceeds, RelockThrows, RelockWaits
<1>19. ASSUME NEW t \in Thread, RemoveBackend(t) PROVE ErrorcheckInv'
  BY <1>19 DEF RemoveBackend, At, Goto
<1>99. QED
  BY <1>0, <1>1, <1>2, <1>3, <1>4, <1>5, <1>6, <1>7, <1>8, <1>9, <1>10, <1>11,
         <1>12, <1>13, <1>14, <1>15, <1>16, <1>17, <1>18, <1>19
     DEF Next, ClientStep, CallStep, PollerStep

-----------------------------------------------------------------------------
(* The initial state satisfies every part of the inductive invariant. *)
LEMMA IInvStart == Init => IInv
<1> SUFFICES ASSUME Init PROVE IInv
  OBVIOUS
<1> USE DEF Init
<1>1. TypeOK
  BY BoundsAssumption, ThreadAssumption
     DEF TypeOK, Exec, NoExec, PollLocations, Locations, Operations
<1>2. LockInv /\ StartInv /\ FrameInv /\ CallInv /\ KeysInv
  BY DEF LockInv, Critical, StartInv, Starting, FrameInv, CallInv, KeysInv
<1>3. FreshInv
  BY BoundsAssumption DEF FreshInv, Exec, NoExec
<1>4. EntryInv /\ ThreadInv /\ ErrorcheckInv
  BY DEF EntryInv, ThreadInv, ErrorcheckInv, Active
<1>5. QED
  BY <1>1, <1>2, <1>3, <1>4 DEF IInv

(* Every step keeps the inductive invariant. *)
LEMMA IInvStep == ASSUME IInv, [Next]_vars PROVE IInv'
<1> USE DEF IInv
<1>1. TypeOK' /\ LockInv' /\ CallInv' /\ FreshInv' /\ StartInv'
  BY TypeStep, LockInvStep, CallInvStep, FreshInvStep, StartInvStep
<1>2. FrameInv' /\ EntryInv' /\ ThreadInv' /\ KeysInv' /\ ErrorcheckInv'
  BY FrameInvStep, EntryInvStep, ThreadInvStep, KeysInvStep, ErrorcheckInvStep
<1>3. QED
  BY <1>1, <1>2

(* The inductive invariant holds throughout every behaviour. *)
THEOREM Invariance == Spec => []IInv
<1>1. Init => IInv
  BY IInvStart
<1>2. IInv /\ [Next]_vars => IInv'
  BY IInvStep
<1>3. QED
  BY <1>1, <1>2, PTL DEF Spec

(* Every variable has its type: in particular every uid in the table and   *)
(* every executor a call works on is one the counter has handed out.       *)
THEOREM TypeCorrect == Spec => []TypeOK
<1>1. IInv => TypeOK
  BY DEF IInv
<1>2. QED
  BY Invariance, <1>1, PTL

(* The table of executors is only used under execMutex, by one thread at a *)
(* time, whichever of the three ways of locking it a call chooses.         *)
THEOREM TableIsGuarded == Spec => []TableGuarded
<1>1. IInv => TableGuarded
  BY DEF IInv, LockInv, TableGuarded
<1>2. QED
  BY Invariance, <1>1, PTL

(* No step takes a live thread's executor away from table and calls. *)
LEMMA NoOrphanStep ==
  ASSUME IInv, NoOrphan, [Next]_vars
  PROVE  NoOrphan'
<1> USE DEF IInv, TypeOK, NoOrphan, vars, platform, tokens, table, objects, call
<1>0. CASE UNCHANGED vars
  BY <1>0 DEF Running, Registered, InHand
<1>1. ASSUME NEW t \in Thread, ReadNis(t) PROVE NoOrphan'
  BY <1>1 DEF ReadNis, MayCall, Goto, Registered, InHand
<1>2. ASSUME NEW t \in Thread, NEW uid \in Uids, StopPoll(t, uid)
      PROVE  NoOrphan'
  BY <1>2 DEF StopPoll, MayCall, Goto, Registered, InHand
<1>3. ASSUME NEW t \in Thread, Deinit(t) PROVE NoOrphan'
  BY <1>3 DEF Deinit, MayCall, Goto, Registered, InHand
<1>4. ASSUME NEW t \in Thread, LockExecutors(t) PROVE NoOrphan'
  BY <1>4 DEF LockExecutors, At, LockFails, Throw, Goto, Registered, InHand
<1>5. ASSUME NEW t \in Thread, CreateThread(t) PROVE NoOrphan'
  <2> DEFINE d == hand[t]
  <2>1. d \in Exec /\ pc' = [pc EXCEPT ![t] = "rn_add"] /\ UNCHANGED <<hand, executors, status, mutexType>> /\ pc[t] = "rn_thread" /\ Running
    BY <1>5 DEF CreateThread, At, Goto, StartInv, Starting
  <2>2. poller' = [poller EXCEPT ![d] = "created"] \/ UNCHANGED poller
    BY <1>5 DEF CreateThread
  <2>3. ASSUME NEW x \in Exec, poller'[x] \in Active, Running', mutexType' # "errorcheck", MaxStarts < UidModulus
        PROVE  Registered(x)' \/ InHand(x)'
    <3>1. CASE x = d BY <2>1, <3>1 DEF InHand
    <3>2. CASE x # d
      <4>1. Registered(x) \/ InHand(x) BY <2>1, <2>2, <2>3, <3>2
      <4>2. QED BY <2>1, <4>1 DEF Registered, InHand
    <3>3. QED BY <3>1, <3>2
  <2>4. QED BY <2>3
<1>6. ASSUME NEW t \in Thread, AddExecutor(t) PROVE NoOrphan'
  <2> DEFINE d == hand[t]
  <2>1. d \in Exec /\ UNCHANGED <<hand, poller, mutexType>> /\ pc[t] = "rn_add" /\ Running
    BY <1>6 DEF AddExecutor, At, StartInv, Starting
  <2>2. \E to \in {"rn_unlock", "stuck", "idle"} : pc' = [pc EXCEPT ![t] = to]
    BY <1>6 DEF AddExecutor, Goto, Throw
  <2>3. ASSUME NEW x \in Exec, poller'[x] \in Active, Running', mutexType' # "errorcheck", MaxStarts < UidModulus
        PROVE  Registered(x)' \/ InHand(x)'
    <3>1. Registered(x) \/ InHand(x) BY <2>1, <2>3
    <3>2. CASE RelockSucceeds /\ Store(d)
      <4>1. Uid(d) = d /\ Uid(x) = x /\ d \in Uids /\ x \in Uids
        BY <2>1, <2>3, UidInjective, UidRange
      <4>2. executors' = [executors EXCEPT ![d] = d] BY <3>2, <4>1 DEF Store
      <4>3. CASE x = d BY <4>1, <4>2, <4>3 DEF Registered
      <4>4. CASE x # d /\ Registered(x) BY <4>1, <4>2, <4>4 DEF Registered
      <4>5. CASE x # d /\ InHand(x) BY <2>1, <2>2, <4>5 DEF InHand
      <4>6. QED BY <3>1, <4>3, <4>4, <4>5
    <3>3. CASE RelockWaits /\ Goto(t, "stuck") /\ UNCHANGED executors
      BY <2>1, <3>1, <3>3 DEF Goto, Registered, InHand
    <3>4. QED BY <1>6, <2>1, <2>3, <3>2, <3>3 DEF AddExecutor, RelockThrows
  <2>4. QED BY <2>3
<1>7. ASSUME NEW t \in Thread, UnlockExecutors(t) PROVE NoOrphan'
  BY <1>7 DEF UnlockExecutors, At, Goto, Registered, InHand
<1>8. ASSUME NEW t \in Thread, ReturnReadNis(t) PROVE NoOrphan'
  BY <1>8 DEF ReturnReadNis, At, Goto, Registered, InHand
<1>9. ASSUME NEW t \in Thread, LockTable(t) PROVE NoOrphan'
  BY <1>9 DEF LockTable, At, LockFails, Throw, Goto, Registered, InHand
<1>10. ASSUME NEW t \in Thread, NEW uid \in Uids, RemoveExecutor(t, uid)
       PROVE  NoOrphan'
  <2> DEFINE d == executors[uid]
  <2>1. CASE d = NoExec
    BY <1>10, <2>1 DEF RemoveExecutor, At, Registered, InHand
  <2>2. CASE d # NoExec
    <3>1. /\ executors' = [executors EXCEPT ![uid] = NoExec] /\ hand' = [hand EXCEPT ![t] = d]
          /\ pc[t] = "remove" /\ pc' = [pc EXCEPT ![t] = "copy"] /\ UNCHANGED <<poller, mutexType>> /\ Running
      BY <1>10, <2>2 DEF RemoveExecutor, At, Goto
    <3>2. ASSUME NEW x \in Exec, poller'[x] \in Active, Running', mutexType' # "errorcheck", MaxStarts < UidModulus
          PROVE  Registered(x)' \/ InHand(x)'
      <4>1. Registered(x) \/ InHand(x) BY <3>1, <3>2
      <4>2. CASE x = d BY <3>1, <4>2 DEF InHand
      <4>3. CASE x # d /\ Registered(x)
        <5>1. Uid(x) # uid BY <4>3 DEF Registered
        <5>2. QED BY <3>1, <4>3, <5>1 DEF Registered, Uid
      <4>4. CASE x # d /\ InHand(x) BY <3>1, <4>4 DEF InHand
      <4>5. QED BY <4>1, <4>2, <4>3, <4>4
    <3>3. QED BY <3>2
  <2>3. QED BY <2>1, <2>2
<1>11. ASSUME NEW t \in Thread, CopyExecutor(t) PROVE NoOrphan'
  BY <1>11 DEF CopyExecutor, At, Goto, Registered, InHand
<1>12. ASSUME NEW t \in Thread, JoinThread(t) PROVE NoOrphan'
  <2> DEFINE d == hand[t]
  <2>1. /\ d \in Exec /\ UNCHANGED <<hand, poller, mutexType, executors>> /\ pc[t] = "join" /\ Running
    BY <1>12 DEF JoinThread, At, CallInv
  <2>2. \E to \in {"remove", "idle"} : pc' = [pc EXCEPT ![t] = to]
    BY <1>12 DEF JoinThread, Goto, Throw
  <2>3. ASSUME NEW x \in Exec, poller'[x] \in Active, Running', mutexType' # "errorcheck", MaxStarts < UidModulus
        PROVE  Registered(x)' \/ InHand(x)'
    <3>1. Registered(x) \/ InHand(x) BY <2>1, <2>3
    <3>2. x # d
      <4>1. CASE poller[d] = "done" BY <2>1, <2>3, <4>1 DEF Active
      <4>2. CASE ~joinable[d] BY <2>1, <2>3, <4>2 DEF ThreadInv
      <4>3. CASE d = t /\ status' = StatusAfterThrow(t)
        BY <2>1, <2>3, <4>3, ThreadAssumption DEF StatusAfterThrow, Running
      <4>4. QED BY <1>12, <4>1, <4>2, <4>3 DEF JoinThread
    <3>3. QED BY <2>1, <2>2, <3>1, <3>2 DEF Registered, InHand
  <2>4. QED BY <2>3
<1>13. ASSUME NEW t \in Thread, FinishRemoval(t) PROVE NoOrphan'
  BY <1>13 DEF FinishRemoval, At, Goto, Registered, InHand
<1>14. ASSUME NEW e \in Exec, PollAcquire(e) PROVE NoOrphan'
  BY <1>14 DEF PollAcquire, PollStep, Active, Registered, InHand
<1>15. ASSUME NEW e \in Exec, PollTest(e) PROVE NoOrphan'
  BY <1>15 DEF PollTest, PollStep, Active, Registered, InHand
<1>16. ASSUME NEW e \in Exec, PollRead(e) PROVE NoOrphan'
  BY <1>16 DEF PollRead, PollStep, Active, Registered, InHand
<1>17. ASSUME NEW e \in Exec, PollCallback(e) PROVE NoOrphan'
  BY <1>17 DEF PollCallback, PollStep, Active, Registered, InHand
<1>18. ASSUME NEW e \in Exec, PollSleep(e) PROVE NoOrphan'
  BY <1>18 DEF PollSleep, PollStep, Active, Registered, InHand
<1>19. ASSUME NEW t \in Thread, RemoveBackend(t) PROVE NoOrphan'
  BY <1>19 DEF RemoveBackend, At, Goto, Registered, InHand
<1>99. QED
  BY <1>0, <1>1, <1>2, <1>3, <1>4, <1>5, <1>6, <1>7, <1>8, <1>9, <1>10, <1>11,
         <1>12, <1>13, <1>14, <1>15, <1>16, <1>17, <1>18, <1>19
     DEF Next, ClientStep, CallStep, PollerStep

(* While uids have not wrapped around, every background thread is within   *)
(* reach of stopPoll and deinit.                                           *)
THEOREM NoThreadIsOrphaned == Spec => []NoOrphan
<1>1. Init => NoOrphan
  BY DEF Init, NoOrphan, Active
<1>2. IInv /\ NoOrphan /\ [Next]_vars => NoOrphan'
  BY NoOrphanStep
<1>3. QED
  BY Invariance, <1>1, <1>2, PTL DEF Spec

(* When deinit has removed every executor no thread is left.  Where the    *)
(* second lock of execMutex throws, the mutex is never free again once a   *)
(* thread was launched, so deinit does not get this far.                   *)
LEMMA DeinitWaits ==
  ASSUME IInv, NoOrphan, Running, MaxStarts < UidModulus,
         NEW t \in Thread, pc[t] = "remove", op[t] = "deinit", todo[t] = {},
         NEW e \in Exec
  PROVE  poller[e] \notin Active
<1> USE DEF IInv, TypeOK
<1> SUFFICES ASSUME poller[e] \in Active PROVE FALSE
  OBVIOUS
<1>1. mutexType # "errorcheck"
  BY DEF ErrorcheckInv
<1>2. Registered(e) \/ InHand(e)
  BY <1>1 DEF NoOrphan
<1>3. ~InHand(e)
  BY DEF InHand, LockInv, Critical
<1>4. Uid(e) \in Keys
  BY <1>2, <1>3, UidRange DEF Registered, Keys, Exec, NoExec
<1>5. Keys = {}
  BY DEF KeysInv
<1>6. QED
  BY <1>4, <1>5

(* A thread that is alive while deinit goes on to the backend, or after    *)
(* its Token was destroyed, was launched too late for that deinit.         *)
LateInv ==
  (Running /\ MaxStarts < UidModulus) =>
    \A e \in Exec :
      poller[e] \in Active /\ (DeinitHalfWay \/ e \in destroyed) => e \in late

(* A step that launches nothing, destroys nothing and brings no deinit to  *)
(* the backend.                                                            *)
LEMMA LateStutters ==
  ASSUME LateInv, UNCHANGED tokens, Running' => Running, DeinitHalfWay' => DeinitHalfWay,
         \A e \in Exec : poller'[e] \in Active => poller[e] \in Active
  PROVE  LateInv'
BY DEF LateInv, tokens

(* deinit gets to the backend with no thread alive, and what is launched   *)
(* from then on is counted as late.                                        *)
LEMMA LateStep ==
  ASSUME IInv, NoOrphan, LateInv, [Next]_vars
  PROVE  LateInv'
<1> USE DEF IInv, TypeOK, vars, platform, tokens, table, objects, call
<1>0. CASE UNCHANGED vars
  BY <1>0, LateStutters DEF Running, DeinitHalfWay
<1>1. ASSUME NEW t \in Thread, ReadNis(t) PROVE LateInv'
  BY <1>1, LateStutters
     DEF ReadNis, Running, At, MayCall, LockFails, Throw, Goto, DeinitHalfWay
<1>2. ASSUME NEW t \in Thread, NEW uid \in Uids, StopPoll(t, uid) PROVE LateInv'
  BY <1>2, LateStutters
     DEF StopPoll, Running, At, MayCall, LockFails, Throw, Goto, DeinitHalfWay
<1>3. ASSUME NEW t \in Thread, Deinit(t) PROVE LateInv'
  BY <1>3, LateStutters
     DEF Deinit, Running, At, MayCall, LockFails, Throw, Goto, DeinitHalfWay
<1>4. ASSUME NEW t \in Thread, LockExecutors(t) PROVE LateInv'
  BY <1>4, LateStutters
     DEF LockExecutors, Running, At, MayCall, LockFails, Throw, Goto, DeinitHalfWay
<1>5. ASSUME NEW t \in Thread, CreateThread(t) PROVE LateInv'
  <2> DEFINE d == hand[t]
  <2>1. d \in Exec /\ Running /\ UNCHANGED <<destroyed, status>> /\ pc' = [pc EXCEPT ![t] = "rn_add"]
    BY <1>5 DEF CreateThread, At, Goto, StartInv, Starting
  <2>2. DeinitHalfWay' => DeinitHalfWay
    BY <2>1 DEF DeinitHalfWay
  <2>3. CASE /\ poller' = [poller EXCEPT ![d] = "created"]
             /\ late' = IF DeinitHalfWay \/ d \in destroyed THEN late \cup {d} ELSE late
    <3>1. ASSUME NEW e \in Exec, MaxStarts < UidModulus, poller'[e] \in Active,
                 DeinitHalfWay' \/ e \in destroyed'
          PROVE  e \in late'
      <4>1. CASE e = d BY <2>1, <2>2, <2>3, <3>1, <4>1
      <4>2. CASE e # d
        <5>1. e \in late BY <2>1, <2>2, <2>3, <3>1, <4>2 DEF LateInv
        <5>2. QED BY <2>3, <5>1
      <4>3. QED BY <4>1, <4>2
    <3>2. QED BY <3>1 DEF LateInv
  <2>4. CASE UNCHANGED <<poller, late>>
    BY <2>1, <2>2, <2>4, LateStutters DEF Running
  <2>5. QED BY <1>5, <2>3, <2>4 DEF CreateThread
<1>6. ASSUME NEW t \in Thread, AddExecutor(t) PROVE LateInv'
  BY <1>6, LateStutters DEF AddExecutor, Running, At, Throw, Goto, DeinitHalfWay
<1>7. ASSUME NEW t \in Thread, UnlockExecutors(t) PROVE LateInv'
  BY <1>7, LateStutters
     DEF UnlockExecutors, Running, At, LockFails, Throw, Goto, DeinitHalfWay
<1>8. ASSUME NEW t \in Thread, ReturnReadNis(t) PROVE LateInv'
  BY <1>8, LateStutters
     DEF ReturnReadNis, Running, At, LockFails, Throw, Goto, DeinitHalfWay
<1>9. ASSUME NEW t \in Thread, LockTable(t) PROVE LateInv'
  BY <1>9, LateStutters
     DEF LockTable, Running, At, LockFails, Throw, Goto, DeinitHalfWay
<1>10. ASSUME NEW t \in Thread, NEW uid \in Uids, RemoveExecutor(t, uid) PROVE LateInv'
  BY <1>10, LateStutters
     DEF RemoveExecutor, Running, At, LockFails, Throw, Goto, DeinitHalfWay
<1>11. ASSUME NEW t \in Thread, CopyExecutor(t) PROVE LateInv'
  BY <1>11, LateStutters
     DEF CopyExecutor, Running, At, LockFails, Throw, Goto, DeinitHalfWay
<1>12. ASSUME NEW t \in Thread, JoinThread(t) PROVE LateInv'
  BY <1>12, LateStutters
     DEF JoinThread, Running, At, LockFails, Throw, Goto, DeinitHalfWay
<1>13. ASSUME NEW t \in Thread, FinishRemoval(t) PROVE LateInv'
  <2>1. /\ pc[t] = "remove" /\ todo[t] = {} /\ Running /\ UNCHANGED <<poller, status, destroyed, late>>
        /\ pc' = [pc EXCEPT ![t] = IF op[t] = "deinit" THEN "backends" ELSE "idle"]
    BY <1>13 DEF FinishRemoval, At, Goto
  <2>2. CASE op[t] = "deinit"
    <3>1. MaxStarts < UidModulus => \A e \in Exec : poller'[e] \notin Active
      BY <2>1, <2>2, DeinitWaits
    <3>2. QED BY <3>1 DEF LateInv
  <2>3. CASE op[t] # "deinit"
    <3>1. DeinitHalfWay' => DeinitHalfWay BY <2>1, <2>3 DEF DeinitHalfWay
    <3>2. QED BY <2>1, <3>1, LateStutters DEF Running
  <2>4. QED BY <2>2, <2>3
<1>14. ASSUME NEW e \in Exec, PollerStep(e) PROVE LateInv'
  <2>1. UNCHANGED tokens /\ Running /\ UNCHANGED pc /\ poller[e] \in Active
        /\ \E to \in PollLocations : poller' = [poller EXCEPT ![e] = to]
    BY <1>14
       DEF PollerStep, PollAcquire, PollTest, PollRead, PollCallback, PollSleep, PollStep,
           Active, PollLocations
  <2>2. QED BY <2>1, LateStutters DEF DeinitHalfWay
<1>15. ASSUME NEW t \in Thread, RemoveBackend(t) PROVE LateInv'
  <2>1. DeinitHalfWay /\ Running /\ UNCHANGED <<late, poller>>
    BY <1>15 DEF RemoveBackend, At, DeinitHalfWay
  <2>2. MaxStarts < UidModulus => \A e \in Exec : poller[e] \in Active => e \in late
    BY <2>1 DEF LateInv
  <2>3. QED BY <2>1, <2>2 DEF LateInv
<1>99. QED
  BY <1>0, <1>1, <1>2, <1>3, <1>4, <1>5, <1>6, <1>7, <1>8, <1>9, <1>10, <1>11,
         <1>12, <1>13, <1>14, <1>15
     DEF Next, ClientStep, CallStep

(* deinit has ended every thread when it releases execMutex, and only      *)
(* threads launched after that are alive when it removes the backend and   *)
(* after it has destroyed their Token.                                     *)
THEOREM DeinitQuiescence == Spec => []DeinitQuiesces
<1>1. Init => LateInv
  BY DEF Init, LateInv, Active
<1>2. IInv /\ NoOrphan /\ LateInv /\ [Next]_vars => LateInv'
  BY LateStep
<1>3. IInv /\ NoOrphan /\ LateInv => DeinitQuiesces
  BY DeinitWaits DEF DeinitQuiesces, LateInv
<1>4. QED
  BY Invariance, NoThreadIsOrphaned, <1>1, <1>2, <1>3, PTL DEF Spec

(* No step takes the last reference away under a thread that is launched   *)
(* and not yet running, unless the process ends with it.                   *)
LEMMA PromotionStep ==
  ASSUME IInv, PromotionSucceeds, [Next]_vars
  PROVE  PromotionSucceeds'
<1> USE
   DEF IInv, TypeOK, PromotionSucceeds, vars, platform, tokens, table, objects, call
<1>0. CASE UNCHANGED vars
  BY <1>0 DEF Running
<1>1. ASSUME NEW t \in Thread, ReadNis(t) PROVE PromotionSucceeds'
  <2>1. calls + 1 \in Exec /\ refs' = [refs EXCEPT ![calls + 1] = {"frame"}] /\ UNCHANGED <<poller, status>>
    BY <1>1, BoundsAssumption DEF ReadNis, Exec
  <2>2. QED BY <2>1 DEF Running
<1>2. ASSUME NEW t \in Thread, NEW uid \in Uids, StopPoll(t, uid)
      PROVE  PromotionSucceeds'
  BY <1>2 DEF StopPoll, Running, MayCall, Goto
<1>3. ASSUME NEW t \in Thread, Deinit(t) PROVE PromotionSucceeds'
  BY <1>3 DEF Deinit, Running, MayCall, Goto
<1>4. ASSUME NEW t \in Thread, LockExecutors(t) PROVE PromotionSucceeds'
  <2>1. CASE UNCHANGED <<refs, status>>
    BY <1>4, <2>1 DEF LockExecutors, Running
  <2>2. CASE refs' = [refs EXCEPT ![hand[t]] = @ \ {"frame"}]
    <3>1. poller[hand[t]] = "none" /\ hand[t] \in Exec
      BY <1>4 DEF LockExecutors, At, StartInv, Starting
    <3>2. UNCHANGED poller /\ Running BY <1>4 DEF LockExecutors, At
    <3>3. QED BY <2>2, <3>1, <3>2 DEF Running
  <2>3. QED BY <1>4, <2>1, <2>2 DEF LockExecutors
<1>5. ASSUME NEW t \in Thread, CreateThread(t) PROVE PromotionSucceeds'
  <2> DEFINE d == hand[t]
  <2>1. d \in Exec /\ UNCHANGED <<refs, status>> /\ pc[t] = "rn_thread"
    BY <1>5 DEF CreateThread, At, StartInv, Starting
  <2>2. "frame" \in refs[d] BY <2>1 DEF FrameInv
  <2>3. poller' = [poller EXCEPT ![d] = "created"] \/ UNCHANGED poller
    BY <1>5 DEF CreateThread
  <2>4. QED BY <2>1, <2>2, <2>3 DEF Running
<1>6. ASSUME NEW t \in Thread, AddExecutor(t) PROVE PromotionSucceeds'
  <2> DEFINE d == hand[t]
  <2>1. UNCHANGED poller /\ Running /\ d \in Exec
    BY <1>6 DEF AddExecutor, At, StartInv, Starting
  <2>2. ASSUME NEW x \in Exec, poller'[x] = "created", Running'
        PROVE  refs'[x] # {}
    <3>1. refs[x] # {} /\ joinable[x] BY <2>1, <2>2 DEF ThreadInv, Active
    <3>2. CASE Store(d)
      <4> DEFINE old == executors[Uid(d)]
      <4>1. x = d \/ x # old => refs'[x] # {} BY <3>1, <3>2 DEF Store
      <4>2. CASE x # d /\ x = old
        <5>1. old # NoExec BY <4>2 DEF Exec, NoExec
        <5>2. ~(refs[x] = {"map"})
          BY <2>2, <3>1, <3>2, <4>2, <5>1 DEF Store, StatusAfterDrop, Running
        <5>3. refs'[x] = refs[x] \ {"map"} BY <3>2, <4>2 DEF Store
        <5>4. QED BY <3>1, <5>2, <5>3
      <4>3. QED BY <4>1, <4>2
    <3>3. CASE UNCHANGED refs BY <3>1, <3>3
    <3>4. CASE RelockThrows /\ ~UNCHANGED refs /\ ~Store(d)
      <4>1. refs' = [refs EXCEPT ![d] = @ \ {"frame"}]
            /\ (status' = "terminated" \/ status' = StatusAfterDrop(d, "frame"))
        BY <1>6, <3>4 DEF AddExecutor, StatusAfterThrow
      <4>2. status' = "running" BY <2>2 DEF Running
      <4>3. status' = StatusAfterDrop(d, "frame") BY <4>1, <4>2
      <4>4. x = d => ~(refs[x] = {"frame"})
        BY <3>1, <4>2, <4>3 DEF StatusAfterDrop
      <4>5. refs'[x] = IF x = d THEN refs[x] \ {"frame"} ELSE refs[x]
        BY <4>1
      <4>6. QED BY <3>1, <4>4, <4>5
    <3>5. QED BY <1>6, <3>2, <3>3, <3>4 DEF AddExecutor
  <2>3. QED BY <2>2
<1>7. ASSUME NEW t \in Thread, UnlockExecutors(t) PROVE PromotionSucceeds'
  BY <1>7 DEF UnlockExecutors, Running, At, Goto
<1>8. ASSUME NEW t \in Thread, ReturnReadNis(t) PROVE PromotionSucceeds'
  <2> DEFINE d == hand[t]
  <2>1. UNCHANGED poller /\ Running /\ refs' = [refs EXCEPT ![d] = @ \ {"frame"}] /\ status' = StatusAfterDrop(d, "frame")
    BY <1>8 DEF ReturnReadNis, At
  <2>2. ASSUME NEW x \in Exec, poller'[x] = "created", Running'
        PROVE  refs'[x] # {}
    <3>1. refs[x] # {} /\ joinable[x] BY <2>1, <2>2 DEF ThreadInv, Active
    <3>2. x = d => ~(refs[x] = {"frame"})
      BY <2>1, <2>2, <3>1 DEF StatusAfterDrop, Running
    <3>3. QED BY <2>1, <3>1, <3>2
  <2>3. QED BY <2>2
<1>9. ASSUME NEW t \in Thread, LockTable(t) PROVE PromotionSucceeds'
  BY <1>9 DEF LockTable, Running, At, LockFails, Throw, Goto
<1>10. ASSUME NEW t \in Thread, NEW uid \in Uids, RemoveExecutor(t, uid)
       PROVE  PromotionSucceeds'
  <2> DEFINE d == executors[uid]
  <2>1. CASE d = NoExec BY <1>10, <2>1 DEF RemoveExecutor, Running
  <2>2. CASE d # NoExec
    <3>1. /\ UNCHANGED poller /\ Running /\ refs' = [refs EXCEPT ![d] = @ \ {"map"}]
          /\ refs[d] = {"map"} /\ joinable[d] => status' = "terminated"
      BY <1>10, <2>2 DEF RemoveExecutor, At, StatusAfterDrop
    <3>2. ASSUME NEW x \in Exec, poller'[x] = "created", Running'
          PROVE  refs'[x] # {}
      <4>1. refs[x] # {} /\ joinable[x] BY <3>1, <3>2 DEF ThreadInv, Active
      <4>2. x = d => ~(refs[x] = {"map"}) BY <3>1, <3>2, <4>1 DEF Running
      <4>3. QED BY <3>1, <4>1, <4>2
    <3>3. QED BY <3>2
  <2>3. QED BY <2>1, <2>2
<1>11. ASSUME NEW t \in Thread, CopyExecutor(t) PROVE PromotionSucceeds'
  <2>1. UNCHANGED poller /\ Running /\ refs' = [refs EXCEPT ![hand[t]] = @ \cup {"remover"}]
    BY <1>11 DEF CopyExecutor, At
  <2>2. QED BY <2>1
<1>12. ASSUME NEW t \in Thread, JoinThread(t) PROVE PromotionSucceeds'
  <2> DEFINE d == hand[t]
  <2>1. UNCHANGED poller /\ Running /\ refs' = [refs EXCEPT ![d] = @ \ {"remover"}] /\ d \in Exec
    BY <1>12 DEF JoinThread, At, CallInv
  <2>2. ASSUME NEW x \in Exec, poller'[x] = "created", Running'
        PROVE  refs'[x] # {}
    <3>1. refs[x] # {} /\ joinable[x] BY <2>1, <2>2 DEF ThreadInv, Active
    <3>2. x # d
      <4>1. CASE poller[d] = "done" BY <2>1, <2>2, <4>1
      <4>2. CASE ~joinable[d] BY <3>1, <4>2
      <4>3. CASE d = t /\ status' = StatusAfterThrow(t)
        BY <2>1, <2>2, <4>3, ThreadAssumption DEF StatusAfterThrow, Running
      <4>4. QED BY <1>12, <4>1, <4>2, <4>3 DEF JoinThread
    <3>3. QED BY <2>1, <3>1, <3>2
  <2>3. QED BY <2>2
<1>13. ASSUME NEW t \in Thread, FinishRemoval(t) PROVE PromotionSucceeds'
  BY <1>13 DEF FinishRemoval, Running, At, Goto
<1>14. ASSUME NEW e \in Exec, PollAcquire(e) PROVE PromotionSucceeds'
  BY <1>14 DEF PollAcquire, Running, PollStep
<1>15. ASSUME NEW e \in Exec, PollTest(e) PROVE PromotionSucceeds'
  <2>1. \E to \in {"read", "done"} : poller' = [poller EXCEPT ![e] = to]
    BY <1>15 DEF PollTest, PollStep
  <2>2. /\ poller[e] = "test" /\ Running
        /\ UNCHANGED refs \/ refs' = [refs EXCEPT ![e] = @ \ {"thread"}]
    BY <1>15 DEF PollTest, PollStep
  <2>3. QED BY <2>1, <2>2
<1>16. ASSUME NEW e \in Exec, PollRead(e) PROVE PromotionSucceeds'
  BY <1>16 DEF PollRead, Running, PollStep
<1>17. ASSUME NEW e \in Exec, PollCallback(e) PROVE PromotionSucceeds'
  BY <1>17 DEF PollCallback, Running, PollStep
<1>18. ASSUME NEW e \in Exec, PollSleep(e) PROVE PromotionSucceeds'
  BY <1>18 DEF PollSleep, Running, PollStep
<1>19. ASSUME NEW t \in Thread, RemoveBackend(t) PROVE PromotionSucceeds'
  BY <1>19 DEF RemoveBackend, Running, At, Goto
<1>99. QED
  BY <1>0, <1>1, <1>2, <1>3, <1>4, <1>5, <1>6, <1>7, <1>8, <1>9, <1>10, <1>11,
         <1>12, <1>13, <1>14, <1>15, <1>16, <1>17, <1>18, <1>19
     DEF Next, ClientStep, CallStep, PollerStep

(* The weak_ptr a new thread was given can always be promoted. *)
THEOREM PromotionAlwaysSucceeds == Spec => []PromotionSucceeds
<1>1. Init => PromotionSucceeds
  BY DEF Init, PromotionSucceeds
<1>2. IInv /\ PromotionSucceeds /\ [Next]_vars => PromotionSucceeds'
  BY PromotionStep
<1>3. QED
  BY Invariance, <1>1, <1>2, PTL DEF Spec

-----------------------------------------------------------------------------
(* The executors implement the polling service: once an executor is        *)
(* stopped its client sees at most the one callback that was being read    *)
(* for, and none once its thread was joined.                               *)

(* The service sees only these three variables. *)
LEMMA ServiceStutters ==
  ASSUME UNCHANGED <<poller, exitPoll, joinable>>
  PROVE  UNCHANGED Service!svcvars
  BY DEF Service!svcvars, SvcPhase, SvcFiring, SvcOwed, Phase

(* A step that touches one executor changes one phase. *)
LEMMA PhaseChanges ==
  ASSUME NEW d \in Exec,
         \A x \in Exec \ {d} : /\ poller'[x] = poller[x]
                               /\ exitPoll'[x] = exitPoll[x]
                               /\ joinable'[x] = joinable[x]
  PROVE  SvcPhase' = [SvcPhase EXCEPT ![d] = Phase(d)']
  BY DEF SvcPhase, Phase

(* The executors start as the service does. *)
LEMMA ServiceStart == Init => Service!SvcInit
  BY DEF Init, Service!SvcInit, SvcPhase, SvcFiring, SvcOwed, Phase

(* Every step is a step of the service or invisible to it: launching is    *)
(* Start, the end of a read is Fire, setting exitPoll is Stop, the end of  *)
(* the thread is Halt and a successful join is Reap.                       *)
LEMMA ServiceStep ==
  ASSUME IInv, [Next]_vars
  PROVE  [Service!SvcNext]_(Service!svcvars)
<1> USE DEF IInv, TypeOK, vars, platform, tokens, table, objects, call
<1>0. CASE UNCHANGED vars
  BY <1>0, ServiceStutters
<1>1. ASSUME NEW t \in Thread, ReadNis(t)
      PROVE  [Service!SvcNext]_(Service!svcvars)
  BY <1>1, ServiceStutters DEF ReadNis, MayCall, Goto
<1>2. ASSUME NEW t \in Thread, NEW uid \in Uids, StopPoll(t, uid)
      PROVE  [Service!SvcNext]_(Service!svcvars)
  BY <1>2, ServiceStutters DEF StopPoll, MayCall, Goto
<1>3. ASSUME NEW t \in Thread, Deinit(t)
      PROVE  [Service!SvcNext]_(Service!svcvars)
  BY <1>3, ServiceStutters DEF Deinit, MayCall, Goto
<1>4. ASSUME NEW t \in Thread, LockExecutors(t)
      PROVE  [Service!SvcNext]_(Service!svcvars)
  BY <1>4, ServiceStutters DEF LockExecutors, At, LockFails, Throw, Goto
<1>5. ASSUME NEW t \in Thread, CreateThread(t)
      PROVE  [Service!SvcNext]_(Service!svcvars)
  <2>1. PICK d \in Exec : d = hand[t] /\ poller[d] = "none" /\ ~exitPoll[d]
    BY <1>5 DEF CreateThread, At, StartInv, Starting
  <2>2. CASE poller' = [poller EXCEPT ![d] = "created"] /\ joinable' = [joinable EXCEPT ![d] = TRUE]
    <3>1. UNCHANGED exitPoll BY <1>5 DEF CreateThread
    <3>2. Phase(d) = "absent" /\ Phase(d)' = "polling"
      BY <2>1, <2>2, <3>1 DEF Phase, Active
    <3>3. UNCHANGED SvcFiring /\ UNCHANGED SvcOwed
      BY <2>1, <2>2, <3>1 DEF SvcFiring, SvcOwed
    <3>4. SvcPhase' = [SvcPhase EXCEPT ![d] = "polling"]
      BY <2>1, <2>2, <3>1, <3>2, PhaseChanges
    <3>5. Service!Start(d)
      BY <2>1, <3>2, <3>3, <3>4 DEF Service!Start, Service!Move, SvcPhase
    <3>6. QED BY <2>1, <3>5 DEF Service!SvcNext
  <2>3. CASE UNCHANGED <<poller, joinable>>
    BY <1>5, <2>3, ServiceStutters DEF CreateThread
  <2>4. QED BY <1>5, <2>1, <2>2, <2>3 DEF CreateThread
<1>6. ASSUME NEW t \in Thread, AddExecutor(t)
      PROVE  [Service!SvcNext]_(Service!svcvars)
  BY <1>6, ServiceStutters DEF AddExecutor, At, Throw, Goto, Store
<1>7. ASSUME NEW t \in Thread, UnlockExecutors(t)
      PROVE  [Service!SvcNext]_(Service!svcvars)
  BY <1>7, ServiceStutters DEF UnlockExecutors, At, Goto
<1>8. ASSUME NEW t \in Thread, ReturnReadNis(t)
      PROVE  [Service!SvcNext]_(Service!svcvars)
  BY <1>8, ServiceStutters DEF ReturnReadNis, At, Goto
<1>9. ASSUME NEW t \in Thread, LockTable(t)
      PROVE  [Service!SvcNext]_(Service!svcvars)
  BY <1>9, ServiceStutters DEF LockTable, At, LockFails, Throw, Goto
<1>10. ASSUME NEW t \in Thread, NEW uid \in Uids, RemoveExecutor(t, uid)
       PROVE  [Service!SvcNext]_(Service!svcvars)
  <2>1. CASE executors[uid] = NoExec
    BY <1>10, <2>1, ServiceStutters DEF RemoveExecutor
  <2>2. CASE executors[uid] # NoExec
    <3>1. PICK d \in Exec : d = executors[uid] /\ ~exitPoll[d]
      BY <2>2 DEF EntryInv
    <3>2. exitPoll' = [exitPoll EXCEPT ![d] = TRUE] /\ UNCHANGED <<poller, joinable>>
      BY <1>10, <2>2, <3>1 DEF RemoveExecutor
    <3>3. UNCHANGED SvcFiring BY <3>2 DEF SvcFiring
    <3>4. SvcPhase' = [SvcPhase EXCEPT ![d] = Phase(d)']
      BY <3>1, <3>2, PhaseChanges
    <3>5. SvcOwed' = [SvcOwed EXCEPT ![d] = (poller[d] = "read")]
      BY <3>1, <3>2 DEF SvcOwed
    <3>6. CASE poller[d] = "none"
      <4>1. Phase(d) = "absent" /\ Phase(d)' = "absent" BY <3>2, <3>6 DEF Phase
      <4>2. UNCHANGED SvcPhase BY <3>1, <3>4, <4>1 DEF SvcPhase
      <4>3. UNCHANGED SvcOwed BY <3>1, <3>2, <3>6 DEF SvcOwed
      <4>4. QED BY <3>3, <4>2, <4>3 DEF Service!svcvars
    <3>7. CASE poller[d] # "none"
      <4>1. poller[d] \in Active
        BY <3>1, <3>7 DEF ThreadInv, Active, PollLocations
      <4>2. Phase(d) = "polling" /\ Phase(d)' = "stopping"
        BY <3>1, <3>2, <3>7, <4>1 DEF Phase
      <4>3. Service!Move(d, "polling", "stopping")
        BY <3>1, <3>4, <4>2 DEF Service!Move, SvcPhase
      <4>4. (poller[d] = "read") \in BOOLEAN /\ (poller[d] = "read" => ~SvcFiring[d])
        BY <3>1 DEF SvcFiring
      <4>5. Service!Stop(d) BY <3>3, <3>5, <4>3, <4>4 DEF Service!Stop
      <4>6. QED BY <3>1, <4>5 DEF Service!SvcNext
    <3>8. QED BY <3>6, <3>7
  <2>3. QED BY <2>1, <2>2
<1>11. ASSUME NEW t \in Thread, CopyExecutor(t)
       PROVE  [Service!SvcNext]_(Service!svcvars)
  BY <1>11, ServiceStutters DEF CopyExecutor, At, Goto
<1>12. ASSUME NEW t \in Thread, JoinThread(t)
       PROVE  [Service!SvcNext]_(Service!svcvars)
  <2>1. PICK d \in Exec : d = hand[t] /\ UNCHANGED <<poller, exitPoll>>
    BY <1>12 DEF JoinThread, At, CallInv
  <2>2. CASE joinable[d] /\ poller[d] = "done" /\ joinable' = [joinable EXCEPT ![d] = FALSE]
    <3>1. Phase(d) = "stopped" /\ Phase(d)' = "reaped"
      BY <2>1, <2>2 DEF Phase, Active
    <3>2. SvcPhase' = [SvcPhase EXCEPT ![d] = "reaped"]
      BY <2>1, <2>2, <3>1, PhaseChanges
    <3>3. UNCHANGED SvcFiring /\ UNCHANGED SvcOwed
      BY <2>1 DEF SvcFiring, SvcOwed
    <3>4. Service!Reap(d)
      BY <2>1, <3>1, <3>2, <3>3 DEF Service!Reap, Service!Move, SvcPhase
    <3>5. QED BY <2>1, <3>4 DEF Service!SvcNext
  <2>3. CASE UNCHANGED joinable BY <2>1, <2>3, ServiceStutters
  <2>4. QED BY <1>12, <2>1, <2>2, <2>3 DEF JoinThread
<1>13. ASSUME NEW t \in Thread, FinishRemoval(t)
       PROVE  [Service!SvcNext]_(Service!svcvars)
  BY <1>13, ServiceStutters DEF FinishRemoval, At, Goto
<1>14. ASSUME NEW e \in Exec, PollAcquire(e)
       PROVE  [Service!SvcNext]_(Service!svcvars)
  <2>1. poller' = [poller EXCEPT ![e] = "test"] /\ poller[e] = "created" /\ UNCHANGED <<exitPoll, joinable>>
    BY <1>14 DEF PollAcquire, PollStep
  <2>2. Phase(e)' = Phase(e) BY <2>1 DEF Phase, Active
  <2>3. UNCHANGED SvcPhase BY <2>1, <2>2, PhaseChanges DEF SvcPhase
  <2>4. UNCHANGED SvcFiring /\ UNCHANGED SvcOwed BY <2>1 DEF SvcFiring, SvcOwed
  <2>5. QED BY <2>3, <2>4 DEF Service!svcvars
<1>15. ASSUME NEW e \in Exec, PollTest(e)
       PROVE  [Service!SvcNext]_(Service!svcvars)
  <2>1. poller[e] = "test" /\ UNCHANGED <<exitPoll, joinable>>
    BY <1>15 DEF PollTest, PollStep
  <2>2. CASE ~exitPoll[e] /\ poller' = [poller EXCEPT ![e] = "read"]
    <3>1. Phase(e)' = Phase(e) BY <2>1, <2>2 DEF Phase, Active
    <3>2. UNCHANGED SvcPhase BY <2>1, <2>2, <3>1, PhaseChanges DEF SvcPhase
    <3>3. UNCHANGED SvcFiring /\ UNCHANGED SvcOwed
      BY <2>1, <2>2 DEF SvcFiring, SvcOwed
    <3>4. QED BY <3>2, <3>3 DEF Service!svcvars
  <2>3. CASE exitPoll[e] /\ poller' = [poller EXCEPT ![e] = "done"]
    <3>1. joinable[e] BY <2>1 DEF ThreadInv, Active
    <3>2. Phase(e) = "stopping" /\ Phase(e)' = "stopped"
      BY <2>1, <2>3, <3>1 DEF Phase, Active
    <3>3. SvcPhase' = [SvcPhase EXCEPT ![e] = "stopped"]
      BY <2>1, <2>3, <3>2, PhaseChanges
    <3>4. UNCHANGED SvcFiring /\ UNCHANGED SvcOwed
      BY <2>1, <2>3 DEF SvcFiring, SvcOwed
    <3>5. ~SvcFiring[e] /\ ~SvcOwed[e] BY <2>1 DEF SvcFiring, SvcOwed
    <3>6. Service!Halt(e)
      BY <3>2, <3>3, <3>4, <3>5 DEF Service!Halt, Service!Move, SvcPhase
    <3>7. QED BY <3>6 DEF Service!SvcNext
  <2>4. QED BY <1>15, <2>2, <2>3 DEF PollTest, PollStep
<1>16. ASSUME NEW e \in Exec, PollRead(e)
       PROVE  [Service!SvcNext]_(Service!svcvars)
  <2>1. poller[e] = "read" /\ poller' = [poller EXCEPT ![e] = "callback"] /\ UNCHANGED <<exitPoll, joinable>>
    BY <1>16 DEF PollRead, PollStep
  <2>2. Phase(e)' = Phase(e) BY <2>1 DEF Phase, Active
  <2>3. UNCHANGED SvcPhase BY <2>1, <2>2, PhaseChanges DEF SvcPhase
  <2>4. SvcFiring' = [SvcFiring EXCEPT ![e] = TRUE] /\ SvcOwed' = [SvcOwed EXCEPT ![e] = FALSE]
    BY <2>1 DEF SvcFiring, SvcOwed
  <2>5. ~SvcFiring[e] /\ (SvcPhase[e] = "polling" \/ (SvcPhase[e] = "stopping" /\ SvcOwed[e]))
    BY <2>1 DEF SvcFiring, SvcPhase, SvcOwed, Phase, Active
  <2>6. Service!Fire(e) BY <2>3, <2>4, <2>5 DEF Service!Fire
  <2>7. QED BY <2>6 DEF Service!SvcNext
<1>17. ASSUME NEW e \in Exec, PollCallback(e)
       PROVE  [Service!SvcNext]_(Service!svcvars)
  <2>1. poller[e] = "callback" /\ poller' = [poller EXCEPT ![e] = "sleep"] /\ UNCHANGED <<exitPoll, joinable>>
    BY <1>17 DEF PollCallback, PollStep
  <2>2. Phase(e)' = Phase(e) BY <2>1 DEF Phase, Active
  <2>3. UNCHANGED SvcPhase BY <2>1, <2>2, PhaseChanges DEF SvcPhase
  <2>4. SvcFiring' = [SvcFiring EXCEPT ![e] = FALSE] /\ UNCHANGED SvcOwed
    BY <2>1 DEF SvcFiring, SvcOwed
  <2>5. SvcFiring[e] BY <2>1 DEF SvcFiring
  <2>6. Service!Return(e) BY <2>3, <2>4, <2>5 DEF Service!Return
  <2>7. QED BY <2>6 DEF Service!SvcNext
<1>18. ASSUME NEW e \in Exec, PollSleep(e)
       PROVE  [Service!SvcNext]_(Service!svcvars)
  <2>1. poller' = [poller EXCEPT ![e] = "test"] /\ poller[e] = "sleep" /\ UNCHANGED <<exitPoll, joinable>>
    BY <1>18 DEF PollSleep, PollStep
  <2>2. Phase(e)' = Phase(e) BY <2>1 DEF Phase, Active
  <2>3. UNCHANGED SvcPhase BY <2>1, <2>2, PhaseChanges DEF SvcPhase
  <2>4. UNCHANGED SvcFiring /\ UNCHANGED SvcOwed BY <2>1 DEF SvcFiring, SvcOwed
  <2>5. QED BY <2>3, <2>4 DEF Service!svcvars
<1>19. ASSUME NEW t \in Thread, RemoveBackend(t)
       PROVE  [Service!SvcNext]_(Service!svcvars)
  BY <1>19, ServiceStutters DEF RemoveBackend, At, Goto
<1>99. QED
  BY <1>0, <1>1, <1>2, <1>3, <1>4, <1>5, <1>6, <1>7, <1>8, <1>9, <1>10, <1>11,
         <1>12, <1>13, <1>14, <1>15, <1>16, <1>17, <1>18, <1>19
     DEF Next, ClientStep, CallStep, PollerStep

(* Every behaviour of the executors is a behaviour of the service. *)
THEOREM Implementation == Spec => ImplementsService
<1>1. Init => Service!SvcInit
  BY ServiceStart
<1>2. IInv /\ [Next]_vars => [Service!SvcNext]_(Service!svcvars)
  BY ServiceStep
<1>3. QED
  BY Invariance, <1>1, <1>2, PTL DEF Spec, ImplementsService, Service!Spec

=============================================================================
