------------------------------ MODULE WebUiProofs -----------------------------
(***************************************************************************)
(* The two parts of the web server that keep state: the accounts that may  *)
(* use it, and the tasks it runs.  They share no variable; each has its    *)
(* own specification, and the theorems are about the one or the other.     *)
(***************************************************************************)
EXTENDS Accounts, TaskLifecycle, TLAPS

-------------------------------------------------------------------------------
(***************************************************************************)
(* Accounts and sessions, for every number of accounts, requests and       *)
(* sessions and every limit.                                               *)
(*                                                                         *)
(* SessionsCurrent is inductive with the types: a session is inserted only *)
(* under a second look at the hash, and every change of a hash or of an    *)
(* account's existence closes the account's sessions in the same step.     *)
(* AdminRemains rests on the acting administrator, who cannot delete       *)
(* himself.                                                                *)
(***************************************************************************)

(* What Newest keeps was there (the DELETE at the end of login).           *)
LEMMA NewestIsSubset == ASSUME NEW S, NEW i PROVE Newest(S, i) \subseteq S
BY DEF Newest

(* A step that only moves requests keeps the types.                        *)
LEMMA RequestTypes ==
    ASSUME AccountsTypeOK, NEW c \in Clients, NEW r, Request(c, r),
           r \in Requests
    PROVE  req' \in [Clients -> Requests]
BY DEF AccountsTypeOK, Request, PutRow

(* The empty request is a request.                                         *)
LEMMA IdleType ==
    Idle \in Requests
BY BoundsAssumption DEF Idle, Ask, Requests

(* The counters stay within their limits (login).                          *)
LEMMA CountAttemptTypes ==
    ASSUME AccountsTypeOK, NEW n \in Names, CountAttempt(n)
    PROVE  /\ attempts' \in [Keys -> Nat] /\ \A k \in Keys : attempts'[k] <= Limit(k)
           /\ started' \in [Keys -> 0..MaxTime]
           /\ sessions' \subseteq Session
<1>1. \A k \in Keys : Counted(k) \in Nat /\ Counted(k) <= Limit(k)
  BY LimitsAssumption DEF AccountsTypeOK, Counted, Limit
<1>2. \A k \in {Global, n} : Counted(k) < Limit(k)
  BY DEF CountAttempt, AttemptsLeft
<1>3. \A k \in Keys : Limit(k) \in Nat
  BY LimitsAssumption DEF Limit
<1>4. attempts' \in [Keys -> Nat] /\ \A k \in Keys : attempts'[k] <= Limit(k)
  BY <1>1, <1>2, <1>3 DEF CountAttempt
<1>5. started' \in [Keys -> 0..MaxTime]
  BY BoundsAssumption DEF CountAttempt, AccountsTypeOK
<1>6. QED
  BY <1>4, <1>5 DEF CountAttempt, AccountsTypeOK

(* Inserting an account keeps the types of the users table.                *)
LEMMA InsertTypes ==
    ASSUME AccountsTypeOK, NEW i \in Ids, NEW n \in Names, NEW r \in {"admin", "viewer"}, Insert(i, n, r)
    PROVE  /\ name' \in [Ids -> Names \cup {NoName}]
           /\ hash' \in [Ids -> 0..MaxHash] /\ role' \in [Ids -> {"admin", "viewer"}]
           /\ hashes' \in 0..MaxHash
BY BoundsAssumption DEF AccountsTypeOK, Insert, NewHash, PutRow

(* Types and limits are kept by every step.                                *)
LEMMA StepKeepsTypes == AccountsTypeOK /\ [AccountsNext]_accountVars => AccountsTypeOK'
<1> SUFFICES ASSUME AccountsTypeOK, [AccountsNext]_accountVars PROVE AccountsTypeOK'
  OBVIOUS
<1>1. CASE Tick
  BY <1>1, BoundsAssumption DEF Tick, AccountsTypeOK, users, Limit
<1>2. CASE Bootstrap
  <2>1. PICK i \in Ids, n \in Names : Insert(i, n, "admin")
    BY <1>2 DEF Bootstrap
  <2>2. QED
    BY <1>2, <2>1, InsertTypes DEF Bootstrap, AccountsTypeOK, Limit
<1>3. ASSUME NEW c \in Clients, NEW n \in Names, LoginWrong(c, n) PROVE AccountsTypeOK'
  BY <1>3, CountAttemptTypes DEF LoginWrong, CountAttempt, AccountsTypeOK, users, Limit
<1>4. ASSUME NEW c \in Clients, NEW n \in Names, LoginVerified(c, n) PROVE AccountsTypeOK'
  <2>1. PICK i \in Live :
          Request(c, Ask("login", i, hash[i], clock, 0))
    BY <1>4 DEF LoginVerified
  <2>2. Ask("login", i, hash[i], clock, 0) \in Requests
    BY BoundsAssumption DEF Ask, Requests, AccountsTypeOK, Live, Ids
  <2>3. QED
    BY <1>4, <2>1, <2>2, RequestTypes, CountAttemptTypes
       DEF LoginVerified, CountAttempt, AccountsTypeOK, users, Limit
<1>5. ASSUME NEW c \in Clients, LoginCommit(c) PROVE AccountsTypeOK'
  <2> DEFINE i == req[c].id
             new == [token |-> tokens + 1, user |-> i, hash |-> req[c].hash,
                     expires |-> req[c].time + SessionSeconds]
  <2>1. Unchanged(c) /\ tokens < MaxToken /\ tokens' = tokens + 1
    BY <1>5 DEF LoginCommit
  <2>2. i \in Ids /\ name[i] \in Names
    BY <2>1 DEF Unchanged, Live, AccountsTypeOK
  <2>3. new \in Session
    BY <2>1, <2>2, BoundsAssumption, SecondsAssumption DEF Session, Requests, AccountsTypeOK
  <2>4. PICK old \in SUBSET sessions : sessions' = Newest((sessions \ old) \cup {new}, i)
    BY <1>5 DEF LoginCommit
  <2>5. sessions' \subseteq Session
    BY <2>3, <2>4, NewestIsSubset DEF AccountsTypeOK
  <2>6. attempts' = [attempts EXCEPT ![name[i]] = 0] /\ started' = [started EXCEPT ![name[i]] = 0]
    BY <1>5 DEF LoginCommit, PutRow
  <2>7. attempts' \in [Keys -> Nat] /\ started' \in [Keys -> 0..MaxTime]
    <3>1. 0 \in Nat /\ 0 \in 0..MaxTime
      BY BoundsAssumption
    <3>2. attempts \in [Keys -> Nat] /\ started \in [Keys -> 0..MaxTime]
      BY DEF AccountsTypeOK
    <3>3. QED
      BY <2>6, <3>1, <3>2
  <2>8. \A k \in Keys : attempts'[k] <= Limit(k)
    BY <2>6, LimitsAssumption DEF AccountsTypeOK, Limit
  <2>9. Done(c) /\ UNCHANGED <<users, hashes, clock>>
    BY <1>5 DEF LoginCommit
  <2>10. req' \in [Clients -> Requests]
    BY <2>9, IdleType, RequestTypes DEF Done
  <2>11. tokens' \in 0..MaxToken
    BY <2>1, BoundsAssumption DEF AccountsTypeOK
  <2>12. QED
    BY <2>5, <2>7, <2>8, <2>9, <2>10, <2>11 DEF AccountsTypeOK, users, Limit
<1>6. ASSUME NEW c \in Clients, LoginRefused(c) PROVE AccountsTypeOK'
  BY <1>6, IdleType, RequestTypes DEF LoginRefused, Done, AccountsTypeOK, users, Limit
<1>7. ASSUME NEW c \in Clients, Authenticate(c) PROVE AccountsTypeOK'
  <2>1. PICK s \in sessions :
          Request(c, Ask("auth", s.user, 0, 0, s.token))
    BY <1>7 DEF Authenticate
  <2>2. Ask("auth", s.user, 0, 0, s.token) \in Requests
    BY BoundsAssumption DEF Ask, Requests, AccountsTypeOK, Session, Ids
  <2>3. QED
    BY <1>7, <2>1, <2>2, RequestTypes DEF Authenticate, AccountsTypeOK, users, Limit
<1>8. ASSUME NEW c \in Clients, Logout(c) PROVE AccountsTypeOK'
  BY <1>8, IdleType, RequestTypes DEF Logout, Done, AccountsTypeOK, users, Limit
<1>9. ASSUME NEW c \in Clients, AdminCheck(c) PROVE AccountsTypeOK'
  <2>1. PICK op \in {"create", "update"} : Request(c, Ask(op, req[c].id, 0, 0, 0))
    BY <1>9 DEF AdminCheck
  <2>2. Ask(op, req[c].id, 0, 0, 0) \in Requests
    BY BoundsAssumption DEF Ask, Requests, AccountsTypeOK
  <2>3. QED
    BY <1>9, <2>1, <2>2, RequestTypes DEF AdminCheck, AccountsTypeOK, users, Limit
<1>10. ASSUME NEW c \in Clients, PasswordRead(c) PROVE AccountsTypeOK'
  <2>1. Ask("password", req[c].id, hash[req[c].id], 0, 0) \in Requests
    BY <1>10, BoundsAssumption DEF PasswordRead, Live, Ask, Requests, AccountsTypeOK
  <2>2. QED
    BY <1>10, <2>1, RequestTypes DEF PasswordRead, AccountsTypeOK, users, Limit
<1>11. ASSUME NEW c \in Clients, RequestEnds(c) PROVE AccountsTypeOK'
  BY <1>11, IdleType, RequestTypes DEF RequestEnds, Done, AccountsTypeOK, users, Limit
<1>12. ASSUME NEW c \in Clients, CreateUser(c) PROVE AccountsTypeOK'
  <2>1. PICK i \in Ids, n \in Names, r \in {"admin", "viewer"} : Insert(i, n, r)
    BY <1>12 DEF CreateUser
  <2>2. QED
    BY <1>12, <2>1, InsertTypes, IdleType, RequestTypes DEF CreateUser, Done, AccountsTypeOK, Limit
<1>13. ASSUME NEW c \in Clients, UpdateUser(c) PROVE AccountsTypeOK'
  <2>1. PICK i \in Live : hash' = PutRow(hash, i, hashes') /\ CloseSessions(i)
    BY <1>13 DEF UpdateUser
  <2>2. hashes' \in 0..MaxHash
    BY <1>13, BoundsAssumption DEF UpdateUser, NewHash, AccountsTypeOK
  <2>3. hash' \in [Ids -> 0..MaxHash] /\ sessions' \subseteq Session
    BY <2>1, <2>2 DEF PutRow, CloseSessions, AccountsTypeOK
  <2>4. req' \in [Clients -> Requests]
    BY <1>13, IdleType, RequestTypes DEF UpdateUser, Done
  <2>5. QED
    BY <1>13, <2>2, <2>3, <2>4 DEF UpdateUser, AccountsTypeOK, Limit
<1>14. ASSUME NEW c \in Clients, ChangePassword(c) PROVE AccountsTypeOK'
  <2>1. hashes' \in 0..MaxHash
    BY <1>14, BoundsAssumption DEF ChangePassword, NewHash, AccountsTypeOK
  <2>2. hash' \in [Ids -> 0..MaxHash] /\ sessions' \subseteq Session
    BY <1>14, <2>1 DEF ChangePassword, PutRow, CloseSessions, AccountsTypeOK
  <2>3. req' \in [Clients -> Requests]
    BY <1>14, IdleType, RequestTypes DEF ChangePassword, Done
  <2>4. QED
    BY <1>14, <2>1, <2>2, <2>3 DEF ChangePassword, AccountsTypeOK, Limit
<1>15. ASSUME NEW c \in Clients, DeleteUser(c) PROVE AccountsTypeOK'
  BY <1>15, IdleType, RequestTypes, BoundsAssumption
     DEF DeleteUser, CloseSessions, Done, PutRow, AccountsTypeOK, Limit
<1>16. CASE UNCHANGED accountVars
  BY <1>16 DEF accountVars, users, AccountsTypeOK, Limit
<1> QED
  BY <1>1, <1>2, <1>3, <1>4, <1>5, <1>6, <1>7, <1>8, <1>9, <1>10, <1>11, <1>12, <1>13,
     <1>14, <1>15, <1>16 DEF AccountsNext

(* The part of the state SessionsCurrent and AdminRemains speak of.        *)
Kept == UNCHANGED <<name, hash, role>> /\ sessions' \subseteq sessions

(* Steps that leave the accounts alone and open no session.                *)
LEMMA KeptSuffices ==
    ASSUME SessionsCurrent, AdminRemains, Kept PROVE SessionsCurrent' /\ AdminRemains'
BY DEF SessionsCurrent, AdminRemains, Kept, Live

(* A new password closes the sessions of its account.                      *)
LEMMA NewPassword ==
    ASSUME AccountsTypeOK, SessionsCurrent, AdminRemains, NEW i \in Ids,
           hash' = PutRow(hash, i, hashes'), CloseSessions(i), UNCHANGED <<name, role>>
    PROVE  SessionsCurrent' /\ AdminRemains'
BY DEF AccountsTypeOK, SessionsCurrent, AdminRemains, CloseSessions, PutRow, Live

(* A new account has an id no session belongs to.                          *)
LEMMA NewAccount ==
    ASSUME AccountsTypeOK, SessionsCurrent, NEW i \in Ids, i \notin Live,
           NEW n \in Names, NEW r, Insert(i, n, r), sessions' = sessions,
           r = "admin" \/ \E j \in Live : role[j] = "admin"
    PROVE  SessionsCurrent' /\ AdminRemains'
<1>1. Live' = Live \cup {i}
  BY NamesAssumption DEF AccountsTypeOK, Insert, PutRow, Live
<1>2. \A j \in Live : hash'[j] = hash[j] /\ role'[j] = role[j]
  BY DEF AccountsTypeOK, Insert, PutRow, Live
<1>3. SessionsCurrent'
  BY <1>1, <1>2 DEF SessionsCurrent
<1>4. role'[i] = r
  BY DEF AccountsTypeOK, Insert, PutRow
<1>5. QED
  BY <1>1, <1>2, <1>3, <1>4 DEF AdminRemains

(* The induction step for the two invariants.                              *)
LEMMA StepKeepsAccounts ==
    AccountsTypeOK /\ SessionsCurrent /\ AdminRemains /\ [AccountsNext]_accountVars
        => SessionsCurrent' /\ AdminRemains'
<1> SUFFICES ASSUME AccountsTypeOK, SessionsCurrent, AdminRemains, [AccountsNext]_accountVars
             PROVE  SessionsCurrent' /\ AdminRemains'
  OBVIOUS
<1>1. CASE Tick \/ UNCHANGED accountVars
  BY <1>1, KeptSuffices DEF Tick, accountVars, users, Kept
<1>2. CASE Bootstrap
  <2>1. PICK i \in Ids, n \in Names : Insert(i, n, "admin")
    BY <1>2 DEF Bootstrap
  <2>2. Live = {} /\ sessions' = sessions
    BY <1>2 DEF Bootstrap
  <2>3. QED
    BY <2>1, <2>2, NewAccount
<1>3. ASSUME NEW c \in Clients, NEW n \in Names, LoginWrong(c, n) \/ LoginVerified(c, n)
      PROVE  SessionsCurrent' /\ AdminRemains'
  BY <1>3, KeptSuffices DEF LoginWrong, LoginVerified, CountAttempt, users, Kept
<1>4. ASSUME NEW c \in Clients, LoginCommit(c) PROVE SessionsCurrent' /\ AdminRemains'
  <2> DEFINE new == [token |-> tokens + 1, user |-> req[c].id, hash |-> req[c].hash,
                     expires |-> req[c].time + SessionSeconds]
  <2>1. PICK old \in SUBSET sessions : sessions' = Newest((sessions \ old) \cup {new}, req[c].id)
    BY <1>4 DEF LoginCommit
  <2>2. sessions' \subseteq sessions \cup {new}
    BY <2>1, NewestIsSubset
  <2>3. new.user \in Live /\ new.hash = hash[new.user]
    BY <1>4 DEF LoginCommit, Unchanged
  <2>4. UNCHANGED <<name, hash, role>>
    BY <1>4 DEF LoginCommit, users
  <2>5. QED
    BY <2>2, <2>3, <2>4 DEF SessionsCurrent, AdminRemains, Live
<1>5. ASSUME NEW c \in Clients,
             \/ LoginRefused(c) \/ Authenticate(c) \/ Logout(c)
             \/ AdminCheck(c) \/ PasswordRead(c) \/ RequestEnds(c)
      PROVE  SessionsCurrent' /\ AdminRemains'
  BY <1>5, KeptSuffices
     DEF LoginRefused, Authenticate, Logout, AdminCheck, PasswordRead, RequestEnds, users, Kept
<1>6. ASSUME NEW c \in Clients, CreateUser(c) PROVE SessionsCurrent' /\ AdminRemains'
  <2>1. PICK i \in Ids, n \in Names, r \in {"admin", "viewer"} : IsNewId(i) /\ Insert(i, n, r)
    BY <1>6 DEF CreateUser
  <2>2. i \notin Live
    BY <2>1, BoundsAssumption DEF IsNewId, Live, Ids
  <2>3. sessions' = sessions /\ \E j \in Live : role[j] = "admin"
    BY <1>6 DEF CreateUser, Admin
  <2>4. QED
    BY <2>1, <2>2, <2>3, NewAccount
<1>7. ASSUME NEW c \in Clients, UpdateUser(c) PROVE SessionsCurrent' /\ AdminRemains'
  <2>1. PICK i \in Live : hash' = PutRow(hash, i, hashes') /\ CloseSessions(i)
    BY <1>7 DEF UpdateUser
  <2>2. i \in Ids /\ UNCHANGED <<name, role>>
    BY <1>7 DEF UpdateUser, Live
  <2>3. QED
    BY <2>1, <2>2, NewPassword
<1>8. ASSUME NEW c \in Clients, ChangePassword(c) PROVE SessionsCurrent' /\ AdminRemains'
  <2>1. req[c].id \in Ids
    BY <1>8 DEF ChangePassword, Unchanged, Live
  <2>2. QED
    BY <1>8, <2>1, NewPassword DEF ChangePassword
<1>9. ASSUME NEW c \in Clients, DeleteUser(c) PROVE SessionsCurrent' /\ AdminRemains'
  <2> DEFINE actor == req[c].id
  <2>1. PICK i \in Ids :
          /\ MayDelete(actor, i)
          /\ name' = [name EXCEPT ![i] = NoName]
          /\ hash' = [hash EXCEPT ![i] = 0]
          /\ role' = [role EXCEPT ![i] = "viewer"]
          /\ sessions' = {s \in sessions : s.user # i}
    BY <1>9 DEF DeleteUser, CloseSessions, PutRow
  <2>2. actor \in Live /\ role[actor] = "admin" /\ actor # i
    BY <2>1 DEF MayDelete, Admin
  <2>3. Live' = Live \ {i}
    BY <2>1 DEF AccountsTypeOK, Live
  <2>4. \A j \in Live \ {i} : hash'[j] = hash[j] /\ role'[j] = role[j]
    BY <2>1 DEF AccountsTypeOK, Live
  <2>5. SessionsCurrent'
    BY <2>1, <2>3, <2>4 DEF SessionsCurrent
  <2>6. QED
    BY <2>2, <2>3, <2>4, <2>5 DEF AdminRemains
<1> QED
  BY <1>1, <1>2, <1>3, <1>4, <1>5, <1>6, <1>7, <1>8, <1>9 DEF AccountsNext

(* The first state has no account and no session.                          *)
LEMMA InitAccounts == AccountsInit => AccountsTypeOK /\ SessionsCurrent /\ AdminRemains
<1>1. AccountsInit => AccountsTypeOK
  BY BoundsAssumption, LimitsAssumption, IdleType DEF AccountsInit, AccountsTypeOK, Limit
<1>2. AccountsInit => SessionsCurrent /\ AdminRemains
  BY DEF AccountsInit, SessionsCurrent, AdminRemains, Live
<1>3. QED
  BY <1>1, <1>2

(* The three invariants together.                                          *)
LEMMA AccountsInvariant == AccountsSpec => [](AccountsTypeOK /\ SessionsCurrent /\ AdminRemains)
<1>1. AccountsTypeOK /\ SessionsCurrent /\ AdminRemains /\ [AccountsNext]_accountVars
        => (AccountsTypeOK /\ SessionsCurrent /\ AdminRemains)'
  BY StepKeepsTypes, StepKeepsAccounts
<1>2. QED
  BY InitAccounts, <1>1, PTL DEF AccountsSpec

(* Every variable keeps its type and no counter of login_attempts passes   *)
(* its limit (login).                                                      *)
THEOREM AccountTypesHold == AccountsSpec => []AccountsTypeOK
BY AccountsInvariant, PTL

(* No session outlives its account or the password it was opened with.     *)
THEOREM SessionsCurrentHolds == AccountsSpec => []SessionsCurrent
BY AccountsInvariant, PTL

(* Once there is an account there is an administrator (delete_user).       *)
THEOREM AdminRemainsHolds == AccountsSpec => []AdminRemains
BY AccountsInvariant, PTL

-------------------------------------------------------------------------------
(***************************************************************************)
(* Proofs about TaskLifecycle, for every set of tasks, instances and       *)
(* servers and every order of requests, edits, worker steps, failed writes *)
(* and restarts.                                                           *)
(*                                                                         *)
(* None of the four properties is inductive.  The registry, the state in   *)
(* SQLite and the thread of a task are written at different moments; what  *)
(* holds between these moments is TaskOK.                                  *)
(***************************************************************************)

(* A process that is down has no threads and no requests, and one that has *)
(* not yet served a request has stopped none.                              *)
FreshOK(t) ==
    /\ process = "down" => thread[t] = "none" /\ startReq[t] = 0
    /\ process \in {"down", "boot"} => ~cancel[t]

(* From its activation to the write of its final state a task is active;   *)
(* after that write it is not.                                             *)
StateOK(t) ==
    /\ thread[t] \in Busy \cup {"finishing"} => state[t] \in Active
    /\ thread[t] = "exiting" => state[t] \notin Active
    /\ process # "down" /\ state[t] \in Active => thread[t] \in Alive \cup {"lost", "unborn"}
    /\ process = "up" /\ thread[t] \in Busy /\ cancel[t] => state[t] = "stopping"

(* A deleted task is quiet; one that writes has told SQLite where.         *)
ExistsOK(t) ==
    /\ ~exists[t] => thread[t] = "none" /\ state[t] = "none"
    /\ thread[t] = "writing" => mirror[t] = ServerOf[SinkOf[t]]

(* A requalification in progress has read a configuration that may change. *)
RequestOK(t) == reqRev[t] # 0 => reqRev[t] < MaxRevision /\ reqInst[t] # 0

TaskOK(t) == FreshOK(t) /\ StateOK(t) /\ ExistsOK(t) /\ RequestOK(t)

IInv == TypeOK /\ (\A t \in Tasks : TaskOK(t)) /\ SingleWriter

-------------------------------------------------------------------------------
(* Every step keeps the types.                                             *)
LEMMA LifecycleTypeStep == IInv /\ [Next]_vars => TypeOK'
<1> SUFFICES ASSUME IInv, [Next]_vars PROVE TypeOK'
  OBVIOUS
<1> USE MaxRevisionAssumption, LifecycleFaultsAssumption, AutoStartAssumption
    DEF rows, requests, threads, progress, Put, Active, Outcomes, Busy, Alive
<1>0. TypeOK /\ \A t \in Tasks : SinkOf[t] \in Instances /\ RequestOK(t)
  BY DEF IInv, TaskOK, Instances
<1>f. Fault => faults' \in 0..MaxFaults
  BY <1>0 DEF Fault, TypeOK
<1>1. CASE Boot
  BY <1>0, <1>1 DEF Boot, TypeOK
<1>2. CASE Serve
  BY <1>0, <1>2 DEF Serve, TypeOK
<1>3. CASE Shutdown
  BY <1>0, <1>f, <1>3 DEF Shutdown, TypeOK
<1>4. ASSUME Gone, state' \in [Tasks -> {"none"} \cup Active \cup Outcomes], faults' \in 0..MaxFaults
      PROVE TypeOK'
  BY <1>0, <1>4 DEF Gone, TypeOK
<1>5. CASE Exit
  BY <1>0, <1>4, <1>5 DEF Exit, TypeOK
<1>6. CASE Crash
  BY <1>0, <1>f, <1>4, <1>6 DEF Crash, TypeOK
<1>7. ASSUME NEW i \in Instances, EditInstance(i) PROVE TypeOK'
  BY <1>0, <1>7 DEF EditInstance, TypeOK
<1>8. ASSUME NEW t \in Tasks, RequalifyRead(t) PROVE TypeOK'
  BY <1>0, <1>8 DEF RequalifyRead, TypeOK
<1>9. ASSUME NEW t \in Tasks, RequalifyWrite(t) PROVE TypeOK'
  BY <1>0, <1>9 DEF RequalifyWrite, RequalifyCurrent, EndRequalify, RequestOK, TypeOK
<1>10. ASSUME NEW t \in Tasks, RequalifyRefused(t) PROVE TypeOK'
  BY <1>0, <1>10 DEF RequalifyRefused, EndRequalify, TypeOK
<1>11. ASSUME NEW t \in Tasks, RequalifyFails(t) PROVE TypeOK'
  BY <1>0, <1>f, <1>11 DEF RequalifyFails, EndRequalify, TypeOK
<1>12. ASSUME NEW t \in Tasks, StartRead(t) PROVE TypeOK'
  BY <1>0, <1>12 DEF StartRead, TypeOK
<1>13. ASSUME NEW t \in Tasks, StartStale(t) PROVE TypeOK'
  BY <1>0, <1>13 DEF StartStale, StartError, AfterStart, TypeOK
<1>28. ASSUME NEW t \in Tasks, StartOutdated(t) PROVE TypeOK'
  BY <1>0, <1>f, <1>28 DEF StartOutdated, StartError, AfterStart, TypeOK
<1>14. ASSUME NEW t \in Tasks, StartActivate(t) PROVE TypeOK'
  BY <1>0, <1>14 DEF StartActivate, AfterStart, TypeOK
<1>15. ASSUME NEW t \in Tasks, SpawnFails(t) PROVE TypeOK'
  BY <1>0, <1>f, <1>15 DEF SpawnFails, AfterStart, TypeOK
<1>16. ASSUME NEW t \in Tasks, StartRefused(t) PROVE TypeOK'
  BY <1>0, <1>16 DEF StartRefused, StartError, AfterStart, TypeOK
<1>17. ASSUME NEW t \in Tasks, StopTask(t) PROVE TypeOK'
  BY <1>0, <1>17 DEF StopTask, TypeOK
<1>18. ASSUME NEW t \in Tasks, DeleteTask(t) PROVE TypeOK'
  BY <1>0, <1>18 DEF DeleteTask, TypeOK
<1>19. ASSUME NEW t \in Tasks, WorkerRead(t) PROVE TypeOK'
  BY <1>0, <1>19 DEF WorkerRead, Move, TypeOK
<1>20. ASSUME NEW t \in Tasks, OpenSink(t) \/ SaveCheckpoint(t) PROVE TypeOK'
  BY <1>0, <1>20 DEF OpenSink, SaveCheckpoint, Move, TypeOK
<1>21. ASSUME NEW t \in Tasks, MarkRunning(t) PROVE TypeOK'
  BY <1>0, <1>21 DEF MarkRunning, MarkedState, Move, TypeOK
<1>22. ASSUME NEW t \in Tasks, NEW o \in Outcomes, Returns(t, o), faults' \in 0..MaxFaults PROVE TypeOK'
  BY <1>0, <1>22 DEF Returns, Move, TypeOK
<1>23. ASSUME NEW t \in Tasks, WorkerRefused(t) \/ WorkerStops(t) \/ WorkerErrors(t) PROVE TypeOK'
  BY <1>0, <1>f, <1>22, <1>23 DEF WorkerRefused, WorkerStops, WorkerErrors, TypeOK
<1>24. ASSUME NEW t \in Tasks, Finish(t) PROVE TypeOK'
  BY <1>0, <1>24 DEF Finish, Move, TypeOK
<1>25. ASSUME NEW t \in Tasks, FinishFails(t) PROVE TypeOK'
  BY <1>0, <1>f, <1>25 DEF FinishFails, Move, TypeOK
<1>26. ASSUME NEW t \in Tasks, ThreadEnds(t) PROVE TypeOK'
  BY <1>0, <1>26 DEF ThreadEnds, Move, TypeOK
<1>27. CASE UNCHANGED vars
  BY <1>0, <1>27 DEF vars, TypeOK
<1> QED
  BY <1>1, <1>2, <1>3, <1>5, <1>6, <1>7, <1>8, <1>9, <1>10, <1>11, <1>12, <1>13, <1>14, <1>15,
     <1>16, <1>17, <1>18, <1>19, <1>20, <1>21, <1>23, <1>24, <1>25, <1>26, <1>27, <1>28 DEF Next, Worker

-------------------------------------------------------------------------------
(* Every step keeps what is said of each task.                             *)
LEMMA TaskStep == IInv /\ [Next]_vars => \A u \in Tasks : TaskOK(u)'
<1> SUFFICES ASSUME IInv, [Next]_vars, NEW u \in Tasks PROVE TaskOK(u)'
  OBVIOUS
<1> USE DEF rows, requests, threads, progress, Put, Active, Outcomes, Busy, Alive,
        TaskOK, FreshOK, StateOK, ExistsOK, RequestOK
<1>0. TypeOK /\ TaskOK(u) /\ SinkOf[u] \in Instances
  BY DEF IInv, Instances
<1>1. CASE Boot
  BY <1>0, <1>1 DEF Boot, TypeOK
<1>2. CASE Serve
  BY <1>0, <1>2 DEF Serve, TypeOK
<1>3. CASE Shutdown
  BY <1>0, <1>3 DEF Shutdown, TypeOK
<1>4. CASE Exit
  BY <1>0, <1>4 DEF Exit, Gone, TypeOK
<1>5. CASE Crash
  BY <1>0, <1>5 DEF Crash, Gone, TypeOK
<1>6. ASSUME NEW i \in Instances, EditInstance(i) PROVE TaskOK(u)'
  BY <1>0, <1>6 DEF EditInstance
<1>7. ASSUME NEW t \in Tasks,
             \/ RequalifyRead(t) \/ RequalifyWrite(t) \/ RequalifyRefused(t) \/ RequalifyFails(t)
      PROVE TaskOK(u)'
  BY <1>0, <1>7, MaxRevisionAssumption
     DEF RequalifyRead, RequalifyWrite, RequalifyRefused, RequalifyFails, EndRequalify, TypeOK
<1>8. ASSUME NEW t \in Tasks, StartRead(t) PROVE TaskOK(u)'
  BY <1>0, <1>8 DEF StartRead, MayStart
<1>9. ASSUME NEW t \in Tasks, StartStale(t) \/ StartOutdated(t) PROVE TaskOK(u)'
  BY <1>0, <1>9 DEF StartStale, StartOutdated, StartError, TypeOK
<1>10. ASSUME NEW t \in Tasks, StartActivate(t) PROVE TaskOK(u)'
  BY <1>0, <1>10 DEF StartActivate, CanActivate, TypeOK
<1>11. ASSUME NEW t \in Tasks, SpawnFails(t) PROVE TaskOK(u)'
  BY <1>0, <1>11 DEF SpawnFails, CanActivate, TypeOK
<1>12. ASSUME NEW t \in Tasks, StartRefused(t) PROVE TaskOK(u)'
  BY <1>0, <1>12 DEF StartRefused, StartError, TypeOK
<1>13. ASSUME NEW t \in Tasks, StopTask(t) PROVE TaskOK(u)'
  BY <1>0, <1>13 DEF StopTask, TypeOK
<1>14. ASSUME NEW t \in Tasks, DeleteTask(t) PROVE TaskOK(u)'
  BY <1>0, <1>14 DEF DeleteTask, TypeOK
<1>15. ASSUME NEW t \in Tasks, WorkerRead(t) PROVE TaskOK(u)'
  BY <1>0, <1>15 DEF WorkerRead, Move, TypeOK
<1>16. ASSUME NEW t \in Tasks, OpenSink(t) \/ SaveCheckpoint(t) PROVE TaskOK(u)'
  BY <1>0, <1>16 DEF OpenSink, SaveCheckpoint, Move, TypeOK
<1>17. ASSUME NEW t \in Tasks, MarkRunning(t) PROVE TaskOK(u)'
  BY <1>0, <1>17 DEF MarkRunning, MarkedState, Move, TypeOK
<1>18. ASSUME NEW t \in Tasks, WorkerRefused(t) \/ WorkerStops(t) \/ WorkerErrors(t) PROVE TaskOK(u)'
  <2>1. thread[t] \in Busy /\ (\E o \in Outcomes : Returns(t, o))
    BY <1>18 DEF WorkerRefused, WorkerStops, WorkerErrors
  <2> QED
    BY <1>0, <2>1 DEF Returns, Move, TypeOK
<1>19. ASSUME NEW t \in Tasks, Finish(t) PROVE TaskOK(u)'
  BY <1>0, <1>19 DEF Finish, Move, TypeOK
<1>20. ASSUME NEW t \in Tasks, FinishFails(t) \/ ThreadEnds(t) PROVE TaskOK(u)'
  BY <1>0, <1>20 DEF FinishFails, ThreadEnds, Move, TypeOK
<1>21. CASE UNCHANGED vars
  BY <1>0, <1>21 DEF vars
<1> QED
  BY <1>1, <1>2, <1>3, <1>4, <1>5, <1>6, <1>7, <1>8, <1>9, <1>10, <1>11, <1>12, <1>13, <1>14,
     <1>15, <1>16, <1>17, <1>18, <1>19, <1>20, <1>21 DEF Next, Worker

(* Only MarkRunning lets a task write, and it looks at every other writer: *)
(* a writer exists, is active and has its server in SQLite.                *)
LEMMA SingleWriterStep == IInv /\ [Next]_vars => SingleWriter'
<1> SUFFICES ASSUME IInv, [Next]_vars PROVE SingleWriter'
  OBVIOUS
<1>0. TypeOK /\ SingleWriter /\ \A t \in Tasks : TaskOK(t) /\ SinkOf[t] \in Instances
  BY DEF IInv, Instances
<1>1. ASSUME NEW t \in Tasks, MarkRunning(t) PROVE SingleWriter'
  <2>1. ASSUME NEW u \in Tasks, u # t, thread[u] = "writing"
        PROVE ServerOf[SinkOf[t]] # ServerOf[SinkOf[u]] \/ TableOf[t] # TableOf[u]
    <3>1. exists[u] /\ state[u] \in Active /\ mirror[u] = ServerOf[SinkOf[u]] /\ mirror[u] # NoServer
      BY <1>0, <2>1, NoServerAssumption DEF TaskOK, StateOK, ExistsOK, Busy
    <3> QED
      BY <1>1, <2>1, <3>1 DEF MarkRunning, ServerBusy
  <2>2. \A u \in Tasks : u # t => thread'[u] = thread[u]
    BY <1>0, <1>1 DEF MarkRunning, Move, Put, TypeOK
  <2> QED
    BY <1>0, <2>1, <2>2 DEF SingleWriter
<1>2. ASSUME \A t \in Tasks : ~MarkRunning(t)
      PROVE  \A t \in Tasks : thread'[t] = "writing" => thread[t] = "writing"
  <2> USE <1>0, <1>2 DEF rows, requests, threads, Put, Move, TypeOK
  <2>1. CASE Boot \/ Serve \/ Shutdown \/ Exit \/ Crash \/ \E i \in Instances : EditInstance(i)
    BY <2>1 DEF Boot, Serve, Shutdown, Exit, Crash, Gone, EditInstance
  <2>2. ASSUME NEW t \in Tasks,
               \/ RequalifyRead(t) \/ RequalifyWrite(t) \/ RequalifyRefused(t) \/ RequalifyFails(t)
               \/ StartRead(t) \/ StartStale(t) \/ StartOutdated(t) \/ StartRefused(t) \/ StopTask(t)
        PROVE thread' = thread
    BY <2>2 DEF RequalifyRead, RequalifyWrite, RequalifyRefused, RequalifyFails, EndRequalify,
       StartRead, StartStale, StartOutdated, StartRefused, StopTask
  <2>3. ASSUME NEW t \in Tasks,
               \/ StartActivate(t) \/ SpawnFails(t) \/ DeleteTask(t) \/ Worker(t)
               \/ WorkerErrors(t) \/ FinishFails(t)
        PROVE \E l \in {"none", "unborn", "done", "lost", "spawned", "read", "stored", "saved",
                   "finishing", "exiting"} :
                 thread' = [thread EXCEPT ![t] = l]
    BY <2>3 DEF StartActivate, SpawnFails, DeleteTask, Worker, WorkerRead, OpenSink, SaveCheckpoint,
       WorkerRefused, WorkerStops, WorkerErrors, Returns, Finish, FinishFails, ThreadEnds
  <2>4. CASE UNCHANGED vars
    BY <2>4 DEF vars
  <2> QED
    BY <2>1, <2>2, <2>3, <2>4 DEF Next
<1> QED
  BY <1>0, <1>1, <1>2 DEF SingleWriter

LEMMA LifecycleInvariant == Spec => []IInv
<1>1. Init => IInv
  BY MaxRevisionAssumption, LifecycleFaultsAssumption
     DEF Init, IInv, TypeOK, Active, Outcomes, Busy, Alive, TaskOK, FreshOK, StateOK, ExistsOK,
         RequestOK, SingleWriter
<1>2. IInv /\ [Next]_vars => IInv'
  BY LifecycleTypeStep, TaskStep, SingleWriterStep DEF IInv
<1>3. QED
  BY <1>1, <1>2, PTL DEF Spec

-------------------------------------------------------------------------------
(* Two tasks never write one table of one server at a time, however many   *)
(* instances the server is registered as (begin_task_at_revision,          *)
(* mark_running).                                                          *)
THEOREM SingleWriterHolds == Spec => []SingleWriter
<1>1. IInv => SingleWriter
  BY DEF IInv
<1>2. QED
  BY <1>1, LifecycleInvariant, PTL

(* No step of the worker takes a stop request back (stop_task,             *)
(* mark_running).                                                          *)
THEOREM StopIsKeptHolds == Spec => []StopIsKept
<1>1. IInv => StopIsKept
  BY DEF IInv, TaskOK, StateOK, StopIsKept
<1>2. QED
  BY <1>1, LifecycleInvariant, PTL

(* No task is shown as active for ever without a thread, but for a failed  *)
(* write of its final state (finish_task, open).                           *)
THEOREM ActiveHasThreadHolds == Spec => []ActiveHasThread
<1>1. IInv => ActiveHasThread
  BY DEF IInv, TaskOK, StateOK, ActiveHasThread
<1>2. QED
  BY <1>1, LifecycleInvariant, PTL

(* A deleted task has no thread and no runtime row, also when a start      *)
(* request that had read it comes late (delete_task, start_task).          *)
THEOREM DeletedIsQuietHolds == Spec => []DeletedIsQuiet
<1>1. IInv => DeletedIsQuiet
  BY DEF IInv, TaskOK, ExistsOK, DeletedIsQuiet
<1>2. QED
  BY <1>1, LifecycleInvariant, PTL

===============================================================================
