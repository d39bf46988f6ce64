------------------------------- MODULE Accounts -------------------------------
(***************************************************************************)
(* Accounts and sessions (web_ui auth.rs, and the handlers of api.rs that  *)
(* call it).  Each operation that hashes or verifies a password leaves the *)
(* database mutex for it, and every request is authenticated in a step of  *)
(* its own, so other requests may change the account in between.           *)
(*                                                                         *)
(* A password hash is a number: each is salted, so no two are equal.       *)
(* A token is a number in the order of the rows of the sessions table.     *)
(***************************************************************************)
EXTENDS Integers, FiniteSets

CONSTANTS
    Names,         \* user names that occur in requests
    NoName,
    Global,        \* the row of login_attempts for all names
    Clients,       \* requests under way at a time
    MaxId,         \* bound: accounts at a time
    MaxHash,       \* bound: password hashes ever made
    MaxToken,      \* bound: sessions ever opened
    MaxTime,       \* bound: the clock
    SessionSeconds,
    Window,        \* 60 seconds
    SessionLimit,  \* 20
    GlobalLimit,   \* 60
    UserLimit      \* 6

Ids == 1..MaxId
Keys == Names \cup {Global}

ASSUME NamesAssumption == NoName \notin Names /\ Global \notin Names
ASSUME BoundsAssumption == MaxId \in Nat /\ MaxHash \in Nat /\ MaxToken \in Nat /\ MaxTime \in Nat
ASSUME SecondsAssumption == SessionSeconds \in Nat \ {0} /\ Window \in Nat
ASSUME LimitsAssumption ==
    SessionLimit \in Nat \ {0} /\ GlobalLimit \in Nat /\ UserLimit \in Nat

VARIABLES
    name,      \* name[i]: username of account i, or NoName
    hash,      \* hash[i]: password_hash
    role,      \* role[i]
    sessions,  \* rows of sessions; hash is the one the login verified
    attempts,  \* attempts[k] and started[k]: login_attempts
    started,
    req,       \* req[c]: the request c, between two of its steps
    hashes,    \* hashes made so far
    tokens,    \* tokens made so far
    clock

users == <<name, hash, role>>
accountVars == <<users, sessions, attempts, started, req, hashes, tokens, clock>>

Live == {i \in Ids : name[i] # NoName}
Ask(op, i, h, t, k) == [op |-> op, id |-> i, hash |-> h, time |-> t, token |-> k]
Idle == Ask("idle", 0, 0, 0, 0)
Requests == [op : {"idle", "login", "auth", "create", "update", "password"},
             id : 0..MaxId, hash : 0..MaxHash, time : 0..MaxTime, token : 0..MaxToken]
Limit(k) == IF k = Global THEN GlobalLimit ELSE UserLimit
Session == [token : 1..MaxToken, user : Ids, hash : 0..MaxHash,
            expires : SessionSeconds..(MaxTime + SessionSeconds)]

AccountsTypeOK ==
    /\ name \in [Ids -> Names \cup {NoName}]
    /\ hash \in [Ids -> 0..MaxHash] /\ role \in [Ids -> {"admin", "viewer"}]
    /\ sessions \subseteq Session
    /\ attempts \in [Keys -> Nat] /\ \A k \in Keys : attempts[k] <= Limit(k)
    /\ started \in [Keys -> 0..MaxTime]
    /\ req \in [Clients -> Requests]
    /\ hashes \in 0..MaxHash /\ tokens \in 0..MaxToken /\ clock \in 0..MaxTime

AccountsInit ==
    /\ name = [i \in Ids |-> NoName]
    /\ hash = [i \in Ids |-> 0] /\ role = [i \in Ids |-> "viewer"]
    /\ sessions = {}
    /\ attempts = [k \in Keys |-> 0] /\ started = [k \in Keys |-> 0]
    /\ req = [c \in Clients |-> Idle]
    /\ hashes = 0 /\ tokens = 0 /\ clock = 0

PutRow(f, x, v) == [f EXCEPT ![x] = v]
Request(c, r) == req' = PutRow(req, c, r)
Done(c) == Request(c, Idle)

(* hash_password: a fresh salt makes a hash that was never there.          *)
NewHash == hashes < MaxHash /\ hashes' = hashes + 1

(* INTEGER PRIMARY KEY: one more than the largest id in use.               *)
IsNewId(i) == (\A j \in Live : j < i) /\ (i = 1 \/ i - 1 \in Live)

Insert(i, n, r) ==
    /\ NewHash
    /\ name' = PutRow(name, i, n)
    /\ hash' = PutRow(hash, i, hashes')
    /\ role' = PutRow(role, i, r)

(* admin(): the account exists and is an administrator.                    *)
Admin(i) == i \in Live /\ role[i] = "admin"

-------------------------------------------------------------------------------
Tick ==
    /\ clock < MaxTime
    /\ clock' = clock + 1
    /\ UNCHANGED <<users, sessions, attempts, started, req, hashes, tokens>>

(* insert_initial_admin: only in an empty table.                           *)
Bootstrap ==
    /\ Live = {}
    /\ \E i \in Ids, n \in Names : IsNewId(i) /\ Insert(i, n, "admin")
    /\ UNCHANGED <<sessions, attempts, started, req, tokens, clock>>

(* The counters after rows of an old window are removed.                   *)
Counted(k) == IF attempts[k] > 0 /\ started[k] < clock - Window THEN 0 ELSE attempts[k]
(* Faulty variant: the limit itself is let through.                        *)
AttemptsLeftAtLimit(n) == \A k \in {Global, n} : Counted(k) <= Limit(k)

AttemptsLeft(n) == \A k \in {Global, n} : Counted(k) < Limit(k)

(* login up to the verification of the password.  A refusal for too many   *)
(* attempts rolls everything back and changes nothing.                     *)
CountAttempt(n) ==
    /\ AttemptsLeft(n)
    /\ attempts' = [k \in Keys |-> IF k \in {Global, n} THEN Counted(k) + 1 ELSE Counted(k)]
    /\ started' = [k \in Keys |->
          IF k \in {Global, n} /\ Counted(k) = 0 THEN clock
          ELSE IF Counted(k) = 0 THEN 0 ELSE started[k]]
    /\ sessions' = {s \in sessions : s.expires > clock}
    /\ UNCHANGED <<users, hashes, tokens, clock>>

LoginWrong(c, n) ==
    /\ req[c].op = "idle"
    /\ CountAttempt(n)
    /\ UNCHANGED req

LoginVerified(c, n) ==
    /\ req[c].op = "idle"
    /\ CountAttempt(n)
    /\ \E i \in Live : name[i] = n /\ Request(c, Ask("login", i, hash[i], clock, 0))
(* Faulty variant: the account is not looked at again.                     *)
StillVerified(c) == req[c].id \in Live

(* The account still has the password that was verified.                   *)
Unchanged(c) == req[c].id \in Live /\ hash[req[c].id] = req[c].hash

Later(s, x) == s.expires > x.expires \/ (s.expires = x.expires /\ s.token > x.token)

(* Only the newest sessions of an account are kept.                        *)
Newest(S, i) ==
    {x \in S : x.user = i => Cardinality({s \in S : s.user = i /\ Later(s, x)}) < SessionLimit}

(* The rest of login; old is the session in the browser's cookie.          *)
LoginCommit(c) ==
    LET i == req[c].id
        new == [token |-> tokens + 1, user |-> i, hash |-> req[c].hash,
                expires |-> req[c].time + SessionSeconds]
    IN /\ req[c].op = "login"
       /\ Unchanged(c)
       /\ tokens < MaxToken
       /\ tokens' = tokens + 1
       /\ \E old \in SUBSET sessions :
             /\ Cardinality(old) <= 1
             /\ sessions' = Newest((sessions \ old) \cup {new}, i)
       /\ attempts' = PutRow(attempts, name[i], 0)
       /\ started' = PutRow(started, name[i], 0)
       /\ Done(c)
       /\ UNCHANGED <<users, hashes, clock>>

LoginRefused(c) ==
    /\ req[c].op = "login"
    /\ ~Unchanged(c)
    /\ Done(c)
    /\ UNCHANGED <<users, sessions, attempts, started, hashes, tokens, clock>>

-------------------------------------------------------------------------------
(* Requests of a session.                                                  *)

(* authenticate: the session is in the table and has not expired.          *)
Authenticate(c) ==
    /\ req[c].op = "idle"
    /\ \E s \in sessions : s.expires > clock /\ Request(c, Ask("auth", s.user, 0, 0, s.token))
    /\ UNCHANGED <<users, sessions, attempts, started, hashes, tokens, clock>>

Logout(c) ==
    /\ req[c].op = "auth"
    /\ sessions' = {s \in sessions : s.token # req[c].token}
    /\ Done(c)
    /\ UNCHANGED <<users, attempts, started, hashes, tokens, clock>>

(* create_user and update_user before the new password is hashed.          *)
AdminCheck(c) ==
    /\ req[c].op = "auth"
    /\ Admin(req[c].id)
    /\ \E op \in {"create", "update"} : Request(c, Ask(op, req[c].id, 0, 0, 0))
    /\ UNCHANGED <<users, sessions, attempts, started, hashes, tokens, clock>>

(* change_password before the new password is hashed.                      *)
PasswordRead(c) ==
    /\ req[c].op = "auth"
    /\ req[c].id \in Live
    /\ Request(c, Ask("password", req[c].id, hash[req[c].id], 0, 0))
    /\ UNCHANGED <<users, sessions, attempts, started, hashes, tokens, clock>>

(* The input is refused, there is nothing of this model to change, or the  *)
(* second look at the account finds it changed.                            *)
RequestEnds(c) ==
    /\ \/ req[c].op \in {"auth", "create", "update"}
       \/ req[c].op = "password" /\ ~Unchanged(c)
    /\ Done(c)
    /\ UNCHANGED <<users, sessions, attempts, started, hashes, tokens, clock>>

CreateUser(c) ==
    /\ req[c].op = "create"
    /\ Admin(req[c].id)
    /\ \E i \in Ids, n \in Names, r \in {"admin", "viewer"} :
          IsNewId(i) /\ (\A j \in Live : name[j] # n) /\ Insert(i, n, r)
    /\ Done(c)
    /\ UNCHANGED <<sessions, attempts, started, tokens, clock>>

CloseSessions(i) == sessions' = {s \in sessions : s.user # i}

(* update_user with a password; without one it changes owner and note.     *)
UpdateUser(c) ==
    /\ req[c].op = "update"
    /\ Admin(req[c].id)
    /\ NewHash
    /\ \E i \in Live : hash' = PutRow(hash, i, hashes') /\ CloseSessions(i)
    /\ Done(c)
    /\ UNCHANGED <<name, role, attempts, started, tokens, clock>>

ChangePassword(c) ==
    /\ req[c].op = "password"
    /\ Unchanged(c)
    /\ NewHash
    /\ hash' = PutRow(hash, req[c].id, hashes')
    /\ CloseSessions(req[c].id)
    /\ Done(c)
    /\ UNCHANGED <<name, role, attempts, started, tokens, clock>>
(* Faulty variant: neither the last administrator nor oneself is spared.   *)
MayDeleteAny(actor, i) == Admin(actor) /\ i \in Live

MayDelete(actor, i) ==
    /\ Admin(actor)
    /\ i \in Live
    /\ role[i] = "admin" => Cardinality({j \in Live : role[j] = "admin"}) > 1
    /\ actor # i

(* delete_user; the sessions go with the account (ON DELETE CASCADE).      *)
DeleteUser(c) ==
    /\ req[c].op = "auth"
    /\ \E i \in Ids :
          /\ MayDelete(req[c].id, i)
          /\ name' = PutRow(name, i, NoName)
          /\ hash' = PutRow(hash, i, 0)
          /\ role' = PutRow(role, i, "viewer")
          /\ CloseSessions(i)
    /\ Done(c)
    /\ UNCHANGED <<attempts, started, hashes, tokens, clock>>

AccountsNext ==
    \/ Tick \/ Bootstrap
    \/ \E c \in Clients :
         \/ \E n \in Names : LoginWrong(c, n) \/ LoginVerified(c, n)
         \/ LoginCommit(c) \/ LoginRefused(c) \/ Authenticate(c) \/ Logout(c)
         \/ AdminCheck(c) \/ PasswordRead(c) \/ RequestEnds(c)
         \/ CreateUser(c) \/ UpdateUser(c) \/ ChangePassword(c) \/ DeleteUser(c)

AccountsSpec == AccountsInit /\ [][AccountsNext]_accountVars

-------------------------------------------------------------------------------
(* Every session belongs to an account that exists and was opened with the *)
(* password the account has now: whatever happens between the              *)
(* verification of a password and the insertion of the session, between    *)
(* two password changes, or when an id is used again (login, update_user,  *)
(* change_password, delete_user).                                          *)
SessionsCurrent == \A s \in sessions : s.user \in Live /\ s.hash = hash[s.user]

(* Once there is an account there is an administrator, though two          *)
(* administrators may delete each other at the same time (delete_user).    *)
AdminRemains == Live # {} => \E i \in Live : role[i] = "admin"

===============================================================================
