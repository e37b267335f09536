------------------------------ MODULE WebAuth ------------------------------
(***************************************************************************)
(* Password login of the operator UI: operator/web_auth.rs, the lockout of  *)
(* operator/throttle.rs, the session checks of operator/auth_layer.rs, over *)
(* the tables of store/operator_store.rs.                                   *)
(*                                                                          *)
(* A password is a number: the version last installed for the user.  Time   *)
(* is a counter in the unit of the timeouts; a login keeps the time at      *)
(* which it arrived and uses it for the lockout, the session and the        *)
(* failure it records, however long the password hash took.                 *)
(***************************************************************************)
EXTENDS Naturals, Sequences

CONSTANTS
    Accounts,       \* users with a password
    Logins,         \* login requests that can be in progress together
    Cookies,        \* session secrets
    LockAfter,      \* LOCK_AFTER_FAILURES
    Window,         \* FAILURE_WINDOW_SECONDS
    Lockout,        \* LOCKOUT_SECONDS
    MaxLockout,     \* MAX_LOCKOUT_SECONDS
    IdleTimeout,    \* sessions::IDLE_TIMEOUT
    AbsoluteTimeout,\* sessions::ABSOLUTE_TIMEOUT
    HashTime,       \* bound on how long a login stays in progress
    MaxHour,        \* bound on the clock
    MaxPassword,    \* bound on password changes
    MaxAttempts,    \* bound on login requests
    NoSession

ASSUME WebAuthAssumption ==
    /\ {LockAfter, Window, Lockout, MaxLockout} \subseteq Nat \ {0}
    /\ {IdleTimeout, AbsoluteTimeout, HashTime, MaxHour, MaxPassword, MaxAttempts} \subseteq Nat
    /\ HashTime < Lockout /\ Lockout <= MaxLockout /\ MaxLockout <= Window

VARIABLES
    hour,        \* the clock
    password,    \* users table: the password and whether it must be changed
    session,     \* web_sessions table
    attempts,    \* login_attempts table
    login,       \* login requests in progress
    arrived,     \* login requests so far
    selfChange,  \* the user of a post_self_password in progress, or NoSession
    evicted      \* (history) the oldest password an open session may rest on

webAuthVars == <<hour, password, session, attempts, login, arrived, selfChange, evicted>>

NoLogin == [at |-> "idle"]
Never == MaxHour + MaxLockout + 1
ThrottleDefault == [failures |-> 0, last |-> Never, until |-> Never]
Lesser(a, b) == IF a <= b THEN a ELSE b

-----------------------------------------------------------------------------
(* ThrottleDecision.  An expired lockout, or a quiet window, starts afresh. *)
IsLocked(d, now) == d.until # Never /\ d.until > now

(* 1 << shift, for the shifts 0 to 10 *)
Shifted == <<1, 2, 4, 8, 16, 32, 64, 128, 256, 512, 1024>>
LockoutFor(failures) ==
    Lesser(Lockout * Shifted[Lesser(failures - LockAfter, 10) + 1], MaxLockout)

Afresh(d, now) == \/ d.until # Never /\ d.until <= now
                  \/ d.last # Never /\ d.last + Window <= now
FailuresAt(d, now) == IF Afresh(d, now) THEN 1 ELSE d.failures + 1

(* Slip: only the failure that reaches the limit sets the lock. *)
RecordFailureOnce(d, now) ==
    [failures |-> FailuresAt(d, now), last |-> now,
     until |-> IF FailuresAt(d, now) # LockAfter THEN Never ELSE now + Lockout]
RecordFailure(d, now) ==
    [failures |-> FailuresAt(d, now), last |-> now,
     until |-> IF FailuresAt(d, now) < LockAfter THEN Never
               ELSE now + LockoutFor(FailuresAt(d, now))]

(* A session is good until it was revoked, idle too long, or too old. *)
Expired(s, now) == now > s.seen + IdleTimeout \/ now > s.created + AbsoluteTimeout
Open(k) == session[k] # NoSession /\ ~session[k].revoked

-----------------------------------------------------------------------------
(* post_auth_login.  The lockout is read first; later the password is       *)
(* compared with the hash read then; then the session is created, in a      *)
(* transaction of its own, and the failures forgotten, or one is recorded.  *)
LoginArrives(l, u) ==
    /\ login[l] = NoLogin /\ arrived < MaxAttempts
    /\ arrived' = arrived + 1
    /\ login' = IF IsLocked(attempts[u], hour) THEN login
                ELSE [login EXCEPT ![l] = [at |-> "verify", user |-> u, now |-> hour]]
    /\ UNCHANGED <<hour, password, session, attempts, selfChange, evicted>>

VerifyRight(l) ==
    /\ login[l].at = "verify"
    /\ login' = [login EXCEPT ![l] = [at |-> "create", user |-> login[l].user,
                    now |-> login[l].now, seen |-> password[login[l].user].version]]
    /\ UNCHANGED <<hour, password, session, attempts, arrived, selfChange, evicted>>

VerifyWrong(l) ==
    /\ login[l].at = "verify"
    /\ login' = [login EXCEPT ![l] =
                    [at |-> "fail", user |-> login[l].user, now |-> login[l].now]]
    /\ UNCHANGED <<hour, password, session, attempts, arrived, selfChange, evicted>>

CreateSession(l, k) ==
    LET q == login[l] IN
    /\ q.at = "create" /\ session[k] = NoSession
    /\ session' = [session EXCEPT ![k] =
            [user |-> q.user, created |-> q.now, seen |-> q.now, revoked |-> FALSE,
             rests |-> q.seen, late |-> q.seen # password[q.user].version]]
    /\ login' = [login EXCEPT ![l] = [at |-> "clear", user |-> q.user, now |-> q.now]]
    /\ UNCHANGED <<hour, password, attempts, arrived, selfChange, evicted>>

ClearAttempts(l) ==
    /\ login[l].at = "clear"
    /\ attempts' = [attempts EXCEPT ![login[l].user] = ThrottleDefault]
    /\ login' = [login EXCEPT ![l] = NoLogin]
    /\ UNCHANGED <<hour, password, session, arrived, selfChange, evicted>>

RecordAttempt(l) ==
    /\ login[l].at = "fail"
    /\ attempts' = [attempts EXCEPT ![login[l].user] =
                        RecordFailure(attempts[login[l].user], login[l].now)]
    /\ login' = [login EXCEPT ![l] = NoLogin]
    /\ UNCHANGED <<hour, password, session, arrived, selfChange, evicted>>

-----------------------------------------------------------------------------
(* verify_web_session, for a request that carries the cookie: refused when  *)
(* revoked or expired, otherwise it moves the idle limit.                   *)
Touched(s, now) == [s EXCEPT !.seen = now]
UseSession(k) ==
    /\ Open(k) /\ ~Expired(session[k], hour)
    /\ session' = [session EXCEPT ![k] = Touched(session[k], hour)]
    /\ UNCHANGED <<hour, password, attempts, login, arrived, selfChange, evicted>>

(* post_auth_logout: a session that verifies is touched, then revoked *)
Logout(k) ==
    /\ Open(k) /\ ~Expired(session[k], hour)
    /\ session' = [session EXCEPT ![k] = [Touched(session[k], hour) EXCEPT !.revoked = TRUE]]
    /\ UNCHANGED <<hour, password, attempts, login, arrived, selfChange, evicted>>

RevokeAll(u) ==
    [k \in Cookies |-> IF session[k] # NoSession /\ session[k].user = u
                       THEN [session[k] EXCEPT !.revoked = TRUE] ELSE session[k]]

(* post_user_password: reset_password_state changes the password and        *)
(* revokes the user's sessions in one transaction.  `must` asks the user to *)
(* change it again.                                                         *)
AdminReset(u, must) ==
    /\ password[u].version < MaxPassword
    /\ password' = [password EXCEPT ![u] =
                        [version |-> password[u].version + 1, change |-> must]]
    /\ session' = RevokeAll(u)
    /\ evicted' = [evicted EXCEPT ![u] = password[u].version + 1]
    /\ UNCHANGED <<hour, attempts, login, arrived, selfChange>>

(* post_self_password: the current password is read and verified, then the  *)
(* new one stored; no session is revoked.                                   *)
SelfVerify(k) ==
    /\ selfChange = NoSession
    /\ Open(k) /\ ~Expired(session[k], hour)
    /\ session' = [session EXCEPT ![k] = Touched(session[k], hour)]
    /\ selfChange' = session[k].user
    /\ UNCHANGED <<hour, password, attempts, login, arrived, evicted>>

SelfStore ==
    /\ selfChange # NoSession
    /\ password[selfChange].version < MaxPassword
    /\ password' = [password EXCEPT ![selfChange] =
                        [version |-> password[selfChange].version + 1, change |-> FALSE]]
    /\ selfChange' = NoSession
    /\ UNCHANGED <<hour, session, attempts, login, arrived, evicted>>

(* hashing a password takes less than the shortest lockout, a minute *)
AnHourPasses ==
    /\ \A l \in Logins : login[l] # NoLogin => hour < login[l].now + HashTime
    /\ hour < MaxHour /\ hour' = hour + 1
    /\ UNCHANGED <<password, session, attempts, login, arrived, selfChange, evicted>>

-----------------------------------------------------------------------------
WebAuthInit ==
    /\ hour = 0
    /\ password = [u \in Accounts |-> [version |-> 0, change |-> FALSE]]
    /\ session = [k \in Cookies |-> NoSession]
    /\ attempts = [u \in Accounts |-> ThrottleDefault]
    /\ login = [l \in Logins |-> NoLogin] /\ arrived = 0
    /\ selfChange = NoSession
    /\ evicted = [u \in Accounts |-> 0]

WebAuthNext ==
    \/ \E l \in Logins :
        \/ \E u \in Accounts : LoginArrives(l, u)
        \/ VerifyRight(l) \/ VerifyWrong(l)
        \/ \E k \in Cookies : CreateSession(l, k)
        \/ ClearAttempts(l) \/ RecordAttempt(l)
    \/ \E k \in Cookies : UseSession(k) \/ Logout(k) \/ SelfVerify(k)
    \/ \E u \in Accounts, must \in BOOLEAN : AdminReset(u, must)
    \/ SelfStore
    \/ AnHourPasses

WebAuthSpec == WebAuthInit /\ [][WebAuthNext]_webAuthVars

-----------------------------------------------------------------------------
(* A session that survives an administrator's reset of its user's password  *)
(* was being created by a login that had already compared the old one       *)
(* (authenticate_login reads the hash, create_web_session runs later).      *)
ResetEvicts ==
    \A k \in Cookies : Open(k) =>
        session[k].late \/ session[k].rests >= evicted[session[k].user]

(* A lock holds until it expires: failures recorded by logins that were    *)
(* let in before it, with the time they arrived, never lift it; only a      *)
(* login that had the right password forgets it.                            *)
LockHolds ==
    [][\A u \in Accounts : IsLocked(attempts[u], hour) /\ hour' = hour =>
            \/ IsLocked(attempts'[u], hour)
            \/ \E l \in Logins : login[l].at = "clear" /\ login[l].user = u]_webAuthVars

(* Passwords decide who is in: a reset throws out who was, and guessing is   *)
(* locked out (ResetEvicts, LockHolds).                                      *)
WebAuthSound == LockHolds /\ []ResetEvicts

=============================================================================
