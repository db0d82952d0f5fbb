--------------------------- MODULE SessionRenewal ---------------------------
(***************************************************************************)
(* Unattended sign-in with the stored authenticator: the sign-in lock, the *)
(* circuit breaker, the reservation of one-time-code steps and the cookie  *)
(* file, shared by the threads of several lighthouse processes             *)
(* (lighthouse_cli/session_renewal.py and its callers in api.py, auth.py). *)
(*                                                                         *)
(* One step of a thread is one access to a shared file or to a server.     *)
(* Data is abstracted to what decides control: a D2L session is a number   *)
(* (0: cookies missing), the six BLOCKING_CATEGORIES are one cause "auth", *)
(* busy/store/pending are "store" (never recorded), and whether the saved  *)
(* username matches the authenticator's is a free choice.                  *)
(***************************************************************************)
EXTENDS Integers, FiniteSets

CONSTANTS
    Threads,      \* threads that may sign in
    Processes,    \* lighthouse processes
    ProcessOf,    \* the process of each thread
    Keys,         \* authenticator secrets a person may register
    NoKey,        \* no authenticator stored
    NoThread,     \* nobody holds a lock
    Period,       \* clock ticks per one-time-code step (30 s)
    Slack,        \* ticks by which a wait may exceed one period (1 s)
    Cooldown,     \* ticks between automatic attempts after a network failure
    MaxClock,     \* bound: largest clock value
    MaxSessions,  \* bound: D2L sessions ever issued
    MaxCalls,     \* bound: calls ever started
    MaxCrashes    \* bound: processes ever killed

ASSUME ThreadAssumption == /\ ProcessOf \in [Threads -> Processes]
                           /\ NoThread \notin Threads
ASSUME KeyAssumption == NoKey \notin Keys
ASSUME ClockAssumption == /\ Period \in Nat \ {0}
                          /\ Slack \in Nat
                          /\ Cooldown \in Nat
                          /\ MaxClock \in Nat
ASSUME BoundAssumption == /\ MaxSessions \in Nat
                          /\ MaxCalls \in Nat
                          /\ MaxCrashes \in Nat

VARIABLES
    threadLock,   \* _THREAD_LOCK of each process
    fileLock,     \* flock on relogin.lock: the thread whose descriptor holds it
    pc,           \* where each thread is
    kind,         \* the call each thread is making
    seen,         \* the session the caller found expired (observed_cookies)
    base,         \* the breaker as loaded at the start of the call
    auth,         \* the authenticator as loaded by the call
    step,         \* the code step taken for this sign-in
    sess,         \* the session the call obtained
    cause,        \* why the call is failing
    breaker,      \* relogin_state.json
    totp,         \* authenticator.json: key and last step used
    cookies,      \* cookies.json
    pending,      \* whether mfa_pending.json exists
    live,         \* sessions D2L accepts
    issued,       \* sessions issued so far
    clock,        \* the system clock
    calls,        \* calls started so far
    crashes,      \* processes killed so far
    codes,        \* history: <<key, step>> typed by the person or sent by the CLI
    removed,      \* history: keys deleted with totp-remove
    replaced,     \* history: keys another totp-setup replaced
    strikes       \* history: automatic sign-ins refused or left without a known
                  \* outcome since the breaker was last cleared

local  == <<pc, kind, seen, base, auth, step, sess, cause>>
locks  == <<threadLock, fileLock>>
disk   == <<breaker, totp, cookies>>
server == <<live, issued>>
bounds == <<calls, crashes>>
hist   == <<codes, removed, replaced, strikes>>
vars   == <<locks, local, disk, pending, server, clock, bounds, hist>>

Sessions == 1 .. MaxSessions
StepAt(time) == time \div Period
Clear    == [mode |-> "clear", at |-> 0]
Blocked  == [mode |-> "blocked", at |-> 0]
CoolFrom(time) == [mode |-> "cooldown", at |-> time]
NoTotp   == [key |-> NoKey, last |-> -1]

Breakers == [mode : {"clear", "blocked", "cooldown"}, at : Nat]
Totps    == [key : Keys \union {NoKey}, last : Int]
Kinds    == {"none", "auto", "login", "setup", "remove", "publish"}
Causes   == {"none", "auth", "network", "store", "ok"}
\* Places outside the sign-in lock, and places under it.
Outside  == {"idle", "thread", "file", "tidy"}
Inside   == {"load", "reuse", "gates", "arm", "password", "provide", "sleep",
             "reserve", "submit", "save", "probe", "bind", "unbind", "clear",
             "settle", "leave"}

TypeOK ==
    /\ threadLock \in [Processes -> Threads \union {NoThread}]
    /\ fileLock \in Threads \union {NoThread}
    /\ pc \in [Threads -> Outside \union Inside]
    /\ kind \in [Threads -> Kinds]
    /\ seen \in [Threads -> Nat]
    /\ base \in [Threads -> Breakers]
    /\ auth \in [Threads -> Totps]
    /\ step \in [Threads -> Nat]
    /\ sess \in [Threads -> Nat]
    /\ cause \in [Threads -> Causes]
    /\ breaker \in Breakers
    /\ totp \in Totps
    /\ cookies \in Nat
    /\ pending \in BOOLEAN
    /\ live \in SUBSET Nat
    /\ issued \in Nat
    /\ clock \in Nat
    /\ calls \in Nat
    /\ crashes \in Nat
    /\ codes \in SUBSET (Keys \X Nat)
    /\ removed \in SUBSET Keys
    /\ replaced \in SUBSET Keys
    /\ strikes \in Nat

Init ==
    /\ threadLock = [p \in Processes |-> NoThread]
    /\ fileLock = NoThread
    /\ pc = [t \in Threads |-> "idle"]
    /\ kind = [t \in Threads |-> "none"]
    /\ seen = [t \in Threads |-> 0]
    /\ base = [t \in Threads |-> Clear]
    /\ auth = [t \in Threads |-> NoTotp]
    /\ step = [t \in Threads |-> 0]
    /\ sess = [t \in Threads |-> 0]
    /\ cause = [t \in Threads |-> "none"]
    /\ breaker = Clear
    /\ totp \in {NoTotp} \union [key : Keys, last : {0}]
    /\ cookies = 0
    /\ pending = FALSE
    /\ live = {}
    /\ issued = 0
    /\ clock = 0
    /\ calls = 0
    /\ crashes = 0
    /\ codes = {}
    /\ removed = {}
    /\ replaced = {}
    /\ strikes = 0

Goto(t, place) == pc' = [pc EXCEPT ![t] = place]
Fail(t, why) == /\ cause' = [cause EXCEPT ![t] = why]
                /\ Goto(t, "settle")

\* A call ends; its local state is gone.
Finish(ts, place) ==
    /\ pc' = [t \in Threads |-> IF t \in ts THEN place ELSE pc[t]]
    /\ kind' = [t \in Threads |-> IF t \in ts THEN "none" ELSE kind[t]]
    /\ seen' = [t \in Threads |-> IF t \in ts THEN 0 ELSE seen[t]]
    /\ base' = [t \in Threads |-> IF t \in ts THEN Clear ELSE base[t]]
    /\ auth' = [t \in Threads |-> IF t \in ts THEN NoTotp ELSE auth[t]]
    /\ step' = [t \in Threads |-> IF t \in ts THEN 0 ELSE step[t]]
    /\ sess' = [t \in Threads |-> IF t \in ts THEN 0 ELSE sess[t]]
    /\ cause' = [t \in Threads |-> IF t \in ts THEN "none" ELSE cause[t]]

-----------------------------------------------------------------------------
(* Callers.                                                                *)

Start(t, k) ==
    /\ pc[t] = "idle"
    /\ calls < MaxCalls
    /\ calls' = calls + 1
    /\ kind' = [kind EXCEPT ![t] = k]
    /\ Goto(t, "thread")
    /\ UNCHANGED <<locks, base, auth, step, cause, disk, pending, clock,
                   crashes, hist>>

\* A GET or HEAD found the session it loaded earlier signed out, or found no
\* cookies at all (0), and unattended sign-in is configured.
ReadFindsExpired(t) ==
    /\ totp.key # NoKey
    /\ \E s \in 0 .. issued :
          /\ s \notin live
          /\ seen' = [seen EXCEPT ![t] = s]
    /\ Start(t, "auto")
    /\ UNCHANGED <<sess, server>>

\* "auth login" with the stored authenticator.
PersonLogsIn(t) ==
    /\ totp.key # NoKey
    /\ Start(t, "login")
    /\ UNCHANGED <<seen, sess, server>>

PersonSetsUp(t) == Start(t, "setup") /\ UNCHANGED <<seen, sess, server>>

PersonRemoves(t) == Start(t, "remove") /\ UNCHANGED <<seen, sess, server>>

\* A login by SMS, call or push, "auth refresh" or the browser fallback has a
\* session from elsewhere and saves it under the sign-in lock.
HaveOtherSession(t) ==
    /\ issued < MaxSessions
    /\ issued' = issued + 1
    /\ live' = live \union {issued + 1}
    /\ sess' = [sess EXCEPT ![t] = issued + 1]
    /\ Start(t, "publish")
    /\ UNCHANGED seen

-----------------------------------------------------------------------------
(* renewal_lock: the thread lock, then the file lock, under one deadline.  *)

AcquireThreadLock(t) ==
    /\ pc[t] = "thread"
    /\ threadLock[ProcessOf[t]] = NoThread
    /\ threadLock' = [threadLock EXCEPT ![ProcessOf[t]] = t]
    /\ Goto(t, "file")
    /\ UNCHANGED <<fileLock, kind, seen, base, auth, step, sess, cause, disk,
                   pending, server, clock, bounds, hist>>

\* Faulty variant: only the threads of one process are kept apart.
AcquireThreadLockOnly(t) ==
    /\ pc[t] = "file"
    /\ fileLock' = t
    /\ Goto(t, "load")
    /\ UNCHANGED <<threadLock, kind, seen, base, auth, step, sess, cause, disk,
                   pending, server, clock, bounds, hist>>

AcquireFileLock(t) ==
    /\ pc[t] = "file"
    /\ fileLock = NoThread
    /\ fileLock' = t
    /\ Goto(t, "load")
    /\ UNCHANGED <<threadLock, kind, seen, base, auth, step, sess, cause, disk,
                   pending, server, clock, bounds, hist>>

\* The deadline passes while somebody else holds the lock.
ThreadLockBusy(t) ==
    /\ pc[t] = "thread"
    /\ threadLock[ProcessOf[t]] # NoThread
    /\ Finish({t}, "idle")
    /\ UNCHANGED <<locks, disk, pending, server, clock, bounds, hist>>

\* The deadline passes while polling, or the lock file is unusable.
FileLockBusy(t) ==
    /\ pc[t] = "file"
    /\ threadLock' = [threadLock EXCEPT ![ProcessOf[t]] = NoThread]
    /\ Finish({t}, "idle")
    /\ UNCHANGED <<fileLock, disk, pending, server, clock, bounds, hist>>

\* Faulty variant: the thread lock is not released.
LeaveHoldingThreadLock(t) ==
    /\ pc[t] = "leave"
    /\ fileLock' = NoThread
    /\ Finish({t}, "idle")
    /\ UNCHANGED <<threadLock, disk, pending, server, clock, bounds, hist>>

\* Closing the descriptor drops the file lock; a successful stored-authenticator
\* login still has the pending two-step login to clear, outside the lock.
Leave(t) ==
    /\ pc[t] = "leave"
    /\ fileLock' = NoThread
    /\ threadLock' = [threadLock EXCEPT ![ProcessOf[t]] = NoThread]
    /\ Finish({t}, IF kind[t] = "login" /\ cause[t] = "ok" THEN "tidy" ELSE "idle")
    /\ UNCHANGED <<disk, pending, server, clock, bounds, hist>>

ClearPendingAfterLogin(t) ==
    /\ pc[t] = "tidy"
    /\ pending' = FALSE
    /\ Goto(t, "idle")
    /\ UNCHANGED <<locks, kind, seen, base, auth, step, sess, cause, disk,
                   server, clock, bounds, hist>>

-----------------------------------------------------------------------------
(* renew_session, with the lock held.                                      *)

\* Entering the lock decides what the call does first; a renewal or a login
\* loads the breaker.
LoadState(t) ==
    /\ pc[t] = "load"
    /\ base' = [base EXCEPT ![t] = IF kind[t] \in {"auto", "login"}
                                   THEN breaker ELSE @]
    /\ \/ kind[t] = "auto" /\ Goto(t, "reuse")
       \/ kind[t] = "login" /\ Goto(t, "gates")
       \/ kind[t] = "setup" /\ Goto(t, "bind")
       \/ kind[t] = "remove" /\ Goto(t, "unbind")
       \/ kind[t] = "publish" /\ Goto(t, "save")
    /\ UNCHANGED <<locks, kind, seen, auth, step, sess, cause, disk, pending,
                   server, clock, bounds, hist>>

\* Faulty variant: cookies saved by another caller are not looked at.
IgnoreSavedCookies(t) ==
    /\ pc[t] = "reuse"
    /\ Goto(t, "gates")
    /\ UNCHANGED <<locks, kind, seen, base, auth, step, sess, cause, disk,
                   pending, server, clock, bounds, hist>>

\* _reuse_existing: cookies somebody saved since the caller read its own are
\* probed and, when D2L accepts them, used instead of signing in.
NothingToReuse(t) ==
    /\ pc[t] = "reuse"
    /\ cookies = 0 \/ cookies = seen[t] \/ cookies \notin live
    /\ Goto(t, "gates")
    /\ UNCHANGED <<locks, kind, seen, base, auth, step, sess, cause, disk,
                   pending, server, clock, bounds, hist>>

ReuseSession(t) ==
    /\ pc[t] = "reuse"
    /\ cookies \notin {0, seen[t]}
    /\ cookies \in live
    /\ cause' = [cause EXCEPT ![t] = "ok"]
    /\ Goto(t, "leave")
    /\ UNCHANGED <<locks, kind, seen, base, auth, step, sess, disk, pending,
                   server, clock, bounds, hist>>

ReuseProbeUnavailable(t) ==
    /\ pc[t] = "reuse"
    /\ cookies \notin {0, seen[t]}
    /\ Fail(t, "network")
    /\ UNCHANGED <<locks, kind, seen, base, auth, step, sess, disk, pending,
                   server, clock, bounds, hist>>

\* Faulty variant: only the cooldown and the pending login are looked at.
GateIgnoresBlock(t) ==
    \/ base[t].mode = "cooldown" /\ clock - base[t].at < Cooldown
    \/ pending

\* _check_gates: an automatic attempt is refused while blocked, during the
\* cooldown (a clock that went back keeps it) and while a two-step login waits.
GateClosed(t) ==
    \/ base[t].mode = "blocked"
    \/ base[t].mode = "cooldown" /\ clock - base[t].at < Cooldown
    \/ pending

RefuseAtGate(t) ==
    /\ pc[t] = "gates"
    /\ kind[t] = "auto"
    /\ GateClosed(t)
    /\ Goto(t, "leave")
    /\ UNCHANGED <<locks, kind, seen, base, auth, step, sess, cause, disk,
                   pending, server, clock, bounds, hist>>

\* The stored authenticator and the credentials are loaded; a renewal arms the
\* in-flight block first, an explicit login signs in at once.
PassGate(t) ==
    /\ pc[t] = "gates"
    /\ kind[t] = "auto" => ~GateClosed(t)
    /\ totp.key # NoKey
    /\ auth' = [auth EXCEPT ![t] = totp]
    /\ Goto(t, IF kind[t] = "auto" THEN "arm" ELSE "password")
    /\ UNCHANGED <<locks, kind, seen, base, step, sess, cause, disk, pending,
                   server, clock, bounds, hist>>

\* No authenticator, no saved credentials, or they name different users.
NoUsablePair(t) ==
    /\ pc[t] = "gates"
    /\ kind[t] = "auto" => ~GateClosed(t)
    /\ Goto(t, "leave")
    /\ UNCHANGED <<locks, kind, seen, base, auth, step, sess, cause, disk,
                   pending, server, clock, bounds, hist>>

\* Faulty variant: the block is left to the failure handler.
SignInUnarmed(t) ==
    /\ pc[t] = "arm"
    /\ Goto(t, "password")
    /\ UNCHANGED <<locks, kind, seen, base, auth, step, sess, cause, disk,
                   pending, server, clock, bounds, hist>>

\* Blocked until the outcome is known.
ArmBreaker(t) ==
    /\ pc[t] = "arm"
    /\ breaker' = Blocked
    /\ Goto(t, "password")
    /\ UNCHANGED <<locks, kind, seen, base, auth, step, sess, cause, totp,
                   cookies, pending, server, clock, bounds, hist>>

-----------------------------------------------------------------------------
(* MicrosoftSSOClient.login with the code provider.                        *)

Strike(t) == strikes' = IF kind[t] = "auto" THEN strikes + 1 ELSE strikes
\* The outcome is known and is no refusal.
Excuse(t) == strikes' = IF kind[t] = "auto" THEN strikes - 1 ELSE strikes

PasswordUnreachable(t) ==
    /\ pc[t] = "password"
    /\ Fail(t, "network")
    /\ UNCHANGED <<locks, kind, seen, base, auth, step, sess, disk, pending,
                   server, clock, bounds, hist>>

\* Wrong password, a page that needs a person, no authenticator-app method.
PasswordRefused(t) ==
    /\ pc[t] = "password"
    /\ Strike(t)
    /\ Fail(t, "auth")
    /\ UNCHANGED <<locks, kind, seen, base, auth, step, sess, disk, pending,
                   server, clock, bounds, codes, removed, replaced>>

PasswordAccepted(t) ==
    /\ pc[t] = "password"
    /\ Strike(t)
    /\ Goto(t, "provide")
    /\ UNCHANGED <<locks, kind, seen, base, auth, step, sess, cause, disk,
                   pending, server, clock, bounds, codes, removed, replaced>>

\* Microsoft asks for no second factor.
SignedInWithoutCode(t) ==
    /\ pc[t] = "password"
    /\ issued < MaxSessions
    /\ Strike(t)
    /\ issued' = issued + 1
    /\ live' = live \union {issued + 1}
    /\ sess' = [sess EXCEPT ![t] = issued + 1]
    /\ Goto(t, "save")
    /\ UNCHANGED <<locks, kind, seen, base, auth, step, cause, disk, pending,
                   clock, bounds, codes, removed, replaced>>

\* Ticks until the step after the last one used begins.
WaitTicks(t) == (auth[t].last + 1) * Period - clock
FreshStep(t) == StepAt(clock) > auth[t].last

TakeStep(t) ==
    /\ FreshStep(t)
    /\ step' = [step EXCEPT ![t] = StepAt(clock)]
    /\ Goto(t, "reserve")
    /\ UNCHANGED <<cause>>

\* _code_provider: a step newer than the last one used, waiting at most about
\* one period for it.
ProvideCode(t) ==
    /\ pc[t] = "provide"
    /\ \/ TakeStep(t)
       \/ /\ ~FreshStep(t)
          /\ WaitTicks(t) <= Period + Slack
          /\ Goto(t, "sleep")
          /\ UNCHANGED <<cause, step>>
       \/ /\ ~FreshStep(t)
          /\ WaitTicks(t) > Period + Slack
          /\ Fail(t, "auth")
          /\ UNCHANGED step
    /\ UNCHANGED <<locks, kind, seen, base, auth, sess, disk, pending, server,
                   clock, bounds, hist>>

\* The sleep is over; the clock may meanwhile have gone anywhere.
WakeUp(t) ==
    /\ pc[t] = "sleep"
    /\ \/ TakeStep(t)
       \/ ~FreshStep(t) /\ Fail(t, "auth") /\ UNCHANGED step
    /\ UNCHANGED <<locks, kind, seen, base, auth, sess, disk, pending, server,
                   clock, bounds, hist>>

\* Faulty variant: the step is not recorded.
ReserveNothing(t) ==
    /\ pc[t] = "reserve"
    /\ Goto(t, "submit")
    /\ UNCHANGED <<locks, kind, seen, base, auth, step, sess, cause, disk, pending,
                   server, clock, bounds, hist>>

\* reserve_totp_step: steps on disk strictly advance, before a code exists.
ReserveStep(t) ==
    /\ pc[t] = "reserve"
    /\ IF totp.key # NoKey /\ step[t] > totp.last
       THEN /\ totp' = [totp EXCEPT !.last = step[t]]
            /\ Goto(t, "submit")
            /\ UNCHANGED <<cause, strikes>>
       ELSE /\ Fail(t, "store")
            /\ Excuse(t)
            /\ UNCHANGED totp
    /\ UNCHANGED <<locks, kind, seen, base, auth, step, sess, breaker, cookies,
                   pending, server, clock, bounds, codes, removed, replaced>>

SendCode(t) == codes' = codes \union {<<auth[t].key, step[t]>>}

CodeAccepted(t) ==
    /\ pc[t] = "submit"
    /\ issued < MaxSessions
    /\ SendCode(t)
    /\ issued' = issued + 1
    /\ live' = live \union {issued + 1}
    /\ sess' = [sess EXCEPT ![t] = issued + 1]
    /\ Goto(t, "save")
    /\ UNCHANGED <<locks, kind, seen, base, auth, step, cause, disk, pending,
                   clock, bounds, removed, replaced, strikes>>

\* The code is refused, or a later page needs a person; on an expired-password
\* page the walk to the SAML response drops the two-step checkpoint.
CodeRefused(t) ==
    /\ pc[t] = "submit"
    /\ SendCode(t)
    /\ Fail(t, "auth")
    /\ pending' \in {pending, FALSE}
    /\ UNCHANGED <<locks, kind, seen, base, auth, step, sess, disk, server,
                   clock, bounds, removed, replaced, strikes>>

CodeUnanswered(t) ==
    /\ pc[t] = "submit"
    /\ SendCode(t)
    /\ Fail(t, "network")
    /\ Excuse(t)
    /\ UNCHANGED <<locks, kind, seen, base, auth, step, sess, disk, pending,
                   server, clock, bounds, removed, replaced>>

-----------------------------------------------------------------------------
(* After Microsoft answered.                                               *)

SaveCookies(t) ==
    /\ pc[t] = "save"
    /\ cookies' = sess[t]
    /\ Goto(t, IF kind[t] = "publish" THEN "leave" ELSE "probe")
    /\ UNCHANGED <<locks, kind, seen, base, auth, step, sess, cause, breaker,
                   totp, pending, server, clock, bounds, hist>>

ProbeValid(t) ==
    /\ pc[t] = "probe"
    /\ sess[t] \in live
    /\ cause' = [cause EXCEPT ![t] = "ok"]
    /\ Goto(t, "clear")
    /\ UNCHANGED <<locks, kind, seen, base, auth, step, sess, disk, pending,
                   server, clock, bounds, hist>>

ProbeInvalid(t) ==
    /\ pc[t] = "probe"
    /\ sess[t] \notin live
    /\ Fail(t, "auth")
    /\ UNCHANGED <<locks, kind, seen, base, auth, step, sess, disk, pending,
                   server, clock, bounds, hist>>

ProbeUnavailable(t) ==
    /\ pc[t] = "probe"
    /\ Fail(t, "network")
    /\ Excuse(t)
    /\ UNCHANGED <<locks, kind, seen, base, auth, step, sess, disk, pending,
                   server, clock, bounds, codes, removed, replaced>>

\* clear_breaker, after a sign-in, totp-setup or totp-remove.
ClearBreaker(t) ==
    /\ pc[t] = "clear"
    /\ breaker' = Clear
    /\ strikes' = 0
    /\ Goto(t, "leave")
    /\ UNCHANGED <<locks, kind, seen, base, auth, step, sess, cause, totp,
                   cookies, pending, server, clock, bounds, codes, removed,
                   replaced>>

\* _record_failure, or for an unrecorded failure the in-flight block undone.
AfterFailure(t) ==
    CASE cause[t] = "auth" -> Blocked
      [] cause[t] = "network" /\ base[t].mode # "blocked" -> CoolFrom(clock)
      [] cause[t] = "store" /\ kind[t] = "auto" -> base[t]
      [] OTHER -> breaker

SettleFailure(t) ==
    /\ pc[t] = "settle"
    /\ breaker' = AfterFailure(t)
    /\ Goto(t, "leave")
    /\ UNCHANGED <<locks, kind, seen, base, auth, step, sess, cause, totp,
                   cookies, pending, server, clock, bounds, hist>>

-----------------------------------------------------------------------------
(* totp-setup and totp-remove, with the lock held.                         *)

\* store_authenticator: the current step counts as used, and the same key
\* keeps a newer recorded step.
BindAuthenticator(t) ==
    /\ pc[t] = "bind"
    /\ \E k \in Keys :
          LET now  == StepAt(clock)
              last == IF totp.key = k /\ totp.last > now THEN totp.last ELSE now
          IN  /\ totp' = [key |-> k, last |-> last]
              /\ codes' = codes \union {<<k, now>>}
              /\ replaced' = replaced \union ({totp.key} \ {NoKey, k})
    /\ Goto(t, "clear")
    /\ UNCHANGED <<locks, kind, seen, base, auth, step, sess, cause, breaker,
                   cookies, pending, server, clock, bounds, removed, strikes>>

RemoveAuthenticator(t) ==
    /\ pc[t] = "unbind"
    /\ totp' = NoTotp
    /\ removed' = removed \union ({totp.key} \ {NoKey})
    /\ Goto(t, "clear")
    /\ UNCHANGED <<locks, kind, seen, base, auth, step, sess, cause, breaker,
                   cookies, pending, server, clock, bounds, codes, replaced,
                   strikes>>

-----------------------------------------------------------------------------
(* What may fail or change around the calls.                               *)

\* A file under the lock cannot be read or written.  Inside the guarded part
\* of renew_session this is a "store" failure to settle; elsewhere it is
\* raised at once.  A password already accepted is no refusal.
StoreFault(t) ==
    /\ \/ /\ pc[t] \in {"reuse", "gates", "arm"}
          /\ Fail(t, "store")
          /\ UNCHANGED strikes
       \/ /\ pc[t] = "reserve" \/ (pc[t] = "save" /\ kind[t] # "publish")
          /\ Fail(t, "store")
          /\ Excuse(t)
       \/ /\ pc[t] = "probe" /\ kind[t] = "login" /\ sess[t] \in live
          /\ Fail(t, "store")
          /\ UNCHANGED strikes
       \/ /\ \/ pc[t] \in {"load", "bind", "unbind", "clear", "settle"}
             \/ pc[t] = "save" /\ kind[t] = "publish"
          /\ cause' = [cause EXCEPT ![t] = "store"]
          /\ Goto(t, "leave")
          /\ UNCHANGED strikes
    /\ UNCHANGED <<locks, kind, seen, base, auth, step, sess, disk, pending,
                   server, clock, bounds, codes, removed, replaced>>

\* A process is killed; the kernel drops its file lock, the files stay as they are.
Crash(p) ==
    LET dead == {t \in Threads : ProcessOf[t] = p}
    IN  /\ crashes < MaxCrashes
        /\ crashes' = crashes + 1
        /\ \E t \in dead : pc[t] # "idle"
        /\ Finish(dead, "idle")
        /\ threadLock' = [threadLock EXCEPT ![p] = NoThread]
        /\ fileLock' = IF fileLock \in dead THEN NoThread ELSE fileLock
        /\ UNCHANGED <<disk, pending, server, clock, calls, hist>>

SessionExpires ==
    /\ \E s \in live : live' = live \ {s}
    /\ UNCHANGED <<locks, local, disk, pending, issued, clock, bounds, hist>>

\* The clock advances, is corrected or goes back.
ClockMoves ==
    /\ \E now \in 0 .. MaxClock : clock' = now
    /\ clock' # clock
    /\ UNCHANGED <<locks, local, disk, pending, server, bounds, hist>>

\* A two-step login by SMS, call or push begins, or ends; neither takes the lock.
TwoStepLogin ==
    /\ pending' = ~pending
    /\ UNCHANGED <<locks, local, disk, server, clock, bounds, hist>>

-----------------------------------------------------------------------------
\* A thread goes on with the call it is making.
Advance(t) ==
    \/ AcquireThreadLock(t) \/ AcquireFileLock(t)
    \/ ThreadLockBusy(t) \/ FileLockBusy(t)
    \/ LoadState(t)
    \/ NothingToReuse(t) \/ ReuseSession(t) \/ ReuseProbeUnavailable(t)
    \/ RefuseAtGate(t) \/ PassGate(t) \/ NoUsablePair(t)
    \/ ArmBreaker(t)
    \/ PasswordUnreachable(t) \/ PasswordRefused(t) \/ PasswordAccepted(t)
    \/ SignedInWithoutCode(t)
    \/ ProvideCode(t) \/ WakeUp(t) \/ ReserveStep(t)
    \/ CodeAccepted(t) \/ CodeRefused(t) \/ CodeUnanswered(t)
    \/ SaveCookies(t)
    \/ ProbeValid(t) \/ ProbeInvalid(t) \/ ProbeUnavailable(t)
    \/ ClearBreaker(t) \/ SettleFailure(t)
    \/ BindAuthenticator(t) \/ RemoveAuthenticator(t)
    \/ StoreFault(t)
    \/ Leave(t) \/ ClearPendingAfterLogin(t)

Call(t) ==
    \/ ReadFindsExpired(t) \/ PersonLogsIn(t) \/ PersonSetsUp(t)
    \/ PersonRemoves(t) \/ HaveOtherSession(t)

Environment ==
    \/ \E p \in Processes : Crash(p)
    \/ SessionExpires \/ ClockMoves \/ TwoStepLogin

Next ==
    \/ \E t \in Threads : Advance(t) \/ Call(t)
    \/ Environment

Spec == Init /\ [][Next]_vars

\* Every thread that made a call is scheduled again, and every wait it does is
\* bounded: the lock by its deadline, a request by its timeout, the sleep by
\* one period.  People, the clock, D2L and crashes owe nothing.
FairSpec == Spec /\ \A t \in Threads : WF_vars(Advance(t))

-----------------------------------------------------------------------------
(* Properties.                                                             *)

\* Only one thread of one process is past renewal_lock, whatever is killed.
OneSignInAtATime ==
    \A t, u \in Threads : pc[t] \in Inside /\ pc[u] \in Inside => t = u

\* "A wrong password or secret cannot cause repeated failed sign-ins": since the
\* breaker was last cleared, at most one automatic sign-in was refused by
\* Microsoft or died without a known outcome, over all processes.
AtMostOneStrike == strikes <= 1

\* A step of a key is submitted at most once while the store remembers that
\* key, through concurrent renewals, crashes and a clock that goes back
\* (_code_provider, reserve_totp_step, store_authenticator).
CodeNeverReplayed ==
    \A t \in Threads : pc[t] = "submit" =>
        \/ auth[t].key \in removed \union replaced
        \/ <<auth[t].key, step[t]>> \notin codes

\* A caller that waited for another sign-in uses its session: an automatic
\* sign-in never starts while cookies.json holds a session D2L accepts.
NoSignInOverLiveSession ==
    \A t \in Threads : pc[t] \in {"arm", "password"} /\ kind[t] = "auto" =>
        cookies \notin live

\* The breaker file, the lock and the local state of its holder implement the
\* gate of SignInGate: a block ends only through a person or through the
\* automatic attempt that armed it, and a killed attempt leaves it shut.
RoleOf == IF fileLock = NoThread THEN "none"
          ELSE IF kind[fileLock] = "auto" THEN "auto" ELSE "person"
AttemptOut == /\ fileLock # NoThread
              /\ kind[fileLock] = "auto"
              /\ base[fileLock].mode # "blocked"
              /\ pc[fileLock] \notin {"load", "leave"}
GateOf == IF breaker.mode # "blocked" THEN "open"
          ELSE IF AttemptOut THEN "trying" ELSE "shut"

Gate == INSTANCE SignInGate WITH holder <- fileLock, role <- RoleOf, gate <- GateOf
ImplementsGate == Gate!GateSpec

\* Every call comes back and leaves neither lock held: no wait, fault or crash wedges
\* a caller, or the sign-ins after it (_file_lock, renewal_lock).
Holds(t) == fileLock = t \/ threadLock[ProcessOf[t]] = t
CallsEnd == \A t \in Threads : []<>(pc[t] = "idle" /\ ~Holds(t))

-----------------------------------------------------------------------------
(* The inductive invariant behind OneSignInAtATime, AtMostOneStrike,       *)
(* CodeNeverReplayed and NoSignInOverLiveSession.                          *)

\* The thread past the lock is the one whose descriptor holds the file lock.
LockInv == \A t \in Threads : pc[t] \in Inside <=> fileLock = t

\* Which calls reach which places.
PlaceInv == \A t \in Threads :
    /\ pc[t] \in {"reuse", "arm"} => kind[t] = "auto"
    /\ pc[t] \in {"gates", "password", "provide", "sleep", "reserve", "submit",
                  "probe", "settle"} => kind[t] \in {"auto", "login"}
    /\ pc[t] = "save" => kind[t] \in {"auto", "login", "publish"}
    /\ pc[t] = "bind" => kind[t] = "setup"
    /\ pc[t] = "unbind" => kind[t] = "remove"
    /\ pc[t] = "clear" => kind[t] \in {"auto", "login", "setup", "remove"}

\* Places between the password of an automatic sign-in and its outcome.
Undecided == {"provide", "sleep", "reserve", "submit", "save", "probe", "clear"}

\* A strike is always covered by a block, and a call that still may restore or
\* replace the breaker knows what it held.
StrikeInv ==
    /\ strikes <= 1
    /\ strikes = 1 => breaker.mode = "blocked"
    /\ \A t \in Threads :
         /\ kind[t] = "auto" /\ pc[t] \in {"reuse", "gates", "arm"} => breaker = base[t]
         /\ pc[t] = "arm" => base[t].mode # "blocked"
         /\ kind[t] = "auto" /\ pc[t] \in {"password"} \union Undecided =>
               breaker.mode = "blocked" /\ base[t].mode # "blocked"
         /\ kind[t] = "auto" /\ pc[t] = "password" => strikes = 0
         /\ kind[t] = "auto" /\ pc[t] \in Undecided => strikes = 1
         /\ kind[t] = "auto" /\ pc[t] = "settle" /\ strikes = 1 =>
               cause[t] = "auth" \/ base[t].mode = "blocked"
         /\ kind[t] = "auto" /\ pc[t] = "settle" =>
               /\ base[t].mode = "blocked" => breaker.mode = "blocked"
               /\ cause[t] = "auth" =>
                     breaker.mode = "blocked" /\ base[t].mode # "blocked"
         /\ kind[t] = "login" /\ pc[t] \in {"gates", "password", "settle"} \union
                                           (Undecided \ {"clear"}) =>
               breaker = base[t]

\* Every code known to Microsoft is at or below the recorded step of its key,
\* or the store has forgotten the key; the reserved step is recorded first.
CodeInv ==
    /\ \A code \in codes :
          \/ code[1] \in removed \union replaced
          \/ totp.key = code[1] /\ code[2] <= totp.last
    /\ \A t \in Threads :
         /\ pc[t] \in {"arm", "password", "provide", "sleep", "reserve", "submit"} =>
               auth[t].key \in Keys /\ auth[t].key = totp.key
         /\ pc[t] = "submit" => totp.last = step[t]
    /\ CodeNeverReplayed

\* Sessions are numbered as D2L issues them; an automatic caller past the reuse
\* check has seen that the saved one is dead.
SessionInv ==
    /\ \A s \in live : s >= 1 /\ s <= issued
    /\ cookies <= issued
    /\ \A t \in Threads :
         /\ sess[t] <= issued /\ seen[t] <= issued
         /\ kind[t] = "auto" => seen[t] \notin live
         /\ kind[t] = "auto" /\ pc[t] \in {"gates", "arm", "password"} =>
               cookies \notin live

IInv == LockInv /\ PlaceInv /\ StrikeInv /\ CodeInv /\ SessionInv
=============================================================================
