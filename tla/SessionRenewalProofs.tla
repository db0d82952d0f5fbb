----------------------- MODULE SessionRenewalProofs -----------------------
(***************************************************************************)
(* Proofs about SessionRenewal, for any number of processes, threads, keys,*)
(* sessions, calls and crashes.  IInv is inductive together with TypeOK;   *)
(* each of its five parts has a lemma below with one step per action, and  *)
(* the theorems at the end collect them.                                   *)
(***************************************************************************)
EXTENDS SessionRenewal, TLAPS

\* The time step of a clock reading is a natural number (totp.time_step).
LEMMA StepIsNatural == \A time \in Nat : StepAt(time) \in Nat
  BY ClockAssumption DEF StepAt

\* The initial states satisfy the inductive invariant.
LEMMA InitIsGood == Init => TypeOK /\ IInv
<1> SUFFICES ASSUME Init PROVE TypeOK /\ IInv
  OBVIOUS
<1> USE DEF Init, Clear, NoTotp, Inside, Outside
<1>1. TypeOK
  <2>1. totp \in Totps
    BY DEF Totps
  <2>2. Clear \in Breakers /\ NoTotp \in Totps
    BY DEF Breakers, Totps
  <2> QED BY <2>1, <2>2 DEF TypeOK, Kinds, Causes
<1>2. LockInv
  BY ThreadAssumption DEF LockInv
<1>3. PlaceInv
  BY DEF PlaceInv
<1>4. StrikeInv
  BY DEF StrikeInv, Undecided
<1>5. CodeInv
  BY DEF CodeInv, CodeNeverReplayed
<1>6. SessionInv
  BY DEF SessionInv
<1> QED BY <1>1, <1>2, <1>3, <1>4, <1>5, <1>6 DEF IInv

\* Every variable keeps its type; a strike is only excused when there is one.
LEMMA TypeStep == TypeOK /\ IInv /\ [Next]_vars => TypeOK'
<1> SUFFICES ASSUME TypeOK, IInv, [Next]_vars PROVE TypeOK'
  OBVIOUS
<1> USE ThreadAssumption DEF TypeOK, IInv, vars, locks, local, disk, server,
    bounds, hist, Goto, Fail, Finish, Start, Strike, Excuse, Kinds, Causes,
    Breakers, Totps, Outside, Inside, Clear, Blocked, NoTotp
<1>1. ASSUME NEW t \in Threads, Advance(t) PROVE TypeOK'
  <2>1. CASE AcquireThreadLock(t)
    BY <2>1 DEF AcquireThreadLock
  <2>2. CASE AcquireFileLock(t)
    BY <2>2 DEF AcquireFileLock
  <2>3. CASE ThreadLockBusy(t)
    BY <2>3 DEF ThreadLockBusy
  <2>4. CASE FileLockBusy(t)
    BY <2>4 DEF FileLockBusy
  <2>5. CASE LoadState(t)
    BY <2>5, ZenonT(60) DEF LoadState
  <2>6. CASE NothingToReuse(t)
    BY <2>6 DEF NothingToReuse
  <2>7. CASE ReuseSession(t)
    BY <2>7 DEF ReuseSession
  <2>8. CASE ReuseProbeUnavailable(t)
    BY <2>8 DEF ReuseProbeUnavailable
  <2>9. CASE RefuseAtGate(t)
    BY <2>9 DEF RefuseAtGate
  <2>10. CASE PassGate(t)
    BY <2>10 DEF PassGate
  <2>11. CASE NoUsablePair(t)
    BY <2>11 DEF NoUsablePair
  <2>12. CASE ArmBreaker(t)
    BY <2>12 DEF ArmBreaker
  <2>13. CASE PasswordUnreachable(t)
    BY <2>13 DEF PasswordUnreachable
  <2>14. CASE PasswordRefused(t)
    BY <2>14 DEF PasswordRefused
  <2>15. CASE PasswordAccepted(t)
    BY <2>15 DEF PasswordAccepted
  <2>16. CASE SignedInWithoutCode(t)
    BY <2>16 DEF SignedInWithoutCode
  <2>17. CASE ProvideCode(t)
    <3>1. CASE TakeStep(t)
      <4>1. StepAt(clock) \in Nat
        BY StepIsNatural
      <4> QED BY <2>17, <3>1, <4>1 DEF ProvideCode, TakeStep
    <3>2. CASE ~TakeStep(t)
      BY <2>17, <3>2 DEF ProvideCode
    <3> QED BY <3>1, <3>2
  <2>18. CASE WakeUp(t)
    <3>1. CASE TakeStep(t)
      <4>1. StepAt(clock) \in Nat
        BY StepIsNatural
      <4> QED BY <2>18, <3>1, <4>1 DEF WakeUp, TakeStep
    <3>2. CASE ~TakeStep(t)
      BY <2>18, <3>2 DEF WakeUp
    <3> QED BY <3>1, <3>2
  <2>19. CASE ReserveStep(t)
    <3>1. totp' \in Totps
      BY <2>19, SMTT(40) DEF ReserveStep
    <3>2. strikes' \in Nat
      BY <2>19 DEF ReserveStep, StrikeInv, Undecided
    <3> QED BY <2>19, <3>1, <3>2, ZenonT(60) DEF ReserveStep
  <2>20. CASE CodeAccepted(t)
    <3>1. codes' \in SUBSET (Keys \X Nat)
      BY <2>20 DEF CodeAccepted, SendCode, CodeInv
    <3> QED BY <2>20, <3>1 DEF CodeAccepted, StrikeInv, Undecided
  <2>21. CASE CodeRefused(t)
    <3>1. codes' \in SUBSET (Keys \X Nat)
      BY <2>21 DEF CodeRefused, SendCode, CodeInv
    <3> QED BY <2>21, <3>1 DEF CodeRefused, StrikeInv, Undecided
  <2>22. CASE CodeUnanswered(t)
    <3>1. codes' \in SUBSET (Keys \X Nat)
      BY <2>22 DEF CodeUnanswered, SendCode, CodeInv
    <3> QED BY <2>22, <3>1 DEF CodeUnanswered, StrikeInv, Undecided
  <2>23. CASE SaveCookies(t)
    BY <2>23 DEF SaveCookies
  <2>24. CASE ProbeValid(t)
    BY <2>24 DEF ProbeValid
  <2>25. CASE ProbeInvalid(t)
    BY <2>25 DEF ProbeInvalid
  <2>26. CASE ProbeUnavailable(t)
    BY <2>26 DEF ProbeUnavailable, StrikeInv, Undecided
  <2>27. CASE ClearBreaker(t)
    BY <2>27 DEF ClearBreaker
  <2>28. CASE SettleFailure(t)
    <3>1. AfterFailure(t) \in Breakers
      BY DEF AfterFailure, Blocked, CoolFrom
    <3> QED BY <2>28, <3>1 DEF SettleFailure
  <2>29. CASE BindAuthenticator(t)
    <3>1. StepAt(clock) \in Nat
      BY StepIsNatural
    <3> QED BY <2>29, <3>1 DEF BindAuthenticator
  <2>30. CASE RemoveAuthenticator(t)
    BY <2>30 DEF RemoveAuthenticator
  <2>31. CASE StoreFault(t)
    <3>1. strikes' \in Nat
      BY <2>31 DEF StoreFault, StrikeInv, Undecided
    <3> QED BY <2>31, <3>1 DEF StoreFault
  <2>32. CASE Leave(t)
    BY <2>32 DEF Leave
  <2>33. CASE ClearPendingAfterLogin(t)
    BY <2>33 DEF ClearPendingAfterLogin
  <2> QED BY <1>1, <2>1, <2>2, <2>3, <2>4, <2>5, <2>6, <2>7, <2>8, <2>9,
        <2>10, <2>11, <2>12, <2>13, <2>14, <2>15, <2>16, <2>17, <2>18, <2>19,
        <2>20, <2>21, <2>22, <2>23, <2>24, <2>25, <2>26, <2>27, <2>28, <2>29,
        <2>30, <2>31, <2>32, <2>33 DEF Advance
<1>2. ASSUME NEW t \in Threads, Call(t) PROVE TypeOK'
  <2>1. CASE ReadFindsExpired(t)
    BY <2>1 DEF ReadFindsExpired
  <2>2. CASE PersonLogsIn(t)
    BY <2>2 DEF PersonLogsIn
  <2>3. CASE PersonSetsUp(t)
    BY <2>3 DEF PersonSetsUp
  <2>4. CASE PersonRemoves(t)
    BY <2>4 DEF PersonRemoves
  <2>5. CASE HaveOtherSession(t)
    BY <2>5 DEF HaveOtherSession
  <2> QED BY <1>2, <2>1, <2>2, <2>3, <2>4, <2>5 DEF Call
<1>3. ASSUME NEW p \in Processes, Crash(p) PROVE TypeOK'
  BY <1>3 DEF Crash
<1>4. CASE SessionExpires
  BY <1>4 DEF SessionExpires
<1>5. CASE ClockMoves
  BY <1>5 DEF ClockMoves
<1>6. CASE TwoStepLogin
  BY <1>6 DEF TwoStepLogin
<1>7. CASE UNCHANGED vars
  BY <1>7
<1> QED BY <1>1, <1>2, <1>3, <1>4, <1>5, <1>6, <1>7, SMTT(40) DEF Next, Environment

\* The file lock stays with the one thread past renewal_lock.
LEMMA LockStep == TypeOK /\ IInv /\ [Next]_vars => LockInv'
<1> SUFFICES ASSUME TypeOK, IInv, [Next]_vars PROVE LockInv'
  OBVIOUS
<1> USE ThreadAssumption DEF TypeOK, IInv, LockInv, vars, locks, local, disk,
    server, bounds, hist, Goto, Fail, Finish, Start, TakeStep, Outside, Inside
<1>1. ASSUME NEW t \in Threads, Advance(t) PROVE LockInv'
  <2>1. CASE AcquireThreadLock(t)
    BY <2>1 DEF AcquireThreadLock
  <2>2. CASE AcquireFileLock(t)
    BY <2>2 DEF AcquireFileLock
  <2>3. CASE ThreadLockBusy(t)
    BY <2>3 DEF ThreadLockBusy
  <2>4. CASE FileLockBusy(t)
    BY <2>4 DEF FileLockBusy
  <2>5. CASE LoadState(t)
    BY <2>5 DEF LoadState
  <2>6. CASE NothingToReuse(t)
    BY <2>6 DEF NothingToReuse
  <2>7. CASE ReuseSession(t)
    BY <2>7 DEF ReuseSession
  <2>8. CASE ReuseProbeUnavailable(t)
    BY <2>8 DEF ReuseProbeUnavailable
  <2>9. CASE RefuseAtGate(t)
    BY <2>9 DEF RefuseAtGate
  <2>10. CASE PassGate(t)
    BY <2>10 DEF PassGate
  <2>11. CASE NoUsablePair(t)
    BY <2>11 DEF NoUsablePair
  <2>12. CASE ArmBreaker(t)
    BY <2>12 DEF ArmBreaker
  <2>13. CASE PasswordUnreachable(t)
    BY <2>13 DEF PasswordUnreachable
  <2>14. CASE PasswordRefused(t)
    BY <2>14 DEF PasswordRefused
  <2>15. CASE PasswordAccepted(t)
    BY <2>15 DEF PasswordAccepted
  <2>16. CASE SignedInWithoutCode(t)
    BY <2>16 DEF SignedInWithoutCode
  <2>17. CASE ProvideCode(t)
    BY <2>17 DEF ProvideCode
  <2>18. CASE WakeUp(t)
    BY <2>18 DEF WakeUp
  <2>19. CASE ReserveStep(t)
    BY <2>19 DEF ReserveStep
  <2>20. CASE CodeAccepted(t)
    BY <2>20 DEF CodeAccepted
  <2>21. CASE CodeRefused(t)
    BY <2>21 DEF CodeRefused
  <2>22. CASE CodeUnanswered(t)
    BY <2>22 DEF CodeUnanswered
  <2>23. CASE SaveCookies(t)
    BY <2>23 DEF SaveCookies
  <2>24. CASE ProbeValid(t)
    BY <2>24 DEF ProbeValid
  <2>25. CASE ProbeInvalid(t)
    BY <2>25 DEF ProbeInvalid
  <2>26. CASE ProbeUnavailable(t)
    BY <2>26 DEF ProbeUnavailable
  <2>27. CASE ClearBreaker(t)
    BY <2>27 DEF ClearBreaker
  <2>28. CASE SettleFailure(t)
    BY <2>28 DEF SettleFailure
  <2>29. CASE BindAuthenticator(t)
    BY <2>29 DEF BindAuthenticator
  <2>30. CASE RemoveAuthenticator(t)
    BY <2>30 DEF RemoveAuthenticator
  <2>31. CASE StoreFault(t)
    BY <2>31 DEF StoreFault
  <2>32. CASE Leave(t)
    BY <2>32 DEF Leave
  <2>33. CASE ClearPendingAfterLogin(t)
    BY <2>33 DEF ClearPendingAfterLogin
  <2> QED BY <1>1, <2>1, <2>2, <2>3, <2>4, <2>5, <2>6, <2>7, <2>8, <2>9,
        <2>10, <2>11, <2>12, <2>13, <2>14, <2>15, <2>16, <2>17, <2>18, <2>19,
        <2>20, <2>21, <2>22, <2>23, <2>24, <2>25, <2>26, <2>27, <2>28, <2>29,
        <2>30, <2>31, <2>32, <2>33 DEF Advance
<1>2. ASSUME NEW t \in Threads, Call(t) PROVE LockInv'
  <2>1. CASE ReadFindsExpired(t)
    BY <2>1 DEF ReadFindsExpired
  <2>2. CASE PersonLogsIn(t)
    BY <2>2 DEF PersonLogsIn
  <2>3. CASE PersonSetsUp(t)
    BY <2>3 DEF PersonSetsUp
  <2>4. CASE PersonRemoves(t)
    BY <2>4 DEF PersonRemoves
  <2>5. CASE HaveOtherSession(t)
    BY <2>5 DEF HaveOtherSession
  <2> QED BY <1>2, <2>1, <2>2, <2>3, <2>4, <2>5 DEF Call
<1>3. ASSUME NEW p \in Processes, Crash(p) PROVE LockInv'
  BY <1>3 DEF Crash
<1>4. CASE SessionExpires
  BY <1>4 DEF SessionExpires
<1>5. CASE ClockMoves
  BY <1>5 DEF ClockMoves
<1>6. CASE TwoStepLogin
  BY <1>6 DEF TwoStepLogin
<1>7. CASE UNCHANGED vars
  BY <1>7
<1> QED BY <1>1, <1>2, <1>3, <1>4, <1>5, <1>6, <1>7 DEF Next, Environment

\* Each kind of call stays on its own path.
LEMMA PlaceStep == TypeOK /\ IInv /\ [Next]_vars => PlaceInv'
<1> SUFFICES ASSUME TypeOK, IInv, [Next]_vars PROVE PlaceInv'
  OBVIOUS
<1> USE DEF TypeOK, IInv, PlaceInv, vars, locks, local, disk, server, bounds,
    hist, Goto, Fail, Finish, Start, TakeStep, Outside, Inside, Kinds
<1>1. ASSUME NEW t \in Threads, Advance(t) PROVE PlaceInv'
  <2>1. CASE AcquireThreadLock(t)
    BY <2>1 DEF AcquireThreadLock
  <2>2. CASE AcquireFileLock(t)
    BY <2>2 DEF AcquireFileLock
  <2>3. CASE ThreadLockBusy(t)
    BY <2>3 DEF ThreadLockBusy
  <2>4. CASE FileLockBusy(t)
    BY <2>4 DEF FileLockBusy
  <2>5. CASE LoadState(t)
    BY <2>5 DEF LoadState
  <2>6. CASE NothingToReuse(t)
    BY <2>6 DEF NothingToReuse
  <2>7. CASE ReuseSession(t)
    BY <2>7 DEF ReuseSession
  <2>8. CASE ReuseProbeUnavailable(t)
    BY <2>8 DEF ReuseProbeUnavailable
  <2>9. CASE RefuseAtGate(t)
    BY <2>9 DEF RefuseAtGate
  <2>10. CASE PassGate(t)
    BY <2>10 DEF PassGate
  <2>11. CASE NoUsablePair(t)
    BY <2>11 DEF NoUsablePair
  <2>12. CASE ArmBreaker(t)
    BY <2>12 DEF ArmBreaker
  <2>13. CASE PasswordUnreachable(t)
    BY <2>13 DEF PasswordUnreachable
  <2>14. CASE PasswordRefused(t)
    BY <2>14 DEF PasswordRefused
  <2>15. CASE PasswordAccepted(t)
    BY <2>15 DEF PasswordAccepted
  <2>16. CASE SignedInWithoutCode(t)
    BY <2>16 DEF SignedInWithoutCode
  <2>17. CASE ProvideCode(t)
    BY <2>17 DEF ProvideCode
  <2>18. CASE WakeUp(t)
    BY <2>18 DEF WakeUp
  <2>19. CASE ReserveStep(t)
    BY <2>19 DEF ReserveStep
  <2>20. CASE CodeAccepted(t)
    BY <2>20 DEF CodeAccepted
  <2>21. CASE CodeRefused(t)
    BY <2>21 DEF CodeRefused
  <2>22. CASE CodeUnanswered(t)
    BY <2>22 DEF CodeUnanswered
  <2>23. CASE SaveCookies(t)
    BY <2>23 DEF SaveCookies
  <2>24. CASE ProbeValid(t)
    BY <2>24 DEF ProbeValid
  <2>25. CASE ProbeInvalid(t)
    BY <2>25 DEF ProbeInvalid
  <2>26. CASE ProbeUnavailable(t)
    BY <2>26 DEF ProbeUnavailable
  <2>27. CASE ClearBreaker(t)
    BY <2>27 DEF ClearBreaker
  <2>28. CASE SettleFailure(t)
    BY <2>28 DEF SettleFailure
  <2>29. CASE BindAuthenticator(t)
    BY <2>29 DEF BindAuthenticator
  <2>30. CASE RemoveAuthenticator(t)
    BY <2>30 DEF RemoveAuthenticator
  <2>31. CASE StoreFault(t)
    BY <2>31 DEF StoreFault
  <2>32. CASE Leave(t)
    BY <2>32 DEF Leave
  <2>33. CASE ClearPendingAfterLogin(t)
    BY <2>33 DEF ClearPendingAfterLogin
  <2> QED BY <1>1, <2>1, <2>2, <2>3, <2>4, <2>5, <2>6, <2>7, <2>8, <2>9,
        <2>10, <2>11, <2>12, <2>13, <2>14, <2>15, <2>16, <2>17, <2>18, <2>19,
        <2>20, <2>21, <2>22, <2>23, <2>24, <2>25, <2>26, <2>27, <2>28, <2>29,
        <2>30, <2>31, <2>32, <2>33 DEF Advance
<1>2. ASSUME NEW t \in Threads, Call(t) PROVE PlaceInv'
  <2>1. CASE ReadFindsExpired(t)
    BY <2>1 DEF ReadFindsExpired
  <2>2. CASE PersonLogsIn(t)
    BY <2>2 DEF PersonLogsIn
  <2>3. CASE PersonSetsUp(t)
    BY <2>3 DEF PersonSetsUp
  <2>4. CASE PersonRemoves(t)
    BY <2>4 DEF PersonRemoves
  <2>5. CASE HaveOtherSession(t)
    BY <2>5 DEF HaveOtherSession
  <2> QED BY <1>2, <2>1, <2>2, <2>3, <2>4, <2>5 DEF Call
<1>3. ASSUME NEW p \in Processes, Crash(p) PROVE PlaceInv'
  BY <1>3 DEF Crash
<1>4. CASE SessionExpires
  BY <1>4 DEF SessionExpires
<1>5. CASE ClockMoves
  BY <1>5 DEF ClockMoves
<1>6. CASE TwoStepLogin
  BY <1>6 DEF TwoStepLogin
<1>7. CASE UNCHANGED vars
  BY <1>7
<1> QED BY <1>1, <1>2, <1>3, <1>4, <1>5, <1>6, <1>7 DEF Next, Environment

\* A strike stays covered by a block until a person or a success clears it.
LEMMA StrikeStep == TypeOK /\ IInv /\ [Next]_vars => StrikeInv'
<1> SUFFICES ASSUME TypeOK, IInv, [Next]_vars PROVE StrikeInv'
  OBVIOUS
<1> USE ThreadAssumption DEF TypeOK, IInv, LockInv, PlaceInv, StrikeInv,
    Undecided, vars, locks, local, disk, server, bounds, hist, Goto, Fail,
    Finish, Start, TakeStep, Strike, Excuse, Outside, Inside, Kinds, Causes,
    Breakers, Totps
<1>1. ASSUME NEW t \in Threads, Advance(t) PROVE StrikeInv'
  <2>1. CASE AcquireThreadLock(t)
    BY <2>1 DEF AcquireThreadLock
  <2>2. CASE AcquireFileLock(t)
    BY <2>2 DEF AcquireFileLock
  <2>3. CASE ThreadLockBusy(t)
    BY <2>3 DEF ThreadLockBusy
  <2>4. CASE FileLockBusy(t)
    BY <2>4 DEF FileLockBusy
  <2>5. CASE LoadState(t)
    BY <2>5 DEF LoadState
  <2>6. CASE NothingToReuse(t)
    BY <2>6 DEF NothingToReuse
  <2>7. CASE ReuseSession(t)
    BY <2>7 DEF ReuseSession
  <2>8. CASE ReuseProbeUnavailable(t)
    BY <2>8 DEF ReuseProbeUnavailable
  <2>9. CASE RefuseAtGate(t)
    BY <2>9 DEF RefuseAtGate
  <2>10. CASE PassGate(t)
    BY <2>10 DEF PassGate, GateClosed
  <2>11. CASE NoUsablePair(t)
    BY <2>11 DEF NoUsablePair
  <2>12. CASE ArmBreaker(t)
    BY <2>12 DEF ArmBreaker, Blocked
  <2>13. CASE PasswordUnreachable(t)
    BY <2>13 DEF PasswordUnreachable
  <2>14. CASE PasswordRefused(t)
    BY <2>14 DEF PasswordRefused
  <2>15. CASE PasswordAccepted(t)
    BY <2>15 DEF PasswordAccepted
  <2>16. CASE SignedInWithoutCode(t)
    BY <2>16 DEF SignedInWithoutCode
  <2>17. CASE ProvideCode(t)
    BY <2>17 DEF ProvideCode
  <2>18. CASE WakeUp(t)
    BY <2>18 DEF WakeUp
  <2>19. CASE ReserveStep(t)
    <3>1. CASE totp.key # NoKey /\ step[t] > totp.last
      BY <2>19, <3>1 DEF ReserveStep
    <3>2. CASE ~(totp.key # NoKey /\ step[t] > totp.last)
      <4>1. /\ strikes' = IF kind[t] = "auto" THEN 0 ELSE strikes
            /\ pc' = [pc EXCEPT ![t] = "settle"]
            /\ cause' = [cause EXCEPT ![t] = "store"]
            /\ UNCHANGED <<breaker, base, kind>>
        BY <2>19, <3>2 DEF ReserveStep
      <4>2. pc[t] = "reserve"
        BY <2>19 DEF ReserveStep
      <4> QED BY <4>1, <4>2
    <3> QED BY <3>1, <3>2
  <2>20. CASE CodeAccepted(t)
    BY <2>20 DEF CodeAccepted
  <2>21. CASE CodeRefused(t)
    BY <2>21 DEF CodeRefused
  <2>22. CASE CodeUnanswered(t)
    BY <2>22 DEF CodeUnanswered
  <2>23. CASE SaveCookies(t)
    BY <2>23 DEF SaveCookies
  <2>24. CASE ProbeValid(t)
    BY <2>24 DEF ProbeValid
  <2>25. CASE ProbeInvalid(t)
    BY <2>25 DEF ProbeInvalid
  <2>26. CASE ProbeUnavailable(t)
    BY <2>26 DEF ProbeUnavailable
  <2>27. CASE ClearBreaker(t)
    BY <2>27 DEF ClearBreaker, Clear
  <2>28. CASE SettleFailure(t)
    BY <2>28 DEF SettleFailure, AfterFailure, Blocked, CoolFrom
  <2>29. CASE BindAuthenticator(t)
    BY <2>29 DEF BindAuthenticator
  <2>30. CASE RemoveAuthenticator(t)
    BY <2>30 DEF RemoveAuthenticator
  <2>31. CASE StoreFault(t)
    BY <2>31 DEF StoreFault
  <2>32. CASE Leave(t)
    BY <2>32 DEF Leave
  <2>33. CASE ClearPendingAfterLogin(t)
    BY <2>33 DEF ClearPendingAfterLogin
  <2> QED BY <1>1, <2>1, <2>2, <2>3, <2>4, <2>5, <2>6, <2>7, <2>8, <2>9,
        <2>10, <2>11, <2>12, <2>13, <2>14, <2>15, <2>16, <2>17, <2>18, <2>19,
        <2>20, <2>21, <2>22, <2>23, <2>24, <2>25, <2>26, <2>27, <2>28, <2>29,
        <2>30, <2>31, <2>32, <2>33 DEF Advance
<1>2. ASSUME NEW t \in Threads, Call(t) PROVE StrikeInv'
  <2>1. CASE ReadFindsExpired(t)
    BY <2>1 DEF ReadFindsExpired
  <2>2. CASE PersonLogsIn(t)
    BY <2>2 DEF PersonLogsIn
  <2>3. CASE PersonSetsUp(t)
    BY <2>3 DEF PersonSetsUp
  <2>4. CASE PersonRemoves(t)
    BY <2>4 DEF PersonRemoves
  <2>5. CASE HaveOtherSession(t)
    BY <2>5 DEF HaveOtherSession
  <2> QED BY <1>2, <2>1, <2>2, <2>3, <2>4, <2>5 DEF Call
<1>3. ASSUME NEW p \in Processes, Crash(p) PROVE StrikeInv'
  BY <1>3 DEF Crash
<1>4. CASE SessionExpires
  BY <1>4 DEF SessionExpires
<1>5. CASE ClockMoves
  BY <1>5 DEF ClockMoves
<1>6. CASE TwoStepLogin
  BY <1>6 DEF TwoStepLogin
<1>7. CASE UNCHANGED vars
  BY <1>7
<1> QED BY <1>1, <1>2, <1>3, <1>4, <1>5, <1>6, <1>7, SMTT(40) DEF Next, Environment

\* Codes sent stay at or below the recorded step of their key.
LEMMA CodeStep == TypeOK /\ IInv /\ [Next]_vars => CodeInv'
<1> SUFFICES ASSUME TypeOK, IInv, [Next]_vars PROVE CodeInv'
  OBVIOUS
<1> USE ThreadAssumption DEF TypeOK, IInv, LockInv, CodeInv,
    CodeNeverReplayed, vars, locks, local, disk, server, bounds, hist, Goto,
    Fail, Finish, Start, Outside, Inside, Totps
<1>1. ASSUME NEW t \in Threads, Advance(t) PROVE CodeInv'
  <2>1. CASE AcquireThreadLock(t)
    BY <2>1 DEF AcquireThreadLock
  <2>2. CASE AcquireFileLock(t)
    BY <2>2 DEF AcquireFileLock
  <2>3. CASE ThreadLockBusy(t)
    BY <2>3 DEF ThreadLockBusy
  <2>4. CASE FileLockBusy(t)
    BY <2>4 DEF FileLockBusy
  <2>5. CASE LoadState(t)
    <3>1. pc'[t] \notin {"arm", "password", "provide", "sleep", "reserve", "submit"}
      BY <2>5 DEF LoadState
    <3> QED BY <2>5, <3>1 DEF LoadState
  <2>6. CASE NothingToReuse(t)
    BY <2>6 DEF NothingToReuse
  <2>7. CASE ReuseSession(t)
    BY <2>7 DEF ReuseSession
  <2>8. CASE ReuseProbeUnavailable(t)
    BY <2>8 DEF ReuseProbeUnavailable
  <2>9. CASE RefuseAtGate(t)
    BY <2>9 DEF RefuseAtGate
  <2>10. CASE PassGate(t)
    BY <2>10 DEF PassGate
  <2>11. CASE NoUsablePair(t)
    BY <2>11 DEF NoUsablePair
  <2>12. CASE ArmBreaker(t)
    BY <2>12 DEF ArmBreaker
  <2>13. CASE PasswordUnreachable(t)
    BY <2>13 DEF PasswordUnreachable
  <2>14. CASE PasswordRefused(t)
    BY <2>14 DEF PasswordRefused
  <2>15. CASE PasswordAccepted(t)
    BY <2>15 DEF PasswordAccepted
  <2>16. CASE SignedInWithoutCode(t)
    BY <2>16 DEF SignedInWithoutCode
  <2>17. CASE ProvideCode(t)
    BY <2>17 DEF ProvideCode, TakeStep
  <2>18. CASE WakeUp(t)
    BY <2>18 DEF WakeUp, TakeStep
  <2>19. CASE ReserveStep(t)
    BY <2>19, SMTT(40) DEF ReserveStep
  <2>20. CASE CodeAccepted(t)
    BY <2>20 DEF CodeAccepted, SendCode
  <2>21. CASE CodeRefused(t)
    BY <2>21 DEF CodeRefused, SendCode
  <2>22. CASE CodeUnanswered(t)
    BY <2>22 DEF CodeUnanswered, SendCode
  <2>23. CASE SaveCookies(t)
    BY <2>23 DEF SaveCookies
  <2>24. CASE ProbeValid(t)
    BY <2>24 DEF ProbeValid
  <2>25. CASE ProbeInvalid(t)
    BY <2>25 DEF ProbeInvalid
  <2>26. CASE ProbeUnavailable(t)
    BY <2>26 DEF ProbeUnavailable
  <2>27. CASE ClearBreaker(t)
    BY <2>27 DEF ClearBreaker
  <2>28. CASE SettleFailure(t)
    BY <2>28 DEF SettleFailure
  <2>29. CASE BindAuthenticator(t)
    <3>1. \A u \in Threads : pc'[u] \notin {"arm", "password", "provide", "sleep", "reserve", "submit"}
      BY <2>29 DEF BindAuthenticator
    <3>2. PICK k \in Keys :
            LET now  == StepAt(clock)
                last == IF totp.key = k /\ totp.last > now THEN totp.last ELSE now
            IN  /\ totp' = [key |-> k, last |-> last]
                /\ codes' = codes \union {<<k, now>>}
                /\ replaced' = replaced \union ({totp.key} \ {NoKey, k})
      BY <2>29 DEF BindAuthenticator
    <3>3. StepAt(clock) \in Nat
      BY StepIsNatural
    <3>4. totp'.key = k /\ totp'.last >= StepAt(clock) /\ (totp.key = k => totp'.last >= totp.last)
      BY <3>2, <3>3
    <3>5. \A code \in codes' : code[1] \in removed' \union replaced' \/ (totp'.key = code[1] /\ code[2] <= totp'.last)
      <4> SUFFICES ASSUME NEW code \in codes'
                   PROVE  code[1] \in removed' \union replaced' \/ (totp'.key = code[1] /\ code[2] <= totp'.last)
        OBVIOUS
      <4>1. CASE code = <<k, StepAt(clock)>>
        BY <4>1, <3>4
      <4>2. CASE code \in codes /\ code[1] \in removed \union replaced
        <5>1. removed' = removed /\ replaced \subseteq replaced'
          BY <2>29 DEF BindAuthenticator
        <5> QED BY <4>2, <5>1
      <4>3. CASE code \in codes /\ totp.key = code[1] /\ code[2] <= totp.last
        <5>1. code[1] \in Keys /\ code[2] \in Nat
          BY <4>3
        <5>2. CASE totp.key = k
          BY <5>1, <5>2, <4>3, <3>2, <3>3, <3>4
        <5>3. CASE totp.key # k
          <6>1. totp.key \in {totp.key} \ {NoKey, k}
            BY <5>1, <5>3, <4>3, KeyAssumption
          <6>2. totp.key \in replaced'
            BY <6>1, <3>2
          <6> QED BY <6>2, <4>3
        <5> QED BY <5>2, <5>3
      <4> QED BY <3>2, <4>1, <4>2, <4>3
    <3> QED BY <3>1, <3>5
  <2>30. CASE RemoveAuthenticator(t)
    <3>1. \A u \in Threads : pc'[u] \notin {"arm", "password", "provide", "sleep", "reserve", "submit"}
      BY <2>30 DEF RemoveAuthenticator
    <3>2. totp.key \in Keys => totp.key \in removed'
      BY <2>30, KeyAssumption DEF RemoveAuthenticator
    <3> QED BY <2>30, <3>1, <3>2 DEF RemoveAuthenticator
  <2>31. CASE StoreFault(t)
    BY <2>31 DEF StoreFault
  <2>32. CASE Leave(t)
    BY <2>32 DEF Leave
  <2>33. CASE ClearPendingAfterLogin(t)
    BY <2>33 DEF ClearPendingAfterLogin
  <2> QED BY <1>1, <2>1, <2>2, <2>3, <2>4, <2>5, <2>6, <2>7, <2>8, <2>9,
        <2>10, <2>11, <2>12, <2>13, <2>14, <2>15, <2>16, <2>17, <2>18, <2>19,
        <2>20, <2>21, <2>22, <2>23, <2>24, <2>25, <2>26, <2>27, <2>28, <2>29,
        <2>30, <2>31, <2>32, <2>33 DEF Advance
<1>2. ASSUME NEW t \in Threads, Call(t) PROVE CodeInv'
  <2>1. CASE ReadFindsExpired(t)
    BY <2>1 DEF ReadFindsExpired
  <2>2. CASE PersonLogsIn(t)
    BY <2>2 DEF PersonLogsIn
  <2>3. CASE PersonSetsUp(t)
    BY <2>3 DEF PersonSetsUp
  <2>4. CASE PersonRemoves(t)
    BY <2>4 DEF PersonRemoves
  <2>5. CASE HaveOtherSession(t)
    BY <2>5 DEF HaveOtherSession
  <2> QED BY <1>2, <2>1, <2>2, <2>3, <2>4, <2>5 DEF Call
<1>3. ASSUME NEW p \in Processes, Crash(p) PROVE CodeInv'
  BY <1>3 DEF Crash
<1>4. CASE SessionExpires
  BY <1>4 DEF SessionExpires
<1>5. CASE ClockMoves
  BY <1>5 DEF ClockMoves
<1>6. CASE TwoStepLogin
  BY <1>6 DEF TwoStepLogin
<1>7. CASE UNCHANGED vars
  BY <1>7
<1> QED BY <1>1, <1>2, <1>3, <1>4, <1>5, <1>6, <1>7, SMTT(40) DEF Next, Environment

\* Cookies change only under the lock and new sessions are new.
LEMMA SessionStep == TypeOK /\ IInv /\ [Next]_vars => SessionInv'
<1> SUFFICES ASSUME TypeOK, IInv, [Next]_vars PROVE SessionInv'
  OBVIOUS
<1> USE ThreadAssumption DEF TypeOK, IInv, LockInv, PlaceInv, SessionInv,
    vars, locks, local, disk, server, bounds, hist, Goto, Fail, Finish, Start,
    TakeStep, Outside, Inside
<1>1. ASSUME NEW t \in Threads, Advance(t) PROVE SessionInv'
  <2>1. CASE AcquireThreadLock(t)
    BY <2>1 DEF AcquireThreadLock
  <2>2. CASE AcquireFileLock(t)
    BY <2>2 DEF AcquireFileLock
  <2>3. CASE ThreadLockBusy(t)
    BY <2>3 DEF ThreadLockBusy
  <2>4. CASE FileLockBusy(t)
    BY <2>4 DEF FileLockBusy
  <2>5. CASE LoadState(t)
    BY <2>5 DEF LoadState
  <2>6. CASE NothingToReuse(t)
    BY <2>6 DEF NothingToReuse
  <2>7. CASE ReuseSession(t)
    BY <2>7 DEF ReuseSession
  <2>8. CASE ReuseProbeUnavailable(t)
    BY <2>8 DEF ReuseProbeUnavailable
  <2>9. CASE RefuseAtGate(t)
    BY <2>9 DEF RefuseAtGate
  <2>10. CASE PassGate(t)
    BY <2>10 DEF PassGate
  <2>11. CASE NoUsablePair(t)
    BY <2>11 DEF NoUsablePair
  <2>12. CASE ArmBreaker(t)
    BY <2>12 DEF ArmBreaker
  <2>13. CASE PasswordUnreachable(t)
    BY <2>13 DEF PasswordUnreachable
  <2>14. CASE PasswordRefused(t)
    BY <2>14 DEF PasswordRefused
  <2>15. CASE PasswordAccepted(t)
    BY <2>15 DEF PasswordAccepted
  <2>16. CASE SignedInWithoutCode(t)
    BY <2>16 DEF SignedInWithoutCode
  <2>17. CASE ProvideCode(t)
    BY <2>17 DEF ProvideCode
  <2>18. CASE WakeUp(t)
    BY <2>18 DEF WakeUp
  <2>19. CASE ReserveStep(t)
    BY <2>19 DEF ReserveStep
  <2>20. CASE CodeAccepted(t)
    BY <2>20 DEF CodeAccepted
  <2>21. CASE CodeRefused(t)
    BY <2>21 DEF CodeRefused
  <2>22. CASE CodeUnanswered(t)
    BY <2>22 DEF CodeUnanswered
  <2>23. CASE SaveCookies(t)
    BY <2>23 DEF SaveCookies
  <2>24. CASE ProbeValid(t)
    BY <2>24 DEF ProbeValid
  <2>25. CASE ProbeInvalid(t)
    BY <2>25 DEF ProbeInvalid
  <2>26. CASE ProbeUnavailable(t)
    BY <2>26 DEF ProbeUnavailable
  <2>27. CASE ClearBreaker(t)
    BY <2>27 DEF ClearBreaker
  <2>28. CASE SettleFailure(t)
    BY <2>28 DEF SettleFailure
  <2>29. CASE BindAuthenticator(t)
    BY <2>29 DEF BindAuthenticator
  <2>30. CASE RemoveAuthenticator(t)
    BY <2>30 DEF RemoveAuthenticator
  <2>31. CASE StoreFault(t)
    BY <2>31 DEF StoreFault
  <2>32. CASE Leave(t)
    BY <2>32 DEF Leave
  <2>33. CASE ClearPendingAfterLogin(t)
    BY <2>33 DEF ClearPendingAfterLogin
  <2> QED BY <1>1, <2>1, <2>2, <2>3, <2>4, <2>5, <2>6, <2>7, <2>8, <2>9,
        <2>10, <2>11, <2>12, <2>13, <2>14, <2>15, <2>16, <2>17, <2>18, <2>19,
        <2>20, <2>21, <2>22, <2>23, <2>24, <2>25, <2>26, <2>27, <2>28, <2>29,
        <2>30, <2>31, <2>32, <2>33 DEF Advance
<1>2. ASSUME NEW t \in Threads, Call(t) PROVE SessionInv'
  <2>1. CASE ReadFindsExpired(t)
    BY <2>1 DEF ReadFindsExpired
  <2>2. CASE PersonLogsIn(t)
    BY <2>2 DEF PersonLogsIn
  <2>3. CASE PersonSetsUp(t)
    BY <2>3 DEF PersonSetsUp
  <2>4. CASE PersonRemoves(t)
    BY <2>4 DEF PersonRemoves
  <2>5. CASE HaveOtherSession(t)
    BY <2>5 DEF HaveOtherSession
  <2> QED BY <1>2, <2>1, <2>2, <2>3, <2>4, <2>5 DEF Call
<1>3. ASSUME NEW p \in Processes, Crash(p) PROVE SessionInv'
  BY <1>3 DEF Crash
<1>4. CASE SessionExpires
  BY <1>4 DEF SessionExpires
<1>5. CASE ClockMoves
  BY <1>5 DEF ClockMoves
<1>6. CASE TwoStepLogin
  BY <1>6 DEF TwoStepLogin
<1>7. CASE UNCHANGED vars
  BY <1>7
<1> QED BY <1>1, <1>2, <1>3, <1>4, <1>5, <1>6, <1>7 DEF Next, Environment

\* A call that is not past renewal_lock does not move the gate, whatever it does
\* to its own state.
LEMMA OutsideTheGate ==
    ASSUME TypeOK, LockInv, NEW t \in Threads, pc[t] \in Outside,
           fileLock' = fileLock, breaker' = breaker,
           \A u \in Threads : u # t =>
               pc'[u] = pc[u] /\ kind'[u] = kind[u] /\ base'[u] = base[u]
    PROVE  UNCHANGED Gate!gateVars
<1>1. fileLock # t
  BY DEF LockInv, Inside, Outside
<1>2. CASE fileLock = NoThread
  BY <1>2 DEF RoleOf, GateOf, AttemptOut, Gate!gateVars
<1>3. CASE fileLock # NoThread
  <2>1. fileLock \in Threads
    BY <1>3 DEF TypeOK
  <2>2. /\ pc'[fileLock] = pc[fileLock]
        /\ kind'[fileLock] = kind[fileLock]
        /\ base'[fileLock] = base[fileLock]
    BY <1>1, <2>1
  <2> QED BY <1>3, <2>2 DEF RoleOf, GateOf, AttemptOut, Gate!gateVars
<1> QED BY <1>2, <1>3

\* The steps a caller takes before it has renewal_lock or after it gave it up.
LEMMA OutsiderStep ==
    ASSUME TypeOK, LockInv, NEW t \in Threads,
           \/ AcquireThreadLock(t) \/ ThreadLockBusy(t) \/ FileLockBusy(t)
           \/ ClearPendingAfterLogin(t) \/ Call(t)
    PROVE  UNCHANGED Gate!gateVars
<1> DEFINE Apart == \A u \in Threads : u # t =>
               pc'[u] = pc[u] /\ kind'[u] = kind[u] /\ base'[u] = base[u]
<1> USE DEF TypeOK, Outside, locks, disk, bounds, Goto
<1>1. CASE AcquireThreadLock(t)
  <2>1. pc[t] \in Outside /\ fileLock' = fileLock /\ breaker' = breaker /\ Apart
    BY <1>1 DEF AcquireThreadLock
  <2> QED BY ONLY <2>1, OutsideTheGate, TypeOK, LockInv, t \in Threads
<1>2. CASE ThreadLockBusy(t)
  <2>1. pc[t] \in Outside /\ fileLock' = fileLock /\ breaker' = breaker /\ Apart
    BY <1>2 DEF ThreadLockBusy, Finish
  <2> QED BY ONLY <2>1, OutsideTheGate, TypeOK, LockInv, t \in Threads
<1>3. CASE FileLockBusy(t)
  <2>1. pc[t] \in Outside /\ fileLock' = fileLock /\ breaker' = breaker /\ Apart
    BY <1>3 DEF FileLockBusy, Finish
  <2> QED BY ONLY <2>1, OutsideTheGate, TypeOK, LockInv, t \in Threads
<1>4. CASE ClearPendingAfterLogin(t)
  <2>1. pc[t] \in Outside /\ fileLock' = fileLock /\ breaker' = breaker /\ Apart
    BY <1>4 DEF ClearPendingAfterLogin
  <2> QED BY ONLY <2>1, OutsideTheGate, TypeOK, LockInv, t \in Threads
<1>5. ASSUME NEW k, Start(t, k) PROVE UNCHANGED Gate!gateVars
  <2>1. pc[t] \in Outside /\ fileLock' = fileLock /\ breaker' = breaker /\ Apart
    BY <1>5 DEF Start
  <2> QED BY ONLY <2>1, OutsideTheGate, TypeOK, LockInv, t \in Threads
<1>6. CASE Call(t)
  <2>1. \E k \in Kinds : Start(t, k)
    BY <1>6, SMTT(40) DEF Call, ReadFindsExpired, PersonLogsIn, PersonSetsUp,
                PersonRemoves, HaveOtherSession, Kinds
  <2> QED BY <1>5, <2>1
<1> QED BY <1>1, <1>2, <1>3, <1>4, <1>6

\* Every step of a thread, a crash or the environment is a step of the gate.
LEMMA GateStep == TypeOK /\ IInv /\ [Next]_vars => [Gate!GateNext]_(Gate!gateVars)
<1> SUFFICES ASSUME TypeOK, IInv, [Next]_vars PROVE [Gate!GateNext]_(Gate!gateVars)
  BY ZenonT(60)
<1> USE ThreadAssumption DEF TypeOK, IInv, LockInv, PlaceInv, StrikeInv,
    Undecided, RoleOf, GateOf, AttemptOut, vars, locks, local, disk, server,
    bounds, hist, Goto, Fail, Finish, Start, TakeStep, Outside, Inside, Kinds,
    Causes, Breakers, Totps, Gate!GateNext, Gate!gateVars, Gate!Enter,
    Gate!Try, Gate!Resolve, Gate!PersonSigns, Gate!Exit
<1>1. ASSUME NEW t \in Threads, Advance(t) PROVE [Gate!GateNext]_(Gate!gateVars)
  <2>1. CASE AcquireThreadLock(t)
    BY <2>1, OutsiderStep
  <2>2. CASE AcquireFileLock(t)
    BY <2>2 DEF AcquireFileLock
  <2>3. CASE ThreadLockBusy(t)
    BY <2>3, OutsiderStep
  <2>4. CASE FileLockBusy(t)
    BY <2>4, OutsiderStep
  <2>5. CASE LoadState(t)
    BY <2>5 DEF LoadState
  <2>6. CASE NothingToReuse(t)
    BY <2>6 DEF NothingToReuse
  <2>7. CASE ReuseSession(t)
    BY <2>7 DEF ReuseSession
  <2>8. CASE ReuseProbeUnavailable(t)
    BY <2>8 DEF ReuseProbeUnavailable
  <2>9. CASE RefuseAtGate(t)
    BY <2>9 DEF RefuseAtGate
  <2>10. CASE PassGate(t)
    BY <2>10 DEF PassGate
  <2>11. CASE NoUsablePair(t)
    BY <2>11 DEF NoUsablePair
  <2>12. CASE ArmBreaker(t)
    BY <2>12 DEF ArmBreaker
  <2>13. CASE PasswordUnreachable(t)
    BY <2>13 DEF PasswordUnreachable
  <2>14. CASE PasswordRefused(t)
    BY <2>14 DEF PasswordRefused
  <2>15. CASE PasswordAccepted(t)
    BY <2>15 DEF PasswordAccepted
  <2>16. CASE SignedInWithoutCode(t)
    BY <2>16 DEF SignedInWithoutCode
  <2>17. CASE ProvideCode(t)
    BY <2>17 DEF ProvideCode
  <2>18. CASE WakeUp(t)
    BY <2>18 DEF WakeUp
  <2>19. CASE ReserveStep(t)
    BY <2>19 DEF ReserveStep
  <2>20. CASE CodeAccepted(t)
    BY <2>20 DEF CodeAccepted
  <2>21. CASE CodeRefused(t)
    BY <2>21 DEF CodeRefused
  <2>22. CASE CodeUnanswered(t)
    BY <2>22 DEF CodeUnanswered
  <2>23. CASE SaveCookies(t)
    BY <2>23 DEF SaveCookies
  <2>24. CASE ProbeValid(t)
    BY <2>24 DEF ProbeValid
  <2>25. CASE ProbeInvalid(t)
    BY <2>25 DEF ProbeInvalid
  <2>26. CASE ProbeUnavailable(t)
    BY <2>26 DEF ProbeUnavailable
  <2>27. CASE ClearBreaker(t)
    BY <2>27 DEF ClearBreaker
  <2>28. CASE SettleFailure(t)
    BY <2>28 DEF SettleFailure, AfterFailure, Blocked, CoolFrom
  <2>29. CASE BindAuthenticator(t)
    BY <2>29 DEF BindAuthenticator
  <2>30. CASE RemoveAuthenticator(t)
    BY <2>30 DEF RemoveAuthenticator
  <2>31. CASE StoreFault(t)
    BY <2>31 DEF StoreFault
  <2>32. CASE Leave(t)
    BY <2>32 DEF Leave
  <2>33. CASE ClearPendingAfterLogin(t)
    BY <2>33, OutsiderStep
  <2> QED BY <1>1, <2>1, <2>2, <2>3, <2>4, <2>5, <2>6, <2>7, <2>8, <2>9,
        <2>10, <2>11, <2>12, <2>13, <2>14, <2>15, <2>16, <2>17, <2>18, <2>19,
        <2>20, <2>21, <2>22, <2>23, <2>24, <2>25, <2>26, <2>27, <2>28, <2>29,
        <2>30, <2>31, <2>32, <2>33 DEF Advance
<1>2. ASSUME NEW t \in Threads, Call(t) PROVE [Gate!GateNext]_(Gate!gateVars)
  BY <1>2, OutsiderStep, SMTT(40)
<1>3. ASSUME NEW p \in Processes, Crash(p) PROVE [Gate!GateNext]_(Gate!gateVars)
  BY <1>3 DEF Crash
<1>4. CASE SessionExpires
  BY <1>4 DEF SessionExpires
<1>5. CASE ClockMoves
  BY <1>5 DEF ClockMoves
<1>6. CASE TwoStepLogin
  BY <1>6 DEF TwoStepLogin
<1>7. CASE UNCHANGED vars
  BY <1>7
<1> QED BY <1>1, <1>2, <1>3, <1>4, <1>5, <1>6, <1>7 DEF Next, Environment

-----------------------------------------------------------------------------
\* TypeOK /\ IInv is inductive.
LEMMA Inductive == TypeOK /\ IInv /\ [Next]_vars => TypeOK' /\ IInv'
  BY TypeStep, LockStep, PlaceStep, StrikeStep, CodeStep, SessionStep DEF IInv

\* The inductive invariant holds in every behaviour.
THEOREM Invariance == Spec => [](TypeOK /\ IInv)
<1>1. Init => TypeOK /\ IInv
  BY InitIsGood
<1>2. TypeOK /\ IInv /\ [Next]_vars => (TypeOK /\ IInv)'
  BY Inductive
<1> QED BY <1>1, <1>2, PTL DEF Spec

\* Every file, lock, counter and local of the sign-in code keeps its type.
THEOREM TypeCorrect == Spec => []TypeOK
<1>1. TypeOK /\ IInv => TypeOK
  OBVIOUS
<1> QED BY <1>1, Invariance, PTL

\* renewal_lock: one thread of one process is signed in at a time, whatever is
\* killed and however the lock waits end.
THEOREM MutualExclusion == Spec => []OneSignInAtATime
<1>1. TypeOK /\ IInv => OneSignInAtATime
  BY DEF IInv, LockInv, OneSignInAtATime
<1> QED BY <1>1, Invariance, PTL

\* The circuit breaker: at most one automatic sign-in is refused, or dies
\* without a known outcome, before a person or a success clears the breaker.
THEOREM OneStrike == Spec => []AtMostOneStrike
<1>1. TypeOK /\ IInv => AtMostOneStrike
  BY DEF IInv, StrikeInv, AtMostOneStrike
<1> QED BY <1>1, Invariance, PTL

\* reserve_totp_step and store_authenticator: no code is submitted twice while
\* the store remembers its key.
THEOREM NoReplay == Spec => []CodeNeverReplayed
<1>1. TypeOK /\ IInv => CodeNeverReplayed
  BY DEF IInv, CodeInv
<1> QED BY <1>1, Invariance, PTL

\* _reuse_existing: no automatic sign-in starts over saved cookies D2L accepts.
THEOREM Reuse == Spec => []NoSignInOverLiveSession
<1>1. TypeOK /\ IInv => NoSignInOverLiveSession
  BY DEF IInv, PlaceInv, SessionInv, NoSignInOverLiveSession, TypeOK
<1> QED BY <1>1, Invariance, PTL

\* The sign-in code implements SignInGate: a block ends only through a person or
\* through the automatic attempt that armed it, and a killed attempt leaves it.
THEOREM ImplementsSignInGate == Spec => ImplementsGate
<1>1. Init => Gate!GateInit
  BY DEF Init, Gate!GateInit, RoleOf, GateOf, AttemptOut, Clear
<1>2. TypeOK /\ IInv /\ [Next]_vars => [Gate!GateNext]_(Gate!gateVars)
  BY GateStep
<1> QED BY <1>1, <1>2, Invariance, PTL DEF Spec, ImplementsGate, Gate!GateSpec
===========================================================================
