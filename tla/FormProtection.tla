--------------------------- MODULE FormProtection ---------------------------
(***************************************************************************)
(* The hit codes one page's forms carry: request_protection.py's           *)
(* FormProtection.next_hit_code, drawn one after the other while the       *)
(* system's clock moves on, or is set back.  A code is the clock in        *)
(* milliseconds and a counter of one digit; the seed in front of it is the *)
(* same for all codes of a page.  Of the milliseconds only the last eight  *)
(* digits are sent, which repeat after 27 hours: no page lives that long.  *)
(* The method takes a lock, and is modelled for any number of threads; its *)
(* callers of today have one page each and draw its codes in one thread.   *)
(***************************************************************************)
EXTENDS Integers

CONSTANTS
    Threads,   \* threads that ask for codes
    NoThread,  \* nobody holds the lock
    Digits,    \* values of the counter: 10
    MaxClock   \* bound: the last millisecond of the clock and of the codes

ASSUME ThreadAssumption == NoThread \notin Threads
ASSUME DigitAssumption == Digits \in Nat /\ Digits > 1
ASSUME ClockAssumption == MaxClock \in Nat

VARIABLES
    clock,     \* the system's clock
    holder,    \* who holds _lock
    tick,      \* the tick each thread computed in its critical section
    lastTick,  \* _last_tick
    counter,   \* _counter
    issued     \* history: tick and counter of every code issued

hitVars == <<clock, holder, tick, lastTick, counter, issued>>

Ticks    == Nat \union {-1}
Counters == 0 .. Digits - 1

HitTypeOK ==
    /\ clock \in Nat
    /\ holder \in Threads \union {NoThread}
    /\ tick \in [Threads -> Ticks]
    /\ lastTick \in Ticks
    /\ counter \in Counters
    /\ issued \subseteq [tick : Nat, counter : Counters]

\* The page's own script spent the first code.
HitInit ==
    /\ clock = 0
    /\ holder = NoThread
    /\ tick = [t \in Threads |-> -1]
    /\ lastTick = -1
    /\ counter = 1
    /\ issued = {}

\* Faulty variant: the clock counts even when it was set back.
AsTheClockSays(a, b) == a

Larger(a, b) == IF a > b THEN a ELSE b

\* Takes the lock and reads the clock; a clock set back does not count.
Enter(t) ==
    /\ holder = NoThread
    /\ lastTick <= MaxClock
    /\ holder' = t
    /\ tick' = [tick EXCEPT ![t] = Larger(clock, lastTick)]
    /\ UNCHANGED <<clock, lastTick, counter, issued>>

NextCounter == IF counter = Digits - 1 THEN 0 ELSE counter + 1

\* A counter that starts anew within one tick advances the tick.
CodeOf(t) ==
    [tick |-> IF tick[t] = lastTick /\ NextCounter = 0 THEN tick[t] + 1 ELSE tick[t],
     counter |-> NextCounter]

Issue(t) ==
    /\ tick[t] # -1
    /\ issued' = issued \union {CodeOf(t)}
    /\ lastTick' = CodeOf(t).tick
    /\ counter' = CodeOf(t).counter
    /\ tick' = [tick EXCEPT ![t] = -1]
    /\ holder' = NoThread
    /\ UNCHANGED clock

ClockMoves ==
    /\ \E time \in 0 .. MaxClock : clock' = time
    /\ UNCHANGED <<holder, tick, lastTick, counter, issued>>

HitNext == (\E t \in Threads : Enter(t) \/ Issue(t)) \/ ClockMoves

HitSpec == HitInit /\ [][HitNext]_hitVars

-----------------------------------------------------------------------------
(* Properties.                                                             *)

\* The code drawn last is after every code of before: by tick, then by counter.
LastIsLatest ==
    \A c \in issued : c.tick < lastTick \/ (c.tick = lastTick /\ c.counter <= counter)

\* No code is drawn that was drawn before for this page, however the clock moves and
\* however many codes one millisecond takes (next_hit_code).
NeverIssuedTwice == [][\A t \in Threads : Issue(t) => CodeOf(t) \notin issued]_hitVars

\* Who has read the clock holds the lock, so no code was drawn since.
CriticalSection == \A t \in Threads : tick[t] # -1 => holder = t /\ tick[t] >= lastTick

\* The inductive invariant of the proofs.
HitInv == HitTypeOK /\ CriticalSection /\ LastIsLatest
=============================================================================
