----------------------------- MODULE MfaLoginProofs ----------------------------
(***************************************************************************)
(* Proofs about MfaLogin, for any number of processes, commands,           *)
(* challenges, methods, polls, hops and pages, and any pages Microsoft     *)
(* serves, under one hypothesis: one process runs the commands that write  *)
(* the checkpoint.  Nothing locks update_mfa_pending, and two commands     *)
(* that write it at once can mix two challenges.                           *)
(***************************************************************************)
EXTENDS MfaLogin, TLAPS

\* The commands that begin or resume a sign-in a person has the code of.
Checkpoints == {"login", "defer", "app", "verify"}

\* One process runs them; others sign in with the stored authenticator or the browser.
OnePerson ==
    \A p, q \in Procs :
        /\ Commands[p] \intersect Checkpoints # {}
        /\ Commands[q] \intersect Checkpoints # {}
        => p = q

\* The checkpoint is of one challenge.
PendingInv ==
    /\ {pending.end, pending.kmsi} \subseteq {0, pending.begin}
    /\ pending.begin <= Len(how)

\* Where a command can be, and what it has by then.
Shape(p, j) ==
    /\ j.cmd \in Commands[p] /\ j.cmd # "none"
    /\ j.mode = "stored" <=> j.cmd \in {"stored", "auto"}
    /\ j.mode = "verify" => j.cmd \in {"app", "verify"}
    /\ j.cmd = "refresh" => j.pc \in {"persist", "supersede"}
    /\ j.pc = "supersede" => j.cmd \notin Checkpoints
    /\ j.pc = "plan" => j.cmd = "app"
    /\ j.pc = "defer" => j.cmd = "defer"
    /\ j.pc \in {"plan", "clear", "password", "begin", "defer"} => j.mode # "verify"
    /\ j.pc \in {"plan", "clear", "load", "lookup", "merge", "write", "finish", "defer"}
          => j.mode # "stored"
    /\ j.pc \in {"reload", "discard"} => j.mode = "verify"
    /\ j.pc \in {"plan", "clear", "password", "begin", "load"} => j.ch = 0 /\ j.tok = 0
    /\ j.pc \in {"defer", "end"} => j.ch # 0
    /\ j.told = "none" \/ (j.told = "store" /\ j.pc = "discard")
    /\ j.ch <= Len(how)
    /\ j.pc \notin {"walk", "reload", "discard"} => ~Expired(j.page)

\* What a command of the person knows of the checkpoint, which no one else creates.
Holds(j) ==
    /\ j.mode = "fresh" /\ j.pc \notin {"plan", "clear"} => pending.begin = 0
    /\ j.mode = "verify" /\ j.pc # "load" =>
          j.ch # 0 /\ pending.begin \in {0, j.ch} /\ j.tok \in {0, j.ch}
    /\ j.pc = "write" =>
          /\ j.mode = "verify" /\ j.snap.begin = j.ch
          /\ {j.snap.end, j.snap.kmsi} \subseteq {0, j.ch}
    /\ j.pc = "discard" /\ j.told = "none" => pending.end = 0
    /\ j.pc \in {"reload", "discard"} /\ Expired(j.page) /\ j.hops < Hops => pending.begin = 0
    /\ j.pc = "load" /\ j.cmd = "app" /\ pending.begin # 0 => how[pending.begin] = "app"

\* A code of the app is for a challenge of the app.
Fits(j) == j.cmd \in {"app", "stored", "auto"} /\ j.ch # 0 => how[j.ch] = "app"

JobInv(p, j) == j.pc # "idle" => Shape(p, j) /\ Fits(j) /\ (j.cmd \in Checkpoints => Holds(j))

IInv == PendingInv /\ \A p \in Procs : JobInv(p, job[p])

-----------------------------------------------------------------------------
(* Jobs and checkpoints.                                                   *)

Results == {"none", "done", "pending", "failed", "expired", "store"}

\* The fields of a job.
LEMMA Fields ==
    ASSUME NEW j \in Job
    PROVE  /\ j.pc \in Places
           /\ j.cmd \in {"none", "login", "defer", "app", "verify", "stored", "auto", "refresh"}
           /\ j.mode \in {"fresh", "verify", "stored"}
           /\ j.ch \in Challenges \union {0} /\ j.tok \in Challenges \union {0, Other}
           /\ j.snap \in Pending /\ j.page \in SUBSET Features
           /\ j.polls \in 0 .. Polls /\ j.hops \in 0 .. Hops /\ j.reloads \in 0 .. Reloads
           /\ j.told \in Results
  BY DEF Job, Results

\* Of an idle one.
LEMMA IdleFields ==
    /\ Idle \in Job /\ Absent \in Pending
    /\ Absent.begin = 0 /\ Absent.end = 0 /\ Absent.kmsi = 0
    /\ Idle.pc = "idle" /\ Idle.cmd = "none" /\ Idle.mode = "fresh" /\ Idle.ch = 0
    /\ Idle.tok = 0 /\ Idle.page = {} /\ Idle.told = "none"
<1>1. Absent \in Pending
  BY DEF Absent, Pending
<1>2. 0 \in 0 .. Polls /\ 0 \in 0 .. Hops /\ 0 \in 0 .. Reloads
  BY SizeAssumption
<1>3. Idle \in Job
  BY <1>1, <1>2 DEF Idle, Job, Places
<1> QED BY <1>1, <1>3 DEF Idle, Absent

\* The fields of a checkpoint.
LEMMA PendingFields ==
    ASSUME NEW c \in Pending
    PROVE  /\ c.begin \in Challenges \union {0} /\ c.end \in Challenges \union {0}
           /\ c.kmsi \in Challenges \union {0}
  BY DEF Pending

\* What the challenges are numbered by.
LEMMA Numbers ==
    /\ MaxChallenges \in Nat /\ 0 \notin Challenges /\ Other \notin Challenges /\ Other # 0
    /\ \A n \in Challenges : n \in Nat /\ n # 0
  BY SizeAssumption DEF Challenges, Other

\* A command at another place.
At(j, place) == [j EXCEPT !.pc = place]

\* Only the place differs.
LEMMA AtFields ==
    ASSUME NEW j \in Job, NEW place \in Places
    PROVE  /\ At(j, place) \in Job /\ At(j, place).pc = place
           /\ At(j, place).cmd = j.cmd /\ At(j, place).mode = j.mode
           /\ At(j, place).ch = j.ch /\ At(j, place).tok = j.tok
           /\ At(j, place).snap = j.snap /\ At(j, place).page = j.page
           /\ At(j, place).polls = j.polls /\ At(j, place).hops = j.hops
           /\ At(j, place).reloads = j.reloads /\ At(j, place).told = j.told
  BY DEF At, Job

\* A command that ended.
Ended(r) == [Idle EXCEPT !.told = r]

\* It is idle.
LEMMA EndedFields ==
    ASSUME NEW r \in Results
    PROVE  Ended(r) \in Job /\ Ended(r).pc = "idle" /\ Ended(r).told = r
  BY IdleFields DEF Ended, Job, Results

\* One process's job is replaced.
LEMMA BecomesJob ==
    ASSUME TypeOK, NEW p \in Procs, NEW j \in Job, Becomes(p, j)
    PROVE  /\ job' \in [Procs -> Job] /\ job'[p] = j
           /\ \A q \in Procs \ {p} : job'[q] = job[q]
  BY DEF TypeOK, Becomes

\* Moving on replaces it by one at another place.
LEMMA GotoBecomes ==
    ASSUME TypeOK, NEW p \in Procs, NEW place
    PROVE  Goto(p, place) <=> Becomes(p, At(job[p], place))
  BY DEF TypeOK, Goto, Becomes, At

\* The page of an expired password is classified so.
LEMMA ExpiredKind ==
    ASSUME NEW pg, Expired(pg)
    PROVE  Classify(pg) = "change"
<1> DEFINE i == CHOOSE i \in 1 .. Len(KindOrder) :
                  KindOrder[i] \in pg /\ \A k \in 1 .. i - 1 : KindOrder[k] \notin pg
<1>1. Len(KindOrder) = 8 /\ KindOrder[1] = "saml" /\ KindOrder[2] = "change"
  BY DEF KindOrder
<1>2. \E k \in 1 .. Len(KindOrder) :
         KindOrder[k] \in pg /\ \A n \in 1 .. k - 1 : KindOrder[n] \notin pg
  <2>1. 2 \in 1 .. Len(KindOrder) /\ KindOrder[2] \in pg
        /\ \A n \in 1 .. 2 - 1 : KindOrder[n] \notin pg
    BY <1>1 DEF Expired
  <2> QED BY <2>1
<1>3. i \in 1 .. 8 /\ KindOrder[i] \in pg /\ \A k \in 1 .. i - 1 : KindOrder[k] \notin pg
  BY <1>1, <1>2
<1>4. Classify(pg) = KindOrder[i]
  BY DEF Classify, First, Expired
<1> HIDE DEF i
<1>5. i # 1
  BY <1>1, <1>3 DEF Expired
<1>6. ~(i > 2)
  <2>1. ASSUME i > 2 PROVE FALSE
    <3>1. 2 \in 1 .. i - 1
      BY <1>3, <2>1
    <3> QED BY <1>1, <1>3, <3>1 DEF Expired
  <2> QED BY <2>1
<1>7. i = 2
  BY <1>3, <1>5, <1>6
<1> QED BY <1>1, <1>4, <1>7

-----------------------------------------------------------------------------
(* What a step leaves of the invariant.                                    *)

\* Challenges keep their method.
Later ==
    /\ Len(how) \in Nat /\ Len(how') \in Nat /\ Len(how) <= Len(how')
    /\ \A n \in 1 .. Len(how) : how'[n] = how[n]

\* No challenge is begun.
LEMMA SameMethods ==
    ASSUME TypeOK, UNCHANGED how
    PROVE  Later
  BY DEF TypeOK, Later

\* The checkpoint is as it was, or gone.
LEMMA PendingOn ==
    ASSUME TypeOK, IInv, Later, pending' \in {pending, Absent}
    PROVE  pending' \in Pending /\ PendingInv'
<1>1. pending \in Pending /\ pending.begin \in Nat /\ PendingInv
  BY PendingFields, Numbers DEF TypeOK, IInv
<1>2. CASE pending' = pending
  BY <1>1, <1>2 DEF PendingInv, Later
<1>3. CASE pending' = Absent
  BY <1>3, IdleFields DEF PendingInv, Later
<1> QED BY <1>2, <1>3

\* What an unmoved command knows stays so.
LEMMA OtherOn ==
    ASSUME TypeOK, IInv, NEW q \in Procs, job'[q] = job[q], Later,
           \/ pending' \in {pending, Absent}
           \/ job[q].pc = "idle" \/ job[q].cmd \notin Checkpoints
    PROVE  JobInv(q, job[q])'
<1> SUFFICES ASSUME job[q].pc # "idle"
             PROVE  /\ Shape(q, job[q])' /\ Fits(job[q])'
                    /\ (job[q].cmd \in Checkpoints => Holds(job[q])')
  BY DEF JobInv
<1>1. job[q] \in Job /\ pending \in Pending /\ JobInv(q, job[q]) /\ PendingInv
  BY DEF TypeOK, IInv
<1>2. /\ Shape(q, job[q]) /\ Fits(job[q])
      /\ job[q].cmd \in Checkpoints => Holds(job[q])
  BY <1>1 DEF JobInv
<1>3. /\ job[q].ch \in Nat /\ (job[q].ch # 0 => job[q].ch \in 1 .. Len(how))
      /\ pending.begin \in Nat /\ (pending.begin # 0 => pending.begin \in 1 .. Len(how))
  <2>1. job[q].ch \in Nat /\ pending.begin \in Nat
    BY <1>1, Fields, PendingFields, Numbers
  <2> QED BY <1>1, <1>2, <2>1 DEF Shape, PendingInv, Later
<1>4. Shape(q, job[q])'
  BY <1>2, <1>3 DEF Shape, Later
<1>5. Fits(job[q])'
  BY <1>2, <1>3 DEF Fits, Later
<1>6. ASSUME job[q].cmd \in Checkpoints, pending' = pending
      PROVE  Holds(job[q])'
  BY <1>2, <1>3, <1>6 DEF Holds, Later
<1>7. ASSUME job[q].cmd \in Checkpoints, pending' = Absent
      PROVE  Holds(job[q])'
  <2>1. pending'.begin = 0 /\ pending'.end = 0
    BY <1>7, IdleFields
  <2> QED BY <1>2, <1>7, <2>1 DEF Holds
<1> QED BY <1>4, <1>5, <1>6, <1>7

\* One process steps: it answers for itself, and for the checkpoint when it writes it.
LEMMA OneActs ==
    ASSUME TypeOK, IInv, OnePerson, NEW p \in Procs, Later, PendingInv',
           \A q \in Procs \ {p} : job'[q] = job[q],
           pending' \in {pending, Absent} \/ (job[p].pc # "idle" /\ job[p].cmd \in Checkpoints),
           JobInv(p, job[p])'
    PROVE  IInv'
<1>1. ASSUME NEW q \in Procs, q # p
      PROVE  JobInv(q, job[q])'
  <2>1. job'[q] = job[q]
    BY <1>1
  <2>2. CASE pending' \in {pending, Absent}
    BY <2>1, <2>2, OtherOn
  <2>3. CASE job[p].pc # "idle" /\ job[p].cmd \in Checkpoints
    <3>1. Shape(p, job[p])
      BY <2>3 DEF IInv, JobInv
    <3>2. job[q].pc # "idle" => Shape(q, job[q])
      BY DEF IInv, JobInv
    <3>3. job[q].pc = "idle" \/ job[q].cmd \notin Checkpoints
      BY <1>1, <2>3, <3>1, <3>2 DEF Shape, OnePerson
    <3> QED BY <2>1, <3>3, OtherOn
  <2> QED BY <2>2, <2>3
<1> QED BY <1>1 DEF IInv

-----------------------------------------------------------------------------
(* Steps of one command.                                                   *)

\* The types of what is neither the checkpoint nor a command.
Rest ==
    /\ cookies \in Challenges \union {0, Other}
    /\ how \in Seq(Methods) /\ Len(how) <= MaxChallenges
    /\ accepted \subseteq 1 .. Len(how)
    /\ used \in 0 .. MaxCommands
    /\ crashes \in 0 .. MaxCrashes

\* It is untouched.
LEMMA RestOn ==
    ASSUME TypeOK, UNCHANGED <<cookies, remote, used, crashes>>
    PROVE  Rest' /\ Later
  BY SameMethods DEF TypeOK, Rest, remote

\* What a running command has.
LEMMA Running ==
    ASSUME TypeOK, IInv, NEW p \in Procs, job[p].pc # "idle"
    PROVE  /\ job[p] \in Job /\ pending \in Pending /\ PendingInv
           /\ Shape(p, job[p]) /\ Fits(job[p])
           /\ job[p].cmd \in Checkpoints => Holds(job[p])
           /\ job[p].cmd # "refresh" /\ job[p].mode # "stored" => job[p].cmd \in Checkpoints
<1>1. job[p] \in Job /\ pending \in Pending /\ JobInv(p, job[p]) /\ PendingInv
  BY DEF TypeOK, IInv
<1>2. Shape(p, job[p]) /\ Fits(job[p]) /\ (job[p].cmd \in Checkpoints => Holds(job[p]))
  BY <1>1 DEF JobInv
<1>3. job[p].cmd # "none"
  BY <1>2 DEF Shape
<1> QED BY <1>1, <1>2, <1>3, Fields DEF Shape, Checkpoints

\* A command that goes on without writing the checkpoint, but for clearing it.
LEMMA Acts ==
    ASSUME TypeOK, IInv, OnePerson, NEW p \in Procs, NEW j \in Job, Becomes(p, j),
           Rest', Later, pending' \in {pending, Absent}, JobInv(p, job[p])'
    PROVE  TypeOK' /\ IInv'
<1>1. /\ job' \in [Procs -> Job] /\ job'[p] = j
      /\ \A q \in Procs \ {p} : job'[q] = job[q]
  BY BecomesJob
<1>2. pending' \in Pending /\ PendingInv'
  BY PendingOn
<1>3. TypeOK'
  BY <1>1, <1>2 DEF TypeOK, Rest
<1> QED BY <1>1, <1>2, <1>3, OneActs

\* One that ends.
LEMMA EndActs ==
    ASSUME TypeOK, IInv, OnePerson, NEW p \in Procs, NEW r \in Results, End(p, r),
           Rest', Later, pending' \in {pending, Absent}
    PROVE  TypeOK' /\ IInv'
<1>1. Ended(r) \in Job /\ Ended(r).pc = "idle" /\ Becomes(p, Ended(r))
  BY EndedFields DEF End, Ended
<1>2. JobInv(p, job[p])'
  BY <1>1, BecomesJob DEF JobInv
<1> QED BY <1>1, <1>2, Acts

\* One that fails: `auth verify` has to look after its checkpoint.
LEMMA FailActs ==
    ASSUME TypeOK, IInv, OnePerson, NEW p \in Procs, job[p].pc # "idle", job[p].pc # "load",
           job[p].told = "none", Fail(p),
           Rest', Later, UNCHANGED how, pending' \in {pending, Absent},
           Expired(job[p].page) /\ job[p].hops < Hops => pending'.begin = 0
    PROVE  TypeOK' /\ IInv'
<1>1. CASE job[p].mode = "verify"
  <2> DEFINE j == At(job[p], "reload")
  <2>1. job[p] \in Job /\ "reload" \in Places /\ Becomes(p, j)
    BY <1>1, GotoBecomes DEF Fail, TypeOK, Places
  <2>2. /\ j \in Job /\ j.pc = "reload" /\ j.cmd = job[p].cmd /\ j.mode = job[p].mode
        /\ j.ch = job[p].ch /\ j.tok = job[p].tok /\ j.snap = job[p].snap
        /\ j.page = job[p].page /\ j.hops = job[p].hops /\ j.told = job[p].told
    BY <2>1, AtFields
  <2> HIDE DEF j
  <2>3. job'[p] = j
    BY <2>1, <2>2, BecomesJob
  <2>4. /\ Shape(p, job[p]) /\ Fits(job[p])
        /\ job[p].cmd \in Checkpoints => Holds(job[p])
    BY Running
  <2>5. Shape(p, job[p])'
    BY <1>1, <2>2, <2>3, <2>4 DEF Shape
  <2>6. Fits(job[p])'
    BY <2>2, <2>3, <2>4 DEF Fits
  <2>7. job[p].cmd \in Checkpoints => Holds(job[p])'
    BY <1>1, <2>2, <2>3, <2>4, IdleFields DEF Holds
  <2>8. JobInv(p, job[p])'
    BY <2>2, <2>3, <2>5, <2>6, <2>7 DEF JobInv
  <2> QED BY <2>1, <2>2, <2>8, Acts
<1>2. CASE job[p].mode # "verify"
  BY <1>2, EndActs DEF Fail, Results
<1> QED BY <1>1, <1>2

\* One that moves on, and knows of the checkpoint what it has to there.
LEMMA MoveActs ==
    ASSUME TypeOK, IInv, OnePerson, NEW p \in Procs, job[p].pc # "idle",
           NEW place \in Places, Goto(p, place), Rest', UNCHANGED how,
           pending' \in {pending, Absent}, Shape(p, At(job[p], place)),
           job[p].cmd \in Checkpoints => Holds(At(job[p], place))
    PROVE  TypeOK' /\ IInv'
<1> DEFINE j == At(job[p], place)
<1>1. job[p] \in Job /\ j \in Job /\ Becomes(p, j) /\ j.cmd = job[p].cmd /\ j.ch = job[p].ch
  BY GotoBecomes, AtFields DEF TypeOK
<1>2. Fits(job[p])
  BY Running
<1>3. job'[p] = j
  BY <1>1, BecomesJob
<1>4. Shape(p, job[p])' /\ Fits(job[p])'
  <2>1. Fits(job[p])'
    BY <1>1, <1>2, <1>3 DEF Fits
  <2>2. Shape(p, j)
    OBVIOUS
  <2> HIDE DEF j
  <2> QED BY <1>3, <2>1, <2>2 DEF Shape
<1>5. job[p].cmd \in Checkpoints => Holds(job[p])'
  <2>1. job[p].cmd \in Checkpoints => Holds(j)
    OBVIOUS
  <2> HIDE DEF j
  <2>2. CASE pending' = pending
    BY <1>3, <2>1, <2>2 DEF Holds
  <2>3. CASE pending' = Absent
    BY <1>3, <2>1, <2>3, IdleFields DEF Holds
  <2> QED BY <2>2, <2>3
<1> HIDE DEF j
<1>6. JobInv(p, job[p])'
  BY <1>1, <1>3, <1>4, <1>5 DEF JobInv
<1> QED BY <1>1, <1>6, SameMethods, Acts

-----------------------------------------------------------------------------
(* The commands begin.                                                     *)

\* A command begins where it does, with nothing in hand.
Fresh(c, mode, place) == [Idle EXCEPT !.cmd = c, !.mode = mode, !.pc = place]

\* Its fields.
LEMMA FreshFields ==
    ASSUME NEW c \in {"login", "defer", "app", "verify", "stored", "auto"},
           NEW mode \in {"fresh", "verify", "stored"}, NEW place \in Places
    PROVE  /\ Fresh(c, mode, place) \in Job
           /\ Fresh(c, mode, place).cmd = c /\ Fresh(c, mode, place).mode = mode
           /\ Fresh(c, mode, place).pc = place /\ Fresh(c, mode, place).ch = 0
           /\ Fresh(c, mode, place).tok = 0 /\ Fresh(c, mode, place).page = {}
           /\ Fresh(c, mode, place).told = "none"
  BY IdleFields DEF Fresh, Job

\* What every start has in common.
LEMMA StartsRest ==
    ASSUME TypeOK, NEW p \in Procs, NEW c, Starts(p, c)
    PROVE  Rest' /\ Later /\ UNCHANGED pending /\ job[p].pc = "idle" /\ c \in Commands[p]
<1>1. /\ used < MaxCommands /\ used' = used + 1
      /\ UNCHANGED <<pending, cookies, remote, crashes>>
      /\ job[p].pc = "idle" /\ c \in Commands[p]
  BY DEF Starts
<1>2. used' \in 0 .. MaxCommands
  BY <1>1, SizeAssumption DEF TypeOK
<1> QED BY <1>1, <1>2, SameMethods DEF TypeOK, Rest, remote

\* A command with nothing in hand may begin there.
LEMMA FreshActs ==
    ASSUME TypeOK, IInv, OnePerson, NEW p \in Procs,
           NEW c \in {"login", "defer", "app", "verify", "stored", "auto"},
           NEW mode \in {"fresh", "verify", "stored"},
           NEW place \in {"plan", "clear", "password", "load"},
           Starts(p, c), Becomes(p, Fresh(c, mode, place)),
           mode = "stored" <=> c \in {"stored", "auto"},
           mode = "stored" => place = "password",
           mode = "verify" => c = "verify" /\ place = "load",
           mode = "fresh" => place \in {"plan", "clear"},
           place = "plan" => c = "app"
    PROVE  TypeOK' /\ IInv'
<1> DEFINE j == Fresh(c, mode, place)
<1>0. place \in Places
  BY DEF Places
<1>1. /\ j \in Job /\ j.cmd = c /\ j.mode = mode /\ j.pc = place /\ j.ch = 0 /\ j.tok = 0
      /\ j.page = {} /\ j.told = "none"
  BY <1>0, FreshFields
<1>2. Becomes(p, j)
  OBVIOUS
<1> HIDE DEF j
<1>3. job'[p] = j
  BY <1>1, <1>2, BecomesJob
<1>4. Rest' /\ Later /\ UNCHANGED pending /\ c \in Commands[p]
  BY StartsRest
<1>5. Shape(p, job[p])' /\ Fits(job[p])'
  BY <1>1, <1>3, <1>4 DEF Shape, Fits, Expired, Checkpoints, Later
<1>6. c \in Checkpoints => Holds(job[p])'
  BY <1>1, <1>3 DEF Holds, Checkpoints
<1>7. JobInv(p, job[p])'
  BY <1>1, <1>3, <1>5, <1>6 DEF JobInv
<1>8. pending' \in {pending, Absent}
  BY <1>4
<1> QED BY <1>1, <1>2, <1>4, <1>7, <1>8, Acts

\* Nobody said yet how.
LEMMA FreshLogin ==
    ASSUME NEW c, NEW place
    PROVE  [Idle EXCEPT !.cmd = c, !.pc = place] = Fresh(c, "fresh", place)
<1>1. /\ Fresh(c, "fresh", place) = [[Idle EXCEPT !.cmd = c] EXCEPT !.pc = place]
  BY IdleFields DEF Fresh, Idle
<1> QED BY <1>1

\* `auth login`, with a person or without.
LEMMA LoginStep ==
    ASSUME TypeOK, IInv, OnePerson, NEW p \in Procs, Login(p)
    PROVE  TypeOK' /\ IInv'
<1>1. PICK c \in {"login", "defer", "app"} :
        /\ Starts(p, c)
        /\ Becomes(p, [Idle EXCEPT !.cmd = c, !.pc = IF c = "app" THEN "plan" ELSE "clear"])
  BY DEF Login
<1> DEFINE place == IF c = "app" THEN "plan" ELSE "clear"
<1>2. place \in {"plan", "clear"} /\ Becomes(p, [Idle EXCEPT !.cmd = c, !.pc = place])
  BY <1>1
<1> HIDE DEF place
<1>3. Becomes(p, Fresh(c, "fresh", place))
  BY <1>2, FreshLogin
<1>4. place = "plan" => c = "app"
  BY DEF place
<1> QED BY <1>1, <1>2, <1>3, <1>4, FreshActs

\* ... with the stored authenticator, or by the client itself.
LEMMA StoredStep ==
    ASSUME TypeOK, IInv, OnePerson, NEW p \in Procs, LoginStored(p) \/ Renew(p)
    PROVE  TypeOK' /\ IInv'
<1>1. PICK c \in {"stored", "auto"} :
        Starts(p, c) /\ Becomes(p, Fresh(c, "stored", "password"))
  BY DEF LoginStored, Renew, Fresh, Idle
<1> QED BY <1>1, FreshActs

\* `auth verify`.
LEMMA VerifyStep ==
    ASSUME TypeOK, IInv, OnePerson, NEW p \in Procs, Verify(p)
    PROVE  TypeOK' /\ IInv'
<1>1. Starts(p, "verify")
  BY DEF Verify
<1>2. CASE Becomes(p, [Idle EXCEPT !.cmd = "verify", !.mode = "verify", !.pc = "load"])
  BY <1>1, <1>2, FreshActs DEF Fresh
<1>3. CASE End(p, IF pending.begin = 0 THEN "failed" ELSE "store")
  BY <1>1, <1>3, StartsRest, EndActs DEF Results
<1> QED BY <1>2, <1>3 DEF Verify

\* `auth refresh`.
LEMMA RefreshStep ==
    ASSUME TypeOK, IInv, OnePerson, NEW p \in Procs, Refresh(p)
    PROVE  TypeOK' /\ IInv'
<1> DEFINE j == [Idle EXCEPT !.cmd = "refresh", !.tok = Other, !.pc = "persist"]
<1>1. Starts(p, "refresh") /\ (Becomes(p, j) \/ End(p, "failed"))
  BY DEF Refresh
<1>2. Rest' /\ Later /\ UNCHANGED pending /\ "refresh" \in Commands[p]
  BY <1>1, StartsRest
<1>3. CASE Becomes(p, j)
  <2>1. /\ j \in Job /\ j.cmd = "refresh" /\ j.mode = "fresh" /\ j.pc = "persist" /\ j.ch = 0
        /\ j.page = {} /\ j.told = "none"
    BY IdleFields DEF Job, Places
  <2> HIDE DEF j
  <2>2. job'[p] = j
    BY <1>3, <2>1, BecomesJob
  <2>3. Shape(p, job[p])' /\ Fits(job[p])'
    BY <1>2, <2>1, <2>2 DEF Shape, Fits, Expired, Checkpoints, Later
  <2>4. JobInv(p, job[p])'
    BY <2>1, <2>2, <2>3 DEF JobInv, Checkpoints
  <2> QED BY <1>2, <1>3, <2>1, <2>4, Acts
<1>4. CASE End(p, "failed")
  BY <1>2, <1>4, EndActs DEF Results
<1> QED BY <1>1, <1>3, <1>4

\* A code of the app resumes a checkpoint of the app.
LEMMA PlanLoginStep ==
    ASSUME TypeOK, IInv, OnePerson, NEW p \in Procs, PlanLogin(p)
    PROVE  TypeOK' /\ IInv'
<1>1. /\ job[p].pc = "plan" /\ UNCHANGED <<pending, cookies, remote, used, crashes>>
      /\ \/ Resumes(pending) /\ job' = [job EXCEPT ![p].mode = "verify", ![p].pc = "load"]
         \/ Goto(p, "clear")
  BY DEF PlanLogin
<1>2. Rest' /\ Later /\ UNCHANGED <<pending, how>>
  BY <1>1, RestOn DEF remote
<1>3. /\ job[p] \in Job /\ Shape(p, job[p]) /\ Fits(job[p])
  BY <1>1, Running
<1>4. CASE Resumes(pending) /\ job' = [job EXCEPT ![p].mode = "verify", ![p].pc = "load"]
  <2> DEFINE j == [job[p] EXCEPT !.mode = "verify", !.pc = "load"]
  <2>0. job[p] \in Job /\ "load" \in Places
    BY <1>3 DEF Places
  <2>1. /\ j \in Job /\ j.cmd = job[p].cmd /\ j.mode = "verify" /\ j.pc = "load"
        /\ j.ch = job[p].ch /\ j.tok = job[p].tok /\ j.page = job[p].page
        /\ j.told = job[p].told
    BY <2>0 DEF Job
  <2>2. Becomes(p, j)
    BY <1>4 DEF TypeOK, Becomes
  <2> HIDE DEF j
  <2>3. job'[p] = j
    BY <2>1, <2>2, BecomesJob
  <2>4. job[p].cmd \in {"app", "verify"}
    BY <1>1, <1>3 DEF Shape
  <2>5. Shape(p, job[p])' /\ Fits(job[p])'
    BY <1>1, <1>2, <1>3, <2>1, <2>3, <2>4 DEF Shape, Fits, Checkpoints
  <2>6. Holds(job[p])'
    BY <1>2, <1>4, <2>1, <2>3 DEF Holds, Resumes
  <2>7. JobInv(p, job[p])'
    BY <2>5, <2>6 DEF JobInv
  <2> QED BY <1>2, <2>1, <2>2, <2>7, Acts
<1>5. CASE Goto(p, "clear")
  <2>1. "clear" \in Places /\ At(job[p], "clear").pc = "clear"
        /\ Shape(p, At(job[p], "clear")) /\ Holds(At(job[p], "clear"))
    <3> DEFINE j == At(job[p], "clear")
    <3>1. /\ "clear" \in Places /\ j.pc = "clear" /\ j.cmd = job[p].cmd /\ j.mode = job[p].mode
          /\ j.ch = job[p].ch /\ j.tok = job[p].tok /\ j.page = job[p].page
          /\ j.told = job[p].told
      BY <1>3, AtFields DEF Places
    <3> HIDE DEF j
    <3> QED BY <1>1, <1>3, <3>1 DEF Shape, Holds, j
  <2> QED BY <1>1, <1>2, <1>5, <2>1, MoveActs
<1> QED BY <1>1, <1>4, <1>5

-----------------------------------------------------------------------------
(* The way to the challenge.                                               *)

\* The places of a sign-in where the checkpoint is neither read for the first time nor
\* written.
Between == {"begin", "lookup", "process", "kmsi", "acs", "finish", "persist", "supersede"}

\* A command that moves on between them.
LEMMA PlainMove ==
    ASSUME TypeOK, IInv, OnePerson, NEW p \in Procs,
           job[p].pc \notin {"idle", "plan", "clear", "load", "reload", "discard"},
           NEW place \in Between, Goto(p, place), Rest', UNCHANGED how,
           pending' \in {pending, Absent},
           place = "begin" => job[p].mode # "verify" /\ job[p].ch = 0 /\ job[p].tok = 0,
           place \in {"lookup", "finish"} => job[p].mode # "stored",
           place = "supersede" => job[p].cmd \notin Checkpoints,
           job[p].cmd = "refresh" => place \in {"persist", "supersede"},
           ~Expired(job[p].page)
    PROVE  TypeOK' /\ IInv'
<1> DEFINE j == At(job[p], place)
<1>1. /\ job[p] \in Job /\ Shape(p, job[p])
      /\ job[p].cmd \in Checkpoints => Holds(job[p])
  BY Running
<1>2. place \in Places
  BY DEF Between, Places
<1>3. /\ j.pc = place /\ j.cmd = job[p].cmd /\ j.mode = job[p].mode /\ j.ch = job[p].ch
      /\ j.tok = job[p].tok /\ j.snap = job[p].snap /\ j.page = job[p].page
      /\ j.hops = job[p].hops /\ j.told = job[p].told
  BY <1>1, <1>2, AtFields
<1> HIDE DEF j
<1>4. Shape(p, j)
  BY <1>1, <1>3 DEF Shape, Between
<1>5. job[p].cmd \in Checkpoints => Holds(j)
  BY <1>1, <1>3 DEF Holds, Between
<1> QED BY <1>2, <1>4, <1>5, MoveActs DEF j

\* ClearPending: a new sign-in has no checkpoint.
LEMMA ClearPendingStep ==
    ASSUME TypeOK, IInv, OnePerson, NEW p \in Procs, ClearPending(p)
    PROVE  TypeOK' /\ IInv'
<1> DEFINE j == At(job[p], "password")
<1>1. /\ job[p].pc = "clear" /\ pending' = Absent /\ Goto(p, "password")
      /\ UNCHANGED <<cookies, remote, used, crashes>>
  BY DEF ClearPending
<1>2. Rest' /\ Later
  BY <1>1, RestOn
<1>3. job[p] \in Job /\ Shape(p, job[p]) /\ Fits(job[p]) /\ "password" \in Places
  BY <1>1, Running DEF Places
<1>4. /\ j \in Job /\ j.pc = "password" /\ j.cmd = job[p].cmd /\ j.mode = job[p].mode
      /\ j.ch = job[p].ch /\ j.tok = job[p].tok /\ j.page = job[p].page
      /\ j.told = job[p].told
  BY <1>3, AtFields
<1>5. Becomes(p, j)
  BY <1>1, GotoBecomes
<1> HIDE DEF j
<1>6. job'[p] = j
  BY <1>4, <1>5, BecomesJob
<1>7. Shape(p, job[p])' /\ Fits(job[p])'
  BY <1>1, <1>2, <1>3, <1>4, <1>6 DEF Shape, Fits, Later
<1>8. Holds(job[p])'
  BY <1>1, <1>3, <1>4, <1>6, IdleFields DEF Holds, Shape
<1>9. JobInv(p, job[p])'
  BY <1>7, <1>8 DEF JobInv
<1> QED BY <1>1, <1>2, <1>4, <1>5, <1>9, Acts

\* PasswordStage.
LEMMA PasswordStageStep ==
    ASSUME TypeOK, IInv, OnePerson, NEW p \in Procs, PasswordStage(p)
    PROVE  TypeOK' /\ IInv'
<1>1. /\ job[p].pc = "password" /\ UNCHANGED <<pending, cookies, remote, used, crashes>>
      /\ \/ Fail(p)
         \/ Goto(p, "begin")
         \/ job' = [job EXCEPT ![p].pc = "acs", ![p].tok = Other]
  BY DEF PasswordStage
<1>2. Rest' /\ Later /\ UNCHANGED <<pending, how>>
  BY <1>1, RestOn DEF remote
<1>3. /\ job[p] \in Job /\ Shape(p, job[p]) /\ Fits(job[p])
      /\ job[p].cmd \in Checkpoints => Holds(job[p])
  BY <1>1, Running
<1>4. /\ job[p].mode # "verify" /\ job[p].ch = 0 /\ job[p].tok = 0 /\ ~Expired(job[p].page)
      /\ job[p].told = "none" /\ job[p].cmd # "refresh"
  BY <1>1, <1>3 DEF Shape
<1>5. CASE Fail(p)
  BY <1>1, <1>2, <1>4, <1>5, FailActs
<1>6. CASE Goto(p, "begin")
  BY <1>1, <1>2, <1>4, <1>6, PlainMove DEF Between
<1>7. CASE job' = [job EXCEPT ![p].pc = "acs", ![p].tok = Other]
  <2> DEFINE j == [job[p] EXCEPT !.pc = "acs", !.tok = Other]
  <2>1. "acs" \in Places
    BY DEF Places
  <2>2. /\ j \in Job /\ j.cmd = job[p].cmd /\ j.mode = job[p].mode /\ j.pc = "acs"
        /\ j.ch = job[p].ch /\ j.page = job[p].page /\ j.told = job[p].told
    BY <1>3, <2>1 DEF Job
  <2>3. Becomes(p, j)
    BY <1>7 DEF TypeOK, Becomes
  <2> HIDE DEF j
  <2>4. job'[p] = j
    BY <2>2, <2>3, BecomesJob
  <2>5. Shape(p, job[p])' /\ Fits(job[p])'
    BY <1>1, <1>2, <1>3, <1>4, <2>2, <2>4 DEF Shape, Fits
  <2>6. job[p].cmd \in Checkpoints => Holds(job[p])'
    BY <1>1, <1>2, <1>3, <1>4, <2>2, <2>4 DEF Holds
  <2>7. JobInv(p, job[p])'
    BY <2>2, <2>4, <2>5, <2>6 DEF JobInv
  <2> QED BY <1>2, <2>2, <2>3, <2>7, Acts
<1> QED BY <1>1, <1>5, <1>6, <1>7

\* A challenge is added.
LEMMA AppendLater ==
    ASSUME TypeOK, Len(how) + 1 <= MaxChallenges, NEW m \in Methods, how' = Append(how, m)
    PROVE  /\ how' \in Seq(Methods) /\ Len(how') = Len(how) + 1 /\ Later
           /\ how'[Len(how) + 1] = m /\ Len(how') <= MaxChallenges
           /\ accepted \subseteq 1 .. Len(how')
           /\ Len(how) + 1 \in Challenges
<1>1. how \in Seq(Methods) /\ Len(how) \in Nat /\ MaxChallenges \in Nat
  BY Numbers DEF TypeOK
<1>2. /\ how' \in Seq(Methods) /\ Len(how') = Len(how) + 1
      /\ how'[Len(how) + 1] = m /\ \A n \in 1 .. Len(how) : how'[n] = how[n]
  BY <1>1
<1>3. accepted \subseteq 1 .. Len(how')
  BY <1>1, <1>2 DEF TypeOK
<1> QED BY <1>1, <1>2, <1>3 DEF Later, Challenges

\* BeginAuth: the challenge is of the app when the code is.
LEMMA BeginAuthStep ==
    ASSUME TypeOK, IInv, OnePerson, NEW p \in Procs, BeginAuth(p)
    PROVE  TypeOK' /\ IInv'
<1>1. job[p].pc = "begin" /\ UNCHANGED <<pending, cookies, accepted, used, crashes>>
  BY DEF BeginAuth
<1>2. /\ job[p] \in Job /\ Shape(p, job[p]) /\ Fits(job[p])
      /\ job[p].cmd \in Checkpoints => Holds(job[p])
  BY <1>1, Running
<1>3. /\ job[p].mode # "verify" /\ job[p].ch = 0 /\ job[p].tok = 0 /\ ~Expired(job[p].page)
      /\ job[p].told = "none" /\ job[p].cmd # "refresh"
  BY <1>1, <1>2 DEF Shape
<1>4. CASE Fail(p) /\ UNCHANGED how
  <2>1. Rest' /\ Later
    BY <1>1, <1>4, RestOn DEF remote
  <2> QED BY <1>1, <1>3, <1>4, <2>1, FailActs
<1>5. CASE ~(Fail(p) /\ UNCHANGED how)
  <2> DEFINE n == Len(how) + 1
             place == IF job[p].cmd = "defer" THEN "defer" ELSE "end"
             j == [job[p] EXCEPT !.ch = n, !.pc = place]
  <2>1. PICK m \in Choices(job[p].cmd) : how' = Append(how, m)
    BY <1>5 DEF BeginAuth
  <2>2. n <= MaxChallenges /\ job' = [job EXCEPT ![p].ch = n, ![p].pc = place]
    BY <1>5 DEF BeginAuth
  <2>3. m \in Methods /\ (job[p].cmd \in {"app", "stored", "auto"} => m = "app")
    BY DEF Choices
  <2>4. /\ how' \in Seq(Methods) /\ Len(how') = n /\ Later /\ how'[n] = m
        /\ Len(how') <= MaxChallenges /\ accepted \subseteq 1 .. Len(how')
        /\ n \in Challenges
    BY <2>1, <2>2, <2>3, AppendLater
  <2>5. Rest'
    BY <1>1, <2>4 DEF Rest, TypeOK
  <2>6. place \in Places /\ place \in {"defer", "end"}
        /\ (place = "defer" => job[p].cmd = "defer")
    BY DEF Places
  <2> HIDE DEF n, place
  <2>7. /\ j \in Job /\ j.cmd = job[p].cmd /\ j.mode = job[p].mode /\ j.pc = place
        /\ j.ch = n /\ j.tok = job[p].tok /\ j.page = job[p].page /\ j.told = job[p].told
    BY <1>2, <2>4, <2>6 DEF Job
  <2>8. Becomes(p, j)
    BY <2>2 DEF TypeOK, Becomes
  <2> HIDE DEF j
  <2>9. job'[p] = j
    BY <2>7, <2>8, BecomesJob
  <2>10. n # 0 /\ n <= Len(how')
    BY <2>4, Numbers
  <2>11. Shape(p, job[p])'
    BY <1>1, <1>2, <1>3, <2>6, <2>7, <2>9, <2>10 DEF Shape
  <2>12. Fits(job[p])'
    BY <2>3, <2>4, <2>7, <2>9 DEF Fits
  <2>13. job[p].cmd \in Checkpoints => Holds(job[p])'
    BY <1>1, <1>2, <1>3, <2>6, <2>7, <2>9 DEF Holds
  <2>14. JobInv(p, job[p])'
    BY <2>7, <2>9, <2>11, <2>12, <2>13 DEF JobInv
  <2> QED BY <1>1, <2>4, <2>5, <2>7, <2>8, <2>14, Acts
<1> QED BY <1>4, <1>5

\* DeferToPending: the checkpoint is of the challenge just begun.
LEMMA DeferToPendingStep ==
    ASSUME TypeOK, IInv, OnePerson, NEW p \in Procs, DeferToPending(p)
    PROVE  TypeOK' /\ IInv'
<1>1. /\ job[p].pc = "defer" /\ UNCHANGED <<cookies, remote, used, crashes>>
      /\ \/ pending' = [Absent EXCEPT !.begin = job[p].ch] /\ End(p, "pending")
         \/ End(p, "store") /\ UNCHANGED pending
  BY DEF DeferToPending
<1>2. Rest' /\ Later /\ UNCHANGED how
  BY <1>1, RestOn DEF remote
<1>3. CASE End(p, "store") /\ UNCHANGED pending
  BY <1>2, <1>3, EndActs DEF Results
<1>4. CASE pending' = [Absent EXCEPT !.begin = job[p].ch] /\ End(p, "pending")
  <2>1. job[p] \in Job /\ Shape(p, job[p])
    BY <1>1, Running
  <2>2. /\ job[p].ch \in Challenges \union {0} /\ job[p].ch <= Len(how)
        /\ job[p].cmd = "defer"
    BY <1>1, <2>1, Fields DEF Shape
  <2>3. /\ pending' \in Pending /\ pending'.begin = job[p].ch
        /\ pending'.end = 0 /\ pending'.kmsi = 0
    BY <1>4, <2>2 DEF Absent, Pending
  <2>4. PendingInv'
    BY <1>2, <2>2, <2>3 DEF PendingInv
  <2>5. Ended("pending") \in Job /\ Ended("pending").pc = "idle" /\ Becomes(p, Ended("pending"))
    BY <1>4, EndedFields DEF End, Ended, Results
  <2>6. /\ job' \in [Procs -> Job] /\ job'[p].pc = "idle"
        /\ \A q \in Procs \ {p} : job'[q] = job[q]
    BY <2>5, BecomesJob
  <2>7. TypeOK'
    BY <1>2, <2>3, <2>6 DEF TypeOK, Rest
  <2>8. JobInv(p, job[p])'
    BY <2>6 DEF JobInv
  <2> QED BY <1>1, <1>2, <2>2, <2>4, <2>6, <2>7, <2>8, OneActs DEF Checkpoints
<1> QED BY <1>1, <1>3, <1>4

\* LoadPending: `auth verify` goes on with what the checkpoint holds.
LEMMA LoadPendingStep ==
    ASSUME TypeOK, IInv, OnePerson, NEW p \in Procs, LoadPending(p)
    PROVE  TypeOK' /\ IInv'
<1> DEFINE place == CASE pending.kmsi # 0 -> "kmsi"
                      [] pending.kmsi = 0 /\ pending.end # 0 -> "process"
                      [] OTHER -> "end"
           j == [job[p] EXCEPT !.ch = pending.begin, !.tok = pending.end, !.pc = place]
<1>1. /\ job[p].pc = "load" /\ UNCHANGED <<pending, cookies, remote, used, crashes>>
      /\ \/ /\ pending.begin # 0
            /\ job' = [job EXCEPT ![p].ch = pending.begin, ![p].tok = pending.end,
                                  ![p].pc = place]
         \/ End(p, IF pending.begin = 0 THEN "failed" ELSE "store")
  BY DEF LoadPending
<1>2. Rest' /\ Later /\ UNCHANGED <<pending, how>>
  BY <1>1, RestOn DEF remote
<1>3. CASE End(p, IF pending.begin = 0 THEN "failed" ELSE "store")
  BY <1>2, <1>3, EndActs DEF Results
<1>4. CASE /\ pending.begin # 0
           /\ job' = [job EXCEPT ![p].ch = pending.begin, ![p].tok = pending.end,
                                 ![p].pc = place]
  <2>1. /\ job[p] \in Job /\ Shape(p, job[p]) /\ pending \in Pending /\ PendingInv
        /\ job[p].cmd \in Checkpoints => Holds(job[p])
        /\ job[p].cmd # "refresh" /\ job[p].mode # "stored" => job[p].cmd \in Checkpoints
    BY <1>1, Running
  <2>2. place \in Places /\ place \in {"kmsi", "process", "end"}
    BY DEF Places
  <2> HIDE DEF place
  <2>3. /\ pending.begin \in Challenges \union {0} /\ pending.end \in Challenges \union {0}
    BY <2>1, PendingFields
  <2>4. /\ j \in Job /\ j.cmd = job[p].cmd /\ j.mode = job[p].mode /\ j.pc = place
        /\ j.ch = pending.begin /\ j.tok = pending.end /\ j.page = job[p].page
        /\ j.told = job[p].told
    BY <2>1, <2>2, <2>3 DEF Job
  <2>5. Becomes(p, j)
    BY <1>4 DEF TypeOK, Becomes
  <2> HIDE DEF j
  <2>6. job'[p] = j
    BY <2>4, <2>5, BecomesJob
  <2>7. job[p].mode # "stored" /\ job[p].cmd \in Checkpoints /\ Holds(job[p])
        /\ pending.begin <= Len(how) /\ pending.end \in {0, pending.begin}
    BY <1>1, <2>1 DEF Shape, PendingInv
  <2>8. Shape(p, job[p])'
    BY <1>1, <1>2, <1>4, <2>1, <2>2, <2>4, <2>6, <2>7 DEF Shape
  <2>9. Fits(job[p])'
    BY <1>1, <1>2, <1>4, <2>1, <2>4, <2>6, <2>7 DEF Fits, Holds, Shape
  <2>10. Holds(job[p])'
    BY <1>1, <1>2, <1>4, <2>2, <2>4, <2>6, <2>7 DEF Holds
  <2>11. JobInv(p, job[p])'
    BY <2>8, <2>9, <2>10 DEF JobInv
  <2> QED BY <1>2, <2>4, <2>5, <2>11, Acts
<1> QED BY <1>1, <1>3, <1>4

-----------------------------------------------------------------------------
(* EndAuth and its tokens.                                                 *)

\* A command that goes on with something else in hand, the checkpoint untouched.
LEMMA HandActs ==
    ASSUME TypeOK, IInv, OnePerson, NEW p \in Procs,
           job[p].pc \notin {"idle", "plan", "clear", "load", "reload", "discard"},
           NEW j \in Job, Becomes(p, j), Rest', Later, UNCHANGED <<pending, how>>,
           j.cmd = job[p].cmd, j.mode = job[p].mode, j.ch = job[p].ch, j.told = job[p].told,
           j.pc \in {"walk", "end", "process", "merge", "kmsi", "write"},
           j.pc = "walk" \/ ~Expired(j.page),
           j.pc \in {"merge", "write"} => job[p].mode # "stored",
           j.pc = "end" => job[p].ch # 0, job[p].cmd # "refresh",
           job[p].mode = "verify" => j.tok \in {0, job[p].ch},
           j.pc = "write" => job[p].mode = "verify" /\ j.snap = pending /\ pending.begin # 0
    PROVE  TypeOK' /\ IInv'
<1>1. /\ job[p] \in Job /\ Shape(p, job[p]) /\ Fits(job[p]) /\ PendingInv
      /\ job[p].cmd \in Checkpoints => Holds(job[p])
  BY Running
<1>2. job'[p] = j
  BY BecomesJob
<1>3. Shape(p, job[p])'
  BY <1>1, <1>2 DEF Shape
<1>4. Fits(job[p])'
  BY <1>1, <1>2 DEF Fits
<1>5. job[p].cmd \in Checkpoints => Holds(job[p])'
  BY <1>1, <1>2 DEF Holds, PendingInv
<1>6. JobInv(p, job[p])'
  BY <1>2, <1>3, <1>4, <1>5 DEF JobInv
<1> QED BY <1>6, Acts

\* What is used of a command after its challenge has begun.
LEMMA Under ==
    ASSUME TypeOK, IInv, NEW p \in Procs,
           job[p].pc \notin {"idle", "plan", "clear", "load", "walk", "reload", "discard",
                             "persist", "supersede"}
    PROVE  /\ job[p] \in Job /\ job[p].told = "none" /\ ~Expired(job[p].page)
           /\ job[p].cmd # "refresh" /\ job[p].ch \in Nat /\ job[p].ch <= Len(how)
           /\ job[p].mode = "verify" => job[p].tok \in {0, job[p].ch}
           /\ job[p].mode \in {"fresh", "verify", "stored"}
<1>1. /\ job[p] \in Job /\ Shape(p, job[p])
      /\ job[p].cmd \in Checkpoints => Holds(job[p])
  BY Running
<1>2. job[p].mode = "verify" => job[p].cmd \in Checkpoints
  BY <1>1 DEF Shape, Checkpoints
<1>3. job[p].ch \in Nat /\ job[p].mode \in {"fresh", "verify", "stored"}
  BY <1>1, Fields, Numbers
<1> QED BY <1>1, <1>2, <1>3 DEF Shape, Holds

\* EndAuth: one exchange of the code.
LEMMA EndAuthStep ==
    ASSUME TypeOK, IInv, OnePerson, NEW p \in Procs, EndAuth(p)
    PROVE  TypeOK' /\ IInv'
<1>1. job[p].pc = "end" /\ UNCHANGED <<pending, cookies, how, used, crashes>>
  BY DEF EndAuth
<1>2. /\ job[p] \in Job /\ job[p].told = "none" /\ ~Expired(job[p].page)
      /\ job[p].cmd # "refresh" /\ job[p].ch \in Nat /\ job[p].ch <= Len(how)
      /\ job[p].ch # 0
  BY <1>1, Under, Running DEF Shape
<1>3. accepted' \subseteq 1 .. Len(how)
  <2>1. Len(how) \in Nat /\ accepted \subseteq 1 .. Len(how)
    BY DEF TypeOK
  <2>2. job[p].ch \in 1 .. Len(how)
    BY <1>2, <2>1
  <2> QED BY <2>1, <2>2 DEF EndAuth
<1>4. Rest' /\ Later
  BY <1>1, <1>3, SameMethods DEF Rest, TypeOK
<1>5. CASE Fail(p)
  BY <1>1, <1>2, <1>4, <1>5, FailActs
<1>6. CASE Abort(p)
  BY <1>1, <1>4, <1>6, EndActs DEF Abort, Results
<1>7. CASE Checkpointing(job[p]) /\ Goto(p, "lookup")
  BY <1>1, <1>2, <1>4, <1>7, PlainMove DEF Between, Checkpointing
<1>8. CASE job[p].polls + 1 < Polls /\ job' = [job EXCEPT ![p].polls = @ + 1]
  <2> DEFINE n == job[p].polls + 1
             j == [job[p] EXCEPT !.polls = n]
  <2>1. n \in 0 .. Polls
    BY <1>2, <1>8, Fields, SizeAssumption
  <2> HIDE DEF n
  <2>2. /\ j \in Job /\ j.cmd = job[p].cmd /\ j.mode = job[p].mode /\ j.pc = job[p].pc
        /\ j.ch = job[p].ch /\ j.tok = job[p].tok /\ j.page = job[p].page
        /\ j.told = job[p].told
    BY <1>2, <2>1 DEF Job
  <2>3. Becomes(p, j)
    BY <1>8 DEF TypeOK, Becomes, n
  <2> HIDE DEF j
  <2> QED BY <1>1, <1>2, <1>4, <2>2, <2>3, HandActs, Under
<1>9. CASE job' = [job EXCEPT ![p].tok = job[p].ch,
                       ![p].pc = IF Checkpointing(job[p]) THEN "merge" ELSE "process"]
  <2> DEFINE place == IF Checkpointing(job[p]) THEN "merge" ELSE "process"
             t == job[p].ch
             j == [job[p] EXCEPT !.tok = t, !.pc = place]
  <2>1. place \in Places /\ place \in {"merge", "process"}
        /\ (place = "merge" => job[p].mode # "stored")
    BY DEF Places, Checkpointing
  <2>2. t \in Challenges \union {0, Other} /\ job' = [job EXCEPT ![p].tok = t, ![p].pc = place]
    BY <1>2, <1>9, Fields
  <2>3. t = job[p].ch
    OBVIOUS
  <2> HIDE DEF place, t
  <2>4. /\ j \in Job /\ j.cmd = job[p].cmd /\ j.mode = job[p].mode /\ j.pc = place
        /\ j.ch = job[p].ch /\ j.tok = t /\ j.page = job[p].page /\ j.told = job[p].told
    BY <1>2, <2>1, <2>2 DEF Job
  <2>5. Becomes(p, j)
    BY <2>2 DEF TypeOK, Becomes
  <2> HIDE DEF j
  <2> QED BY <1>1, <1>2, <1>4, <2>1, <2>3, <2>4, <2>5, HandActs
<1> QED BY <1>5, <1>6, <1>7, <1>8, <1>9 DEF EndAuth, Retry

\* LookUpTokens: the tokens of the checkpoint are those of the challenge.
LEMMA LookUpTokensStep ==
    ASSUME TypeOK, IInv, OnePerson, NEW p \in Procs, LookUpTokens(p)
    PROVE  TypeOK' /\ IInv'
<1>1. /\ job[p].pc = "lookup" /\ UNCHANGED <<pending, cookies, remote, used, crashes>>
      /\ \/ job' = [job EXCEPT ![p].tok = pending.end, ![p].pc = "process"]
         \/ Fail(p)
         \/ End(p, "store")
  BY DEF LookUpTokens
<1>2. Rest' /\ Later /\ UNCHANGED <<pending, how>>
  BY <1>1, RestOn DEF remote
<1>3. /\ job[p] \in Job /\ job[p].told = "none" /\ ~Expired(job[p].page)
      /\ job[p].cmd # "refresh"
  BY <1>1, Under
<1>4. CASE Fail(p)
  BY <1>1, <1>2, <1>3, <1>4, FailActs
<1>5. CASE End(p, "store")
  BY <1>2, <1>5, EndActs DEF Results
<1>6. CASE job' = [job EXCEPT ![p].tok = pending.end, ![p].pc = "process"]
  <2> DEFINE t == pending.end
             j == [job[p] EXCEPT !.tok = t, !.pc = "process"]
  <2>1. "process" \in Places /\ t \in Challenges \union {0, Other}
    BY PendingFields DEF Places, TypeOK
  <2>2. job[p].mode = "verify" => t \in {0, job[p].ch}
    <3>1. /\ Shape(p, job[p]) /\ (job[p].cmd \in Checkpoints => Holds(job[p])) /\ PendingInv
      BY <1>1, Running
    <3> QED BY <1>1, <3>1 DEF Shape, Holds, PendingInv, Checkpoints
  <2>3. job' = [job EXCEPT ![p].tok = t, ![p].pc = "process"]
    BY <1>6
  <2> HIDE DEF t
  <2>4. /\ j \in Job /\ j.cmd = job[p].cmd /\ j.mode = job[p].mode /\ j.pc = "process"
        /\ j.ch = job[p].ch /\ j.tok = t /\ j.page = job[p].page /\ j.told = job[p].told
    BY <1>3, <2>1 DEF Job
  <2>5. Becomes(p, j)
    BY <2>3 DEF TypeOK, Becomes
  <2> HIDE DEF j
  <2> QED BY <1>1, <1>2, <1>3, <2>2, <2>4, <2>5, HandActs
<1> QED BY <1>1, <1>4, <1>5, <1>6

\* MergeReads: the checkpoint it will write to is of its challenge.
LEMMA MergeReadsStep ==
    ASSUME TypeOK, IInv, OnePerson, NEW p \in Procs, MergeReads(p)
    PROVE  TypeOK' /\ IInv'
<1>1. /\ job[p].pc = "merge" /\ UNCHANGED <<pending, cookies, remote, used, crashes>>
      /\ \/ pending.begin # 0 /\ job' = [job EXCEPT ![p].snap = pending, ![p].pc = "write"]
         \/ Goto(p, AfterMerge(job[p]))
         \/ End(p, "store")
  BY DEF MergeReads
<1>2. Rest' /\ Later /\ UNCHANGED <<pending, how>>
  BY <1>1, RestOn DEF remote
<1>3. /\ job[p] \in Job /\ job[p].told = "none" /\ ~Expired(job[p].page)
      /\ job[p].cmd # "refresh" /\ (job[p].mode = "verify" => job[p].tok \in {0, job[p].ch})
      /\ job[p].mode \in {"fresh", "verify", "stored"}
  BY <1>1, Under
<1>4. CASE End(p, "store")
  BY <1>2, <1>4, EndActs DEF Results
<1>5. CASE Goto(p, AfterMerge(job[p]))
  <2>1. AfterMerge(job[p]) \in {"process", "kmsi"}
    BY DEF AfterMerge
  <2> QED BY <1>1, <1>2, <1>3, <1>5, <2>1, PlainMove DEF Between
<1>6. CASE pending.begin # 0 /\ job' = [job EXCEPT ![p].snap = pending, ![p].pc = "write"]
  <2> DEFINE j == [job[p] EXCEPT !.snap = pending, !.pc = "write"]
  <2>1. "write" \in Places /\ pending \in Pending
    BY DEF Places, TypeOK
  <2>2. job[p].mode = "verify"
    <3>1. Shape(p, job[p]) /\ (job[p].cmd \in Checkpoints => Holds(job[p]))
          /\ (job[p].cmd # "refresh" /\ job[p].mode # "stored" => job[p].cmd \in Checkpoints)
      BY <1>1, Running
    <3> QED BY <1>1, <1>3, <1>6, <3>1 DEF Shape, Holds
  <2>3. /\ j \in Job /\ j.cmd = job[p].cmd /\ j.mode = job[p].mode /\ j.pc = "write"
        /\ j.ch = job[p].ch /\ j.tok = job[p].tok /\ j.page = job[p].page
        /\ j.told = job[p].told /\ j.snap = pending
    BY <1>3, <2>1 DEF Job
  <2>4. Becomes(p, j)
    BY <1>6 DEF TypeOK, Becomes
  <2> HIDE DEF j
  <2> QED BY <1>1, <1>2, <1>3, <1>6, <2>2, <2>3, <2>4, HandActs
<1> QED BY <1>1, <1>4, <1>5, <1>6

\* A checkpoint with what a command adds to it.
LEMMA Merged ==
    ASSUME NEW c \in Pending, NEW t \in Challenges \union {0}
    PROVE  /\ [c EXCEPT !.end = t] \in Pending /\ [c EXCEPT !.end = t].begin = c.begin
           /\ [c EXCEPT !.end = t].end = t /\ [c EXCEPT !.end = t].kmsi = c.kmsi
           /\ [c EXCEPT !.kmsi = t] \in Pending /\ [c EXCEPT !.kmsi = t].begin = c.begin
           /\ [c EXCEPT !.kmsi = t].end = c.end /\ [c EXCEPT !.kmsi = t].kmsi = t
  BY DEF Pending

\* MergeWrites: the checkpoint stays of one challenge.
LEMMA MergeWritesStep ==
    ASSUME TypeOK, IInv, OnePerson, NEW p \in Procs, MergeWrites(p)
    PROVE  TypeOK' /\ IInv'
<1> DEFINE place == AfterMerge(job[p])
           j == [job[p] EXCEPT !.snap = Absent, !.pc = place]
<1>1. /\ job[p].pc = "write" /\ UNCHANGED <<cookies, remote, used, crashes>>
      /\ \/ /\ pending' = IF job[p].page = {} THEN [job[p].snap EXCEPT !.end = job[p].tok]
                          ELSE [job[p].snap EXCEPT !.kmsi = job[p].tok]
            /\ job' = [job EXCEPT ![p].snap = Absent, ![p].pc = place]
         \/ End(p, "store") /\ UNCHANGED pending
  BY DEF MergeWrites
<1>2. Rest' /\ Later /\ UNCHANGED how
  BY <1>1, RestOn DEF remote
<1>3. CASE End(p, "store") /\ UNCHANGED pending
  BY <1>2, <1>3, EndActs DEF Results
<1>4. CASE /\ pending' = IF job[p].page = {} THEN [job[p].snap EXCEPT !.end = job[p].tok]
                         ELSE [job[p].snap EXCEPT !.kmsi = job[p].tok]
           /\ job' = [job EXCEPT ![p].snap = Absent, ![p].pc = place]
  <2>1. /\ job[p] \in Job /\ Shape(p, job[p]) /\ Fits(job[p])
        /\ job[p].cmd \in Checkpoints => Holds(job[p])
        /\ job[p].cmd # "refresh" /\ job[p].mode # "stored" => job[p].cmd \in Checkpoints
    BY <1>1, Running
  <2>2. job[p].cmd \in Checkpoints /\ Holds(job[p])
    BY <1>1, <2>1 DEF Shape
  <2>3. /\ job[p].mode = "verify" /\ job[p].ch # 0 /\ job[p].tok \in {0, job[p].ch}
        /\ job[p].snap.begin = job[p].ch
        /\ {job[p].snap.end, job[p].snap.kmsi} \subseteq {0, job[p].ch}
        /\ job[p].ch <= Len(how)
    BY <1>1, <2>1, <2>2 DEF Holds, Shape
  <2>4. job[p].ch \in Challenges \union {0} /\ job[p].snap \in Pending
    BY <2>1, Fields
  <2>5. /\ pending' \in Pending /\ pending'.begin = job[p].ch
        /\ {pending'.end, pending'.kmsi} \subseteq {0, job[p].ch}
    <3>1. job[p].tok \in Challenges \union {0}
      BY <2>3, <2>4
    <3>2. CASE job[p].page = {}
      BY <1>4, <2>3, <2>4, <3>1, <3>2, Merged
    <3>3. CASE job[p].page # {}
      BY <1>4, <2>3, <2>4, <3>1, <3>3, Merged
    <3> QED BY <3>2, <3>3
  <2>6. PendingInv'
    BY <1>2, <2>3, <2>5 DEF PendingInv
  <2>7. place \in Places /\ place \in {"process", "kmsi"} /\ Absent \in Pending
    BY IdleFields DEF Places, AfterMerge
  <2> HIDE DEF place
  <2>8. /\ j \in Job /\ j.cmd = job[p].cmd /\ j.mode = job[p].mode /\ j.pc = place
        /\ j.ch = job[p].ch /\ j.tok = job[p].tok /\ j.page = job[p].page
        /\ j.told = job[p].told
    BY <2>1, <2>7 DEF Job
  <2>9. Becomes(p, j)
    BY <1>4 DEF TypeOK, Becomes
  <2> HIDE DEF j
  <2>10. /\ job' \in [Procs -> Job] /\ job'[p] = j
         /\ \A q \in Procs \ {p} : job'[q] = job[q]
    BY <2>8, <2>9, BecomesJob
  <2>11. TypeOK'
    BY <1>2, <2>5, <2>10 DEF TypeOK, Rest
  <2>12. Shape(p, job[p])' /\ Fits(job[p])'
    BY <1>1, <1>2, <2>1, <2>7, <2>8, <2>10 DEF Shape, Fits
  <2>13. Holds(job[p])'
    BY <2>3, <2>5, <2>7, <2>8, <2>10 DEF Holds
  <2>14. JobInv(p, job[p])'
    BY <2>12, <2>13 DEF JobInv
  <2> QED BY <1>1, <1>2, <2>2, <2>6, <2>10, <2>11, <2>14, OneActs
<1> QED BY <1>1, <1>3, <1>4

-----------------------------------------------------------------------------
(* The pages after it.                                                     *)

\* What is used of a command on a page.
LEMMA OnAPage ==
    ASSUME TypeOK, IInv, NEW p \in Procs, job[p].pc \in {"process", "walk", "kmsi"}
    PROVE  /\ job[p] \in Job /\ job[p].told = "none" /\ job[p].cmd # "refresh"
           /\ job[p].mode = "verify" => job[p].tok \in {0, job[p].ch}
<1>1. /\ job[p] \in Job /\ Shape(p, job[p])
      /\ job[p].cmd \in Checkpoints => Holds(job[p])
  BY Running
<1>2. job[p].mode = "verify" => job[p].cmd \in Checkpoints
  BY <1>1 DEF Shape, Checkpoints
<1> QED BY <1>1, <1>2 DEF Shape, Holds

\* A request of a command whose page is not the expired password's.
LEMMA AnswerActs ==
    ASSUME TypeOK, IInv, OnePerson, NEW p \in Procs, job[p].pc \in {"process", "walk", "kmsi"},
           NEW j \in Job, j.cmd = job[p].cmd, j.mode = job[p].mode, j.ch = job[p].ch,
           j.tok = job[p].tok, j.told = job[p].told, Answer(p, j),
           Rest', UNCHANGED <<pending, how>>, ~Expired(job[p].page)
    PROVE  TypeOK' /\ IInv'
<1>1. /\ job[p] \in Job /\ job[p].told = "none" /\ job[p].cmd # "refresh"
      /\ job[p].mode = "verify" => job[p].tok \in {0, job[p].ch}
  BY OnAPage
<1>2. Later
  BY SameMethods
<1>3. CASE Fail(p)
  BY <1>1, <1>2, <1>3, FailActs
<1>4. CASE Abort(p)
  BY <1>2, <1>4, EndActs DEF Abort, Results
<1>5. ASSUME NEW pg \in Served, Becomes(p, [j EXCEPT !.page = pg, !.pc = "walk"])
      PROVE  TypeOK' /\ IInv'
  <2> DEFINE k == [j EXCEPT !.page = pg, !.pc = "walk"]
  <2>1. pg \in SUBSET Features /\ "walk" \in Places
    BY ServedAssumption DEF Places
  <2>2. /\ k \in Job /\ k.cmd = j.cmd /\ k.mode = j.mode /\ k.pc = "walk" /\ k.ch = j.ch
        /\ k.tok = j.tok /\ k.told = j.told
    BY <2>1 DEF Job
  <2>3. Becomes(p, k)
    BY <1>5
  <2> HIDE DEF k
  <2> QED BY <1>1, <1>2, <2>2, <2>3, HandActs
<1> QED BY <1>3, <1>4, <1>5 DEF Answer

\* ProcessAuth, and the answer to a KMSI page.
LEMMA RequestStep ==
    ASSUME TypeOK, IInv, OnePerson, NEW p \in Procs, ProcessAuth(p) \/ SubmitKmsi(p)
    PROVE  TypeOK' /\ IInv'
<1>1. /\ job[p].pc \in {"process", "kmsi"} /\ Answer(p, job[p])
      /\ UNCHANGED <<pending, cookies, remote, used, crashes>>
  BY DEF ProcessAuth, SubmitKmsi
<1>2. Rest' /\ UNCHANGED <<pending, how>>
  BY <1>1, RestOn DEF remote
<1>3. job[p] \in Job /\ ~Expired(job[p].page)
  BY <1>1, Under
<1> QED BY <1>1, <1>2, <1>3, AnswerActs

\* A hop that is left is counted.
LEMMA CountFields ==
    ASSUME NEW j \in Job, NEW kind, j.hops # Hops, ~(kind = "reload" /\ j.reloads = Reloads)
    PROVE  /\ CountHop(j, kind) \in Job
           /\ CountHop(j, kind).cmd = j.cmd /\ CountHop(j, kind).mode = j.mode
           /\ CountHop(j, kind).ch = j.ch /\ CountHop(j, kind).tok = j.tok
           /\ CountHop(j, kind).told = j.told /\ CountHop(j, kind).page = j.page
<1> DEFINE h == j.hops + 1
           r == IF kind = "reload" THEN j.reloads + 1 ELSE j.reloads
           k == [j EXCEPT !.hops = h, !.reloads = r]
<1>1. h \in 0 .. Hops /\ r \in 0 .. Reloads
  <2>1. j.hops \in 0 .. Hops /\ j.reloads \in 0 .. Reloads /\ Hops \in Nat /\ Reloads \in Nat
    BY Fields, SizeAssumption
  <2> QED BY <2>1
<1>2. CountHop(j, kind) = k
  BY DEF CountHop
<1> HIDE DEF h, r
<1>3. /\ k \in Job /\ k.cmd = j.cmd /\ k.mode = j.mode /\ k.ch = j.ch /\ k.tok = j.tok
      /\ k.told = j.told /\ k.page = j.page
  BY <1>1 DEF Job
<1> QED BY <1>2, <1>3

\* Walk: only the page of an expired password gives up the checkpoint.
LEMMA WalkStep ==
    ASSUME TypeOK, IInv, OnePerson, NEW p \in Procs, Walk(p)
    PROVE  TypeOK' /\ IInv'
<1> DEFINE kind  == Classify(job[p].page)
           spent == job[p].hops = Hops \/ (kind = "reload" /\ job[p].reloads = Reloads)
           k     == CountHop(job[p], kind)
           place == IF Checkpointing(job[p]) THEN "merge" ELSE "kmsi"
<1>1. /\ job[p].pc = "walk" /\ UNCHANGED <<cookies, remote, used, crashes>>
      /\ \/ (spent \/ kind \in {"mfa", "stop"}) /\ Fail(p) /\ UNCHANGED pending
         \/ ~spent /\ kind = "saml" /\ Goto(p, "acs") /\ UNCHANGED pending
         \/ ~spent /\ kind = "change" /\ pending' = Absent /\ Fail(p)
         \/ /\ ~spent /\ kind = "kmsi" /\ Becomes(p, [k EXCEPT !.pc = place])
            /\ UNCHANGED pending
         \/ /\ ~spent /\ kind \in {"reload", "redirect", "hidden", "request"} /\ Answer(p, k)
            /\ UNCHANGED pending
  BY DEF Walk
<1>2. Rest' /\ Later /\ UNCHANGED how
  BY <1>1, RestOn DEF remote
<1>3. /\ job[p] \in Job /\ job[p].told = "none" /\ job[p].cmd # "refresh"
      /\ job[p].mode = "verify" => job[p].tok \in {0, job[p].ch}
  BY <1>1, OnAPage
<1>4. kind # "change" => ~Expired(job[p].page)
  BY ExpiredKind
<1>5. job[p].hops \in 0 .. Hops /\ Hops \in Nat
  BY <1>3, Fields, SizeAssumption
<1>6. ~spent => /\ k \in Job /\ k.cmd = job[p].cmd /\ k.mode = job[p].mode
                /\ k.ch = job[p].ch /\ k.tok = job[p].tok /\ k.told = job[p].told
                /\ k.page = job[p].page
  BY <1>3, CountFields
<1>7. place \in {"merge", "kmsi"} /\ (place = "merge" => job[p].mode # "stored")
  BY DEF Checkpointing
<1>8. spent /\ kind = "change" => job[p].hops = Hops
  OBVIOUS
<1> HIDE DEF k, place
<1>9. CASE (spent \/ kind \in {"mfa", "stop"}) /\ Fail(p) /\ UNCHANGED pending
  <2>1. ~(Expired(job[p].page) /\ job[p].hops < Hops)
    BY <1>4, <1>5, <1>8, <1>9
  <2> HIDE DEF spent, kind
  <2> QED BY <1>1, <1>2, <1>3, <1>9, <2>1, FailActs
<1> HIDE DEF spent, kind
<1>10. CASE ~spent /\ kind = "saml" /\ Goto(p, "acs") /\ UNCHANGED pending
  <2>1. ~Expired(job[p].page)
    BY <1>4, <1>10
  <2> QED BY <1>1, <1>2, <1>3, <1>10, <2>1, PlainMove DEF Between
<1>11. CASE ~spent /\ kind = "change" /\ pending' = Absent /\ Fail(p)
  <2>1. pending'.begin = 0 /\ pending' \in {pending, Absent}
    BY <1>11, IdleFields
  <2> QED BY <1>1, <1>2, <1>3, <1>11, <2>1, FailActs
<1>12. CASE /\ ~spent /\ kind = "kmsi" /\ Becomes(p, [k EXCEPT !.pc = place])
            /\ UNCHANGED pending
  <2>1. k \in Job /\ place \in Places /\ Becomes(p, At(k, place))
    BY <1>6, <1>7, <1>12 DEF Places, At
  <2>2. /\ At(k, place) \in Job /\ At(k, place).pc = place
        /\ At(k, place).cmd = job[p].cmd /\ At(k, place).mode = job[p].mode
        /\ At(k, place).ch = job[p].ch /\ At(k, place).tok = job[p].tok
        /\ At(k, place).page = job[p].page /\ At(k, place).told = job[p].told
    BY <1>6, <1>12, <2>1, AtFields
  <2>3. ~Expired(job[p].page)
    BY <1>4, <1>12
  <2> QED BY <1>1, <1>2, <1>3, <1>7, <1>12, <2>1, <2>2, <2>3, HandActs
<1>13. CASE /\ ~spent /\ kind \in {"reload", "redirect", "hidden", "request"}
            /\ Answer(p, k) /\ UNCHANGED pending
  <2>1. ~Expired(job[p].page)
    BY <1>4, <1>13
  <2> QED BY <1>1, <1>2, <1>6, <1>13, <2>1, AnswerActs
<1> QED BY <1>1, <1>9, <1>10, <1>11, <1>12, <1>13

-----------------------------------------------------------------------------
(* The end of a sign-in.                                                   *)

\* PostSaml: the assertion is a session.
LEMMA PostSamlStep ==
    ASSUME TypeOK, IInv, OnePerson, NEW p \in Procs, PostSaml(p)
    PROVE  TypeOK' /\ IInv'
<1> DEFINE place == IF Checkpointing(job[p]) THEN "finish" ELSE "persist"
<1>1. /\ job[p].pc = "acs" /\ UNCHANGED <<pending, cookies, remote, used, crashes>>
      /\ Goto(p, place) \/ Fail(p) \/ Abort(p)
  BY DEF PostSaml
<1>2. Rest' /\ Later /\ UNCHANGED <<pending, how>>
  BY <1>1, RestOn DEF remote
<1>3. /\ job[p].told = "none" /\ ~Expired(job[p].page) /\ job[p].cmd # "refresh"
  BY <1>1, Under
<1>4. place \in {"finish", "persist"} /\ (place = "finish" => job[p].mode # "stored")
  BY DEF Checkpointing
<1> HIDE DEF place
<1>5. CASE Goto(p, place)
  BY <1>1, <1>2, <1>3, <1>4, <1>5, PlainMove DEF Between
<1>6. CASE Fail(p)
  BY <1>1, <1>2, <1>3, <1>6, FailActs
<1>7. CASE Abort(p)
  BY <1>2, <1>7, EndActs DEF Abort, Results
<1> QED BY <1>1, <1>5, <1>6, <1>7

\* FinishPending: the checkpoint has served.
LEMMA FinishPendingStep ==
    ASSUME TypeOK, IInv, OnePerson, NEW p \in Procs, FinishPending(p)
    PROVE  TypeOK' /\ IInv'
<1>1. /\ job[p].pc = "finish" /\ pending' = Absent /\ Goto(p, "persist")
      /\ UNCHANGED <<cookies, remote, used, crashes>>
  BY DEF FinishPending
<1>2. Rest' /\ UNCHANGED how
  BY <1>1, RestOn DEF remote
<1>3. ~Expired(job[p].page) /\ job[p].cmd # "refresh"
  BY <1>1, Under
<1> QED BY <1>1, <1>2, <1>3, PlainMove DEF Between

\* Persist: the session is saved.
LEMMA PersistStep ==
    ASSUME TypeOK, IInv, OnePerson, NEW p \in Procs, Persist(p)
    PROVE  TypeOK' /\ IInv'
<1>1. /\ job[p].pc = "persist" /\ UNCHANGED <<pending, remote, used, crashes>>
      /\ cookies' = job[p].tok \/ UNCHANGED cookies
      /\ \/ job[p].cmd \in {"stored", "refresh"} /\ Goto(p, "supersede")
         \/ End(p, "done")
         \/ End(p, "failed")
  BY DEF Persist
<1>2. job[p] \in Job /\ Shape(p, job[p])
  BY <1>1, Running
<1>3. cookies' \in Challenges \union {0, Other}
  <2>1. job[p].tok \in Challenges \union {0, Other}
    BY <1>2, Fields
  <2> QED BY <1>1, <2>1 DEF TypeOK
<1>4. Rest' /\ Later /\ UNCHANGED how
  BY <1>1, <1>3, SameMethods DEF TypeOK, Rest, remote
<1>5. CASE job[p].cmd \in {"stored", "refresh"} /\ Goto(p, "supersede")
  <2>1. ~Expired(job[p].page)
    BY <1>1, <1>2 DEF Shape
  <2>2. "supersede" \in Between /\ job[p].cmd \notin Checkpoints
    BY <1>5 DEF Between, Checkpoints
  <2> QED BY <1>1, <1>4, <1>5, <2>1, <2>2, PlainMove
<1>6. CASE End(p, "done") \/ End(p, "failed")
  BY <1>1, <1>4, <1>6, EndActs DEF Results
<1> QED BY <1>1, <1>5, <1>6

\* Supersede: no begun sign-in is left.
LEMMA SupersedeStep ==
    ASSUME TypeOK, IInv, OnePerson, NEW p \in Procs, Supersede(p)
    PROVE  TypeOK' /\ IInv'
<1>1. pending' = Absent /\ End(p, "done") /\ UNCHANGED <<cookies, remote, used, crashes>>
  BY DEF Supersede
<1> QED BY <1>1, RestOn, EndActs DEF Results

-----------------------------------------------------------------------------
(* What `auth verify` does when it fails, and a crash.                     *)

\* ReloadPending: only a checkpoint without tokens is discarded.
LEMMA ReloadPendingStep ==
    ASSUME TypeOK, IInv, OnePerson, NEW p \in Procs, ReloadPending(p)
    PROVE  TypeOK' /\ IInv'
<1>1. /\ job[p].pc = "reload" /\ UNCHANGED <<pending, cookies, remote, used, crashes>>
      /\ \/ End(p, Outcome(job[p]))
         \/ pending.end = 0 /\ Goto(p, "discard")
         \/ job' = [job EXCEPT ![p].told = "store", ![p].pc = "discard"]
  BY DEF ReloadPending
<1>2. Rest' /\ Later /\ UNCHANGED <<pending, how>>
  BY <1>1, RestOn DEF remote
<1>3. /\ job[p] \in Job /\ Shape(p, job[p]) /\ Fits(job[p])
      /\ job[p].cmd \in Checkpoints => Holds(job[p])
      /\ "discard" \in Places
  BY <1>1, Running DEF Places
<1>4. CASE End(p, Outcome(job[p]))
  <2>1. Outcome(job[p]) \in Results
    BY DEF Outcome, Results
  <2> QED BY <1>2, <1>4, <2>1, EndActs
<1>5. CASE pending.end = 0 /\ Goto(p, "discard")
  <2> DEFINE j == At(job[p], "discard")
  <2>1. /\ j.pc = "discard" /\ j.cmd = job[p].cmd /\ j.mode = job[p].mode /\ j.ch = job[p].ch
        /\ j.tok = job[p].tok /\ j.snap = job[p].snap /\ j.page = job[p].page
        /\ j.hops = job[p].hops /\ j.told = job[p].told
    BY <1>3, AtFields
  <2> HIDE DEF j
  <2>2. Shape(p, j)
    BY <1>1, <1>3, <2>1 DEF Shape
  <2>3. job[p].cmd \in Checkpoints => Holds(j)
    BY <1>1, <1>3, <1>5, <2>1 DEF Holds
  <2>4. Shape(p, At(job[p], "discard"))
        /\ (job[p].cmd \in Checkpoints => Holds(At(job[p], "discard")))
    BY <2>2, <2>3 DEF j
  <2> QED BY <1>1, <1>2, <1>3, <1>5, <2>4, MoveActs
<1>6. CASE job' = [job EXCEPT ![p].told = "store", ![p].pc = "discard"]
  <2> DEFINE j == [job[p] EXCEPT !.told = "store", !.pc = "discard"]
  <2>1. /\ j \in Job /\ j.pc = "discard" /\ j.cmd = job[p].cmd /\ j.mode = job[p].mode
        /\ j.ch = job[p].ch /\ j.tok = job[p].tok /\ j.snap = job[p].snap
        /\ j.page = job[p].page /\ j.hops = job[p].hops /\ j.told = "store"
    BY <1>3 DEF Job
  <2>2. Becomes(p, j)
    BY <1>6 DEF TypeOK, Becomes
  <2> HIDE DEF j
  <2>3. job'[p] = j
    BY <2>1, <2>2, BecomesJob
  <2>4. Shape(p, job[p])' /\ Fits(job[p])'
    BY <1>1, <1>2, <1>3, <2>1, <2>3 DEF Shape, Fits
  <2>5. job[p].cmd \in Checkpoints => Holds(job[p])'
    BY <1>1, <1>2, <1>3, <2>1, <2>3 DEF Holds
  <2>6. JobInv(p, job[p])'
    BY <2>1, <2>3, <2>4, <2>5 DEF JobInv
  <2> QED BY <1>2, <2>1, <2>2, <2>6, Acts
<1> QED BY <1>1, <1>4, <1>5, <1>6

\* DiscardPending: no checkpoint is left.
LEMMA DiscardPendingStep ==
    ASSUME TypeOK, IInv, OnePerson, NEW p \in Procs, DiscardPending(p)
    PROVE  TypeOK' /\ IInv'
<1>1. /\ pending' = Absent /\ End(p, Outcome(job[p]))
      /\ UNCHANGED <<cookies, remote, used, crashes>>
  BY DEF DiscardPending
<1>2. Outcome(job[p]) \in Results
  BY DEF Outcome, Results
<1> QED BY <1>1, <1>2, RestOn, EndActs

\* A killed process has nothing in hand.
LEMMA CrashStep ==
    ASSUME TypeOK, IInv, OnePerson, NEW p \in Procs, Crash(p)
    PROVE  TypeOK' /\ IInv'
<1>1. /\ crashes < MaxCrashes /\ crashes' = crashes + 1 /\ Becomes(p, Idle)
      /\ UNCHANGED <<pending, cookies, remote, used>>
  BY DEF Crash
<1>2. crashes' \in 0 .. MaxCrashes
  BY <1>1, SizeAssumption DEF TypeOK
<1>3. Rest' /\ Later
  BY <1>1, <1>2, SameMethods DEF TypeOK, Rest, remote
<1>4. Idle \in Job /\ job'[p] = Idle /\ Idle.pc = "idle"
  BY <1>1, IdleFields, BecomesJob
<1>5. JobInv(p, job[p])'
  BY <1>4 DEF JobInv
<1> QED BY <1>1, <1>3, <1>4, <1>5, Acts

-----------------------------------------------------------------------------
(* The invariant.                                                          *)

\* It holds at first.
LEMMA InitHolds ==
    ASSUME Init
    PROVE  TypeOK /\ IInv
<1>1. /\ pending = Absent /\ cookies = 0 /\ how = <<>> /\ accepted = {}
      /\ job = [p \in Procs |-> Idle] /\ used = 0 /\ crashes = 0
  BY DEF Init
<1>2. 0 \in 0 .. MaxCommands /\ 0 \in 0 .. MaxCrashes /\ Len(<<>>) = 0 /\ 0 <= MaxChallenges
  BY SizeAssumption
<1>3. TypeOK
  BY <1>1, <1>2, IdleFields DEF TypeOK
<1>4. PendingInv
  BY <1>1, <1>2, IdleFields DEF PendingInv
<1>5. ASSUME NEW p \in Procs
      PROVE  JobInv(p, job[p])
  BY <1>1, IdleFields DEF JobInv
<1> QED BY <1>3, <1>4, <1>5 DEF IInv

\* Every step keeps it.
LEMMA NextHolds ==
    ASSUME TypeOK, IInv, OnePerson, [Next]_vars
    PROVE  TypeOK' /\ IInv'
<1>1. CASE UNCHANGED vars
  <2>1. UNCHANGED <<pending, cookies, how, accepted, job, used, crashes>>
    BY <1>1 DEF vars, remote
  <2>2. TypeOK'
    BY <2>1 DEF TypeOK
  <2>3. Later
    BY <2>1, SameMethods
  <2>4. PendingInv'
    BY <2>1, <2>3, PendingOn
  <2>5. ASSUME NEW p \in Procs
        PROVE  JobInv(p, job[p])'
    BY <2>1, <2>3, OtherOn
  <2> QED BY <2>2, <2>4, <2>5 DEF IInv
<1>2. ASSUME NEW p \in Procs,
             \/ Login(p) \/ LoginStored(p) \/ Renew(p) \/ Verify(p) \/ Refresh(p)
             \/ Advance(p) \/ Crash(p)
      PROVE  TypeOK' /\ IInv'
  <2>1. CASE Login(p) \/ LoginStored(p) \/ Renew(p) \/ Verify(p) \/ Refresh(p) \/ Crash(p)
    BY <2>1, LoginStep, StoredStep, VerifyStep, RefreshStep, CrashStep
  <2>2. CASE PlanLogin(p) \/ ClearPending(p) \/ PasswordStage(p) \/ BeginAuth(p)
    BY <2>2, PlanLoginStep, ClearPendingStep, PasswordStageStep, BeginAuthStep
  <2>3. CASE DeferToPending(p) \/ LoadPending(p) \/ EndAuth(p) \/ LookUpTokens(p)
    BY <2>3, DeferToPendingStep, LoadPendingStep, EndAuthStep, LookUpTokensStep
  <2>4. CASE MergeReads(p) \/ MergeWrites(p) \/ ProcessAuth(p) \/ Walk(p) \/ SubmitKmsi(p)
    BY <2>4, MergeReadsStep, MergeWritesStep, RequestStep, WalkStep
  <2>5. CASE PostSaml(p) \/ FinishPending(p) \/ Persist(p) \/ Supersede(p)
    BY <2>5, PostSamlStep, FinishPendingStep, PersistStep, SupersedeStep
  <2>6. CASE ReloadPending(p) \/ DiscardPending(p)
    BY <2>6, ReloadPendingStep, DiscardPendingStep
  <2> QED BY <1>2, <2>1, <2>2, <2>3, <2>4, <2>5, <2>6 DEF Advance
<1> QED BY <1>1, <1>2 DEF Next

\* What the types, the places and the checkpoint of a sign-in have to be, in every state.
THEOREM Invariance == OnePerson => (Spec => [](TypeOK /\ IInv))
<1> SUFFICES ASSUME OnePerson
             PROVE  Spec => [](TypeOK /\ IInv)
  OBVIOUS
<1>1. Init => TypeOK /\ IInv
  BY InitHolds
<1>2. TypeOK /\ IInv /\ [Next]_vars => (TypeOK /\ IInv)'
  BY NextHolds
<1> QED BY <1>1, <1>2, PTL DEF Spec

-----------------------------------------------------------------------------
(* The safety properties.                                                  *)

\* The checkpoint, and what `auth verify` works with, is of one BeginAuth
\* (update_mfa_pending, config.py).
THEOREM OneChallenge == OnePerson => (Spec => []SameChallenge)
<1> SUFFICES ASSUME OnePerson
             PROVE  Spec => []SameChallenge
  OBVIOUS
<1>1. ASSUME TypeOK, IInv
      PROVE  SameChallenge
  <2>1. ASSUME NEW p \in Procs, job[p].pc # "idle", job[p].mode = "verify"
        PROVE  job[p].tok \in {0, job[p].ch}
    <3>1. Shape(p, job[p]) /\ (job[p].cmd \in Checkpoints => Holds(job[p]))
      BY <1>1, <2>1, Running
    <3> QED BY <2>1, <3>1 DEF Shape, Holds, Checkpoints
  <2> QED BY <1>1, <2>1 DEF SameChallenge, IInv, PendingInv
<1>2. TypeOK /\ IInv => SameChallenge
  BY <1>1
<1> QED BY <1>2, Invariance, PTL

\* A code of the app is submitted to a challenge of the app only (plan_login, auth.py).
THEOREM CodesFit == OnePerson => (Spec => []LiteralCodeFits)
<1> SUFFICES ASSUME OnePerson
             PROVE  Spec => []LiteralCodeFits
  OBVIOUS
<1>1. ASSUME TypeOK, IInv
      PROVE  LiteralCodeFits
  <2>1. ASSUME NEW p \in Procs, job[p].pc = "end"
        PROVE  Shape(p, job[p]) /\ Fits(job[p])
    BY <1>1, <2>1, Running
  <2> QED BY <2>1 DEF LiteralCodeFits, Shape, Fits
<1>2. TypeOK /\ IInv => LiteralCodeFits
  BY <1>1
<1> QED BY <1>2, Invariance, PTL

-----------------------------------------------------------------------------
(* The action properties.                                                  *)

\* A step replaces the job of one process.
Stepping(q) ==
    \/ Login(q) \/ LoginStored(q) \/ Renew(q) \/ Verify(q) \/ Refresh(q)
    \/ Advance(q) \/ Crash(q)

\* How a command may have ended before anything was made of an expired password.
Plainly == {"none", "done", "pending", "failed", "store"}

\* A job that becomes another, or is elsewhere, or ends.
LEMMA OneJob ==
    ASSUME TypeOK, NEW q \in Procs
    PROVE  /\ \A j : Becomes(q, j) =>
                 job'[q] = j /\ \A p \in Procs \ {q} : job'[p] = job[p]
           /\ \A place \in Places : Goto(q, place) =>
                 job'[q].told = job[q].told /\ \A p \in Procs \ {q} : job'[p] = job[p]
           /\ \A r \in Results : End(q, r) =>
                 job'[q].told = r /\ \A p \in Procs \ {q} : job'[p] = job[p]
           /\ Fail(q) => /\ job'[q].told \in {job[q].told, "failed"}
                         /\ \A p \in Procs \ {q} : job'[p] = job[p]
<1>1. job \in [Procs -> Job] /\ job[q] \in Job
  BY DEF TypeOK
<1>2. ASSUME NEW j, Becomes(q, j)
      PROVE  job'[q] = j /\ \A p \in Procs \ {q} : job'[p] = job[p]
  BY <1>1, <1>2 DEF Becomes
<1>3. ASSUME NEW place \in Places, Goto(q, place)
      PROVE  job'[q].told = job[q].told /\ \A p \in Procs \ {q} : job'[p] = job[p]
  <2>1. Becomes(q, At(job[q], place)) /\ At(job[q], place).told = job[q].told
    BY <1>1, <1>3, GotoBecomes, AtFields
  <2> HIDE DEF At
  <2> QED BY <1>2, <2>1
<1>4. ASSUME NEW r \in Results, End(q, r)
      PROVE  job'[q].told = r /\ \A p \in Procs \ {q} : job'[p] = job[p]
  <2>1. Becomes(q, Ended(r)) /\ Ended(r).told = r
    BY <1>4, EndedFields DEF End, Ended
  <2> QED BY <1>2, <2>1
<1>5. ASSUME Fail(q)
      PROVE  /\ job'[q].told \in {job[q].told, "failed"}
             /\ \A p \in Procs \ {q} : job'[p] = job[p]
  <2>1. "reload" \in Places /\ "failed" \in Results
    BY DEF Places, Results
  <2> QED BY <1>3, <1>4, <1>5, <2>1 DEF Fail
<1> QED BY <1>2, <1>3, <1>4, <1>5

\* A command that starts has not ended on an expired password.
LEMMA StartTold ==
    ASSUME TypeOK, NEW q \in Procs,
           Login(q) \/ LoginStored(q) \/ Renew(q) \/ Verify(q) \/ Refresh(q)
    PROVE  /\ job'[q].told \in Plainly /\ UNCHANGED pending /\ job[q].pc = "idle"
           /\ \A p \in Procs \ {q} : job'[p] = job[p]
<1>1. job[q].pc = "idle" /\ UNCHANGED pending
  BY DEF Starts, Login, LoginStored, Renew, Verify, Refresh
<1>2. ASSUME NEW r \in {"failed", "store"}, End(q, r)
      PROVE  job'[q].told \in Plainly /\ \A p \in Procs \ {q} : job'[p] = job[p]
  BY <1>2, OneJob DEF Plainly, Results
<1>3. ASSUME NEW c, NEW place, Becomes(q, [Idle EXCEPT !.cmd = c, !.pc = place])
      PROVE  job'[q].told \in Plainly /\ \A p \in Procs \ {q} : job'[p] = job[p]
  <2>1. [Idle EXCEPT !.cmd = c, !.pc = place].told = "none"
    BY DEF Idle
  <2> QED BY <1>3, <2>1, OneJob DEF Plainly
<1>4. ASSUME NEW c, NEW mode, NEW place,
             Becomes(q, [Idle EXCEPT !.cmd = c, !.mode = mode, !.pc = place])
      PROVE  job'[q].told \in Plainly /\ \A p \in Procs \ {q} : job'[p] = job[p]
  <2>1. [Idle EXCEPT !.cmd = c, !.mode = mode, !.pc = place].told = "none"
    BY DEF Idle
  <2> QED BY <1>4, <2>1, OneJob DEF Plainly
<1>5. CASE Login(q)
  BY <1>1, <1>3, <1>5 DEF Login
<1>6. CASE LoginStored(q) \/ Renew(q)
  BY <1>1, <1>4, <1>6 DEF LoginStored, Renew
<1>7. CASE Verify(q)
  <2>1. (IF pending.begin = 0 THEN "failed" ELSE "store") \in {"failed", "store"}
    OBVIOUS
  <2> QED BY <1>1, <1>2, <1>4, <1>7, <2>1 DEF Verify
<1>8. CASE Refresh(q)
  <2>1. [Idle EXCEPT !.cmd = "refresh", !.tok = Other, !.pc = "persist"].told = "none"
    BY DEF Idle
  <2>2. CASE Becomes(q, [Idle EXCEPT !.cmd = "refresh", !.tok = Other, !.pc = "persist"])
    BY <1>1, <2>1, <2>2, OneJob DEF Plainly
  <2> QED BY <1>1, <1>2, <1>8, <2>2 DEF Refresh
<1> QED BY <1>5, <1>6, <1>7, <1>8

\* The steps that write or clear the checkpoint, and how the command stands after.
LEMMA WriterTold ==
    ASSUME TypeOK, NEW q \in Procs,
           \/ ClearPending(q) \/ DeferToPending(q) \/ MergeWrites(q) \/ FinishPending(q)
           \/ Supersede(q) \/ (Walk(q) /\ pending' # pending)
    PROVE  /\ job'[q].told \in Plainly \/ job'[q].told = job[q].told
           /\ pending' = pending \/ job'[q].told \in {job[q].told, "done", "pending"}
                \/ (Walk(q) /\ job[q].mode # "verify")
           /\ \A p \in Procs \ {q} : job'[p] = job[p]
<1>1. job[q] \in Job
  BY DEF TypeOK
<1>2. {"password", "persist", "process", "kmsi"} \subseteq Places
      /\ {"pending", "store", "done", "failed"} \subseteq Results
  BY DEF Places, Results
<1>3. CASE ClearPending(q) \/ FinishPending(q)
  BY <1>2, <1>3, OneJob DEF ClearPending, FinishPending
<1>4. CASE DeferToPending(q) \/ Supersede(q)
  BY <1>2, <1>4, OneJob DEF DeferToPending, Supersede, Plainly
<1>5. CASE MergeWrites(q)
  <2> DEFINE place == AfterMerge(job[q])
             j == [job[q] EXCEPT !.snap = Absent, !.pc = place]
  <2>1. CASE job' = [job EXCEPT ![q].snap = Absent, ![q].pc = place]
    <3>1. Becomes(q, j)
      BY <2>1 DEF TypeOK, Becomes
    <3>2. j.told = job[q].told
      BY <1>1 DEF Job
    <3> HIDE DEF j
    <3> QED BY <3>1, <3>2, OneJob
  <2>2. CASE End(q, "store") /\ UNCHANGED pending
    BY <1>2, <2>2, OneJob DEF Plainly
  <2> QED BY <1>5, <2>1, <2>2 DEF MergeWrites
<1>6. CASE Walk(q) /\ pending' # pending
  <2>1. Fail(q)
    BY <1>6 DEF Walk
  <2>2. job[q].mode = "verify" => job'[q].told = job[q].told
    BY <2>1, OneJob DEF Fail, Places
  <2>3. job'[q].told \in {job[q].told, "failed"} /\ \A p \in Procs \ {q} : job'[p] = job[p]
    BY <2>1, OneJob
  <2> QED BY <1>6, <2>2, <2>3 DEF Plainly
<1> QED BY <1>3, <1>4, <1>5, <1>6

\* The other steps of a sign-in leave the checkpoint.
LEMMA ReaderTold ==
    ASSUME TypeOK, NEW q \in Procs,
           \/ PlanLogin(q) \/ PasswordStage(q) \/ BeginAuth(q) \/ LoadPending(q) \/ EndAuth(q)
           \/ LookUpTokens(q) \/ MergeReads(q) \/ ProcessAuth(q) \/ SubmitKmsi(q)
           \/ PostSaml(q) \/ Persist(q) \/ Crash(q) \/ (Walk(q) /\ pending' = pending)
    PROVE  /\ job'[q].told \in Plainly \/ job'[q].told = job[q].told
           /\ UNCHANGED pending
           /\ \A p \in Procs \ {q} : job'[p] = job[p]
<1> DEFINE Kept == /\ job'[q].told \in Plainly \/ job'[q].told = job[q].told
                   /\ \A p \in Procs \ {q} : job'[p] = job[p]
<1>0. UNCHANGED pending
  BY DEF PlanLogin, PasswordStage, BeginAuth, LoadPending, EndAuth, LookUpTokens, MergeReads,
         ProcessAuth, SubmitKmsi, PostSaml, Persist, Crash
<1> SUFFICES Kept
  BY <1>0
<1>1. job \in [Procs -> Job] /\ job[q] \in Job
  BY DEF TypeOK
<1>2. /\ Fail(q) => Kept
      /\ Abort(q) => Kept
      /\ \A r \in {"done", "failed", "store"} : End(q, r) => Kept
      /\ \A place \in Places : Goto(q, place) => Kept
  BY OneJob DEF Abort, Plainly, Results
<1>3. ASSUME NEW j, Becomes(q, j), j.told = job[q].told \/ j.told = "none"
      PROVE  Kept
  BY <1>3, OneJob DEF Plainly
<1>4. ASSUME NEW j, j.told = job[q].told, Answer(q, j), j \in Job
      PROVE  Kept
  <2>1. ASSUME NEW pg \in Served, Becomes(q, [j EXCEPT !.page = pg, !.pc = "walk"])
        PROVE  Kept
    <3>1. [j EXCEPT !.page = pg, !.pc = "walk"].told = j.told
      BY <1>4 DEF Job
    <3> QED BY <1>3, <1>4, <2>1, <3>1
  <2> QED BY <1>2, <1>4, <2>1 DEF Answer
<1> HIDE DEF Kept
<1>5. CASE PlanLogin(q)
  <2> DEFINE j == [job[q] EXCEPT !.mode = "verify", !.pc = "load"]
  <2>1. CASE job' = [job EXCEPT ![q].mode = "verify", ![q].pc = "load"]
    <3>1. Becomes(q, j) /\ j.told = job[q].told
      BY <1>1, <2>1 DEF Becomes, Job
    <3> QED BY <1>3, <3>1
  <2> QED BY <1>2, <1>5, <2>1 DEF PlanLogin, Places
<1>6. CASE PasswordStage(q)
  <2> DEFINE j == [job[q] EXCEPT !.pc = "acs", !.tok = Other]
  <2>1. CASE job' = [job EXCEPT ![q].pc = "acs", ![q].tok = Other]
    <3>1. Becomes(q, j) /\ j.told = job[q].told
      BY <1>1, <2>1 DEF Becomes, Job
    <3> QED BY <1>3, <3>1
  <2> QED BY <1>2, <1>6, <2>1 DEF PasswordStage, Places
<1>7. CASE BeginAuth(q)
  <2> DEFINE n == Len(how) + 1
             place == IF job[q].cmd = "defer" THEN "defer" ELSE "end"
             j == [job[q] EXCEPT !.ch = n, !.pc = place]
  <2>1. CASE job' = [job EXCEPT ![q].ch = n, ![q].pc = place]
    <3> HIDE DEF n, place
    <3>1. Becomes(q, j) /\ j.told = job[q].told
      BY <1>1, <2>1 DEF Becomes, Job
    <3> QED BY <1>3, <3>1
  <2> QED BY <1>2, <1>7, <2>1 DEF BeginAuth
<1>8. CASE LoadPending(q)
  <2> DEFINE place == CASE pending.kmsi # 0 -> "kmsi"
                        [] pending.kmsi = 0 /\ pending.end # 0 -> "process"
                        [] OTHER -> "end"
             j == [job[q] EXCEPT !.ch = pending.begin, !.tok = pending.end, !.pc = place]
             r == IF pending.begin = 0 THEN "failed" ELSE "store"
  <2>1. \/ job' = [job EXCEPT ![q].ch = pending.begin, ![q].tok = pending.end, ![q].pc = place]
        \/ End(q, r)
    BY <1>8 DEF LoadPending
  <2>2. r \in {"failed", "store"}
    OBVIOUS
  <2> HIDE DEF place, r
  <2>3. CASE job' = [job EXCEPT ![q].ch = pending.begin, ![q].tok = pending.end,
                                ![q].pc = place]
    <3>1. Becomes(q, j) /\ j.told = job[q].told
      BY <1>1, <2>3 DEF Becomes, Job
    <3> QED BY <1>3, <3>1
  <2> QED BY <1>2, <2>1, <2>2, <2>3
<1>9. CASE EndAuth(q)
  <2> DEFINE place == IF Checkpointing(job[q]) THEN "merge" ELSE "process"
             j == [job[q] EXCEPT !.tok = job[q].ch, !.pc = place]
             k == [job[q] EXCEPT !.polls = job[q].polls + 1]
  <2>1. CASE job' = [job EXCEPT ![q].tok = job[q].ch, ![q].pc = place]
    <3> HIDE DEF place
    <3>1. Becomes(q, j) /\ j.told = job[q].told
      BY <1>1, <2>1 DEF Becomes, Job
    <3> QED BY <1>3, <3>1
  <2>2. CASE job' = [job EXCEPT ![q].polls = @ + 1]
    <3>1. Becomes(q, k) /\ k.told = job[q].told
      BY <1>1, <2>2 DEF Becomes, Job
    <3> QED BY <1>3, <3>1
  <2>3. \/ job' = [job EXCEPT ![q].tok = job[q].ch, ![q].pc = place]
        \/ job' = [job EXCEPT ![q].polls = @ + 1]
        \/ Fail(q) \/ Abort(q) \/ Goto(q, "lookup")
    BY <1>9 DEF EndAuth, Retry
  <2> HIDE DEF place
  <2> QED BY <1>2, <2>1, <2>2, <2>3 DEF Places
<1>10. CASE LookUpTokens(q)
  <2> DEFINE j == [job[q] EXCEPT !.tok = pending.end, !.pc = "process"]
  <2>1. CASE job' = [job EXCEPT ![q].tok = pending.end, ![q].pc = "process"]
    <3>1. Becomes(q, j) /\ j.told = job[q].told
      BY <1>1, <2>1 DEF Becomes, Job
    <3> QED BY <1>3, <3>1
  <2> QED BY <1>2, <1>10, <2>1 DEF LookUpTokens
<1>11. CASE MergeReads(q)
  <2> DEFINE j == [job[q] EXCEPT !.snap = pending, !.pc = "write"]
  <2>1. CASE job' = [job EXCEPT ![q].snap = pending, ![q].pc = "write"]
    <3>1. Becomes(q, j) /\ j.told = job[q].told
      BY <1>1, <2>1 DEF Becomes, Job
    <3> QED BY <1>3, <3>1
  <2>2. AfterMerge(job[q]) \in Places
    BY DEF AfterMerge, Places
  <2> QED BY <1>2, <1>11, <2>1, <2>2 DEF MergeReads
<1>12. CASE ProcessAuth(q) \/ SubmitKmsi(q)
  BY <1>1, <1>4, <1>12 DEF ProcessAuth, SubmitKmsi
<1>13. CASE PostSaml(q)
  <2>1. (IF Checkpointing(job[q]) THEN "finish" ELSE "persist") \in Places
    BY DEF Places
  <2> QED BY <1>2, <1>13, <2>1 DEF PostSaml
<1>14. CASE Persist(q)
  BY <1>2, <1>14 DEF Persist, Places
<1>15. CASE Crash(q)
  BY <1>3, <1>15, IdleFields DEF Crash
<1>16. CASE Walk(q)
  <2> DEFINE kind == Classify(job[q].page)
             k == CountHop(job[q], kind)
             place == IF Checkpointing(job[q]) THEN "merge" ELSE "kmsi"
             spent == job[q].hops = Hops \/ (kind = "reload" /\ job[q].reloads = Reloads)
  <2>1. \/ Fail(q) \/ Goto(q, "acs")
        \/ ~spent /\ Becomes(q, [k EXCEPT !.pc = place])
        \/ ~spent /\ Answer(q, k)
    BY <1>16 DEF Walk
  <2>2. ~spent => k \in Job /\ k.told = job[q].told
    BY <1>1, CountFields
  <2> HIDE DEF k, spent, place
  <2>3. CASE ~spent /\ Becomes(q, [k EXCEPT !.pc = place])
    <3>1. [k EXCEPT !.pc = place].told = k.told
      BY <2>2, <2>3 DEF Job
    <3> QED BY <1>3, <2>2, <2>3, <3>1
  <2> QED BY <1>2, <1>4, <2>1, <2>2, <2>3 DEF Places
<1> QED BY <1>5, <1>6, <1>7, <1>8, <1>9, <1>10, <1>11, <1>12, <1>13, <1>14, <1>15, <1>16

\* `auth verify`, when it fails.
LEMMA FailedTold ==
    ASSUME TypeOK, NEW q \in Procs, ReloadPending(q) \/ DiscardPending(q)
    PROVE  /\ ReloadPending(q) =>
                 /\ job[q].pc = "reload" /\ UNCHANGED pending
                 /\ \/ job'[q].told \in {job[q].told, "store"}
                    \/ pending.end # 0 /\ job'[q].told = Outcome(job[q])
           /\ DiscardPending(q) =>
                 job[q].pc = "discard" /\ pending' = Absent /\ job'[q].told = Outcome(job[q])
           /\ \A p \in Procs \ {q} : job'[p] = job[p]
<1> DEFINE Kept == \A p \in Procs \ {q} : job'[p] = job[p]
<1>1. Outcome(job[q]) \in Results /\ job[q] \in Job /\ "discard" \in Places
  BY DEF Outcome, Results, TypeOK, Places
<1>2. CASE DiscardPending(q)
  BY <1>1, <1>2, OneJob DEF DiscardPending, ReloadPending
<1>3. CASE ReloadPending(q)
  <2> DEFINE j == [job[q] EXCEPT !.told = "store", !.pc = "discard"]
  <2>1. CASE End(q, Outcome(job[q])) /\ pending.end # 0
    BY <1>1, <1>3, <2>1, OneJob DEF ReloadPending, DiscardPending
  <2>2. CASE Goto(q, "discard")
    BY <1>1, <1>3, <2>2, OneJob DEF ReloadPending, DiscardPending
  <2>3. CASE job' = [job EXCEPT ![q].told = "store", ![q].pc = "discard"]
    <3>1. Becomes(q, j) /\ j.told = "store"
      BY <1>1, <2>3 DEF TypeOK, Becomes, Job
    <3> HIDE DEF j
    <3>2. job'[q].told = "store" /\ Kept
      BY <3>1, OneJob
    <3> QED BY <1>3, <3>2 DEF ReloadPending, DiscardPending
  <2> QED BY <1>3, <2>1, <2>2, <2>3 DEF ReloadPending
<1> QED BY <1>2, <1>3

\* What a step makes of the checkpoint and of how a command stands.
LEMMA StepTold ==
    ASSUME TypeOK, NEW q \in Procs, Stepping(q)
    PROVE  /\ \A p \in Procs \ {q} : job'[p] = job[p]
           /\ \/ job'[q].told \in Plainly \cup {job[q].told}
              \/ ReloadPending(q) \/ DiscardPending(q)
           /\ \/ job[q].pc = "idle" \/ pending' = pending
              \/ job'[q].told \in {job[q].told, "done", "pending"}
              \/ job[q].mode # "verify" \/ DiscardPending(q)
<1>1. CASE Login(q) \/ LoginStored(q) \/ Renew(q) \/ Verify(q) \/ Refresh(q)
  BY <1>1, StartTold
<1>2. CASE \/ ClearPending(q) \/ DeferToPending(q) \/ MergeWrites(q) \/ FinishPending(q)
           \/ Supersede(q) \/ (Walk(q) /\ pending' # pending)
  BY <1>2, WriterTold
<1>3. CASE \/ PlanLogin(q) \/ PasswordStage(q) \/ BeginAuth(q) \/ LoadPending(q) \/ EndAuth(q)
           \/ LookUpTokens(q) \/ MergeReads(q) \/ ProcessAuth(q) \/ SubmitKmsi(q)
           \/ PostSaml(q) \/ Persist(q) \/ Crash(q) \/ (Walk(q) /\ pending' = pending)
  BY <1>3, ReaderTold
<1>4. CASE ReloadPending(q) \/ DiscardPending(q)
  BY <1>4, FailedTold
<1> QED BY <1>1, <1>2, <1>3, <1>4 DEF Stepping, Advance

\* An `auth verify` that fails after its code was accepted leaves the tokens in the
\* checkpoint for the next (complete_mfa_pending, ms_auth.py).
THEOREM TokensStay == OnePerson => (Spec => AcceptedIsKept)
<1> SUFFICES ASSUME OnePerson
             PROVE  Spec => AcceptedIsKept
  OBVIOUS
<1>1. ASSUME TypeOK, IInv, [Next]_vars, NEW p \in Procs,
             job[p].mode = "verify", job[p].pc # "idle", job[p].tok # 0,
             pending.begin = job[p].tok, pending.end = job[p].tok, job'[p].told = "failed"
      PROVE  pending'.end = job[p].tok
  <2>1. /\ Shape(p, job[p]) /\ (job[p].cmd \in Checkpoints => Holds(job[p]))
    BY <1>1, Running
  <2>2. /\ job[p].told = "none" \/ (job[p].told = "store" /\ job[p].pc = "discard")
        /\ job[p].pc = "discard" /\ job[p].told = "none" => pending.end = 0
    BY <1>1, <2>1 DEF Shape, Holds, Checkpoints
  <2>3. CASE UNCHANGED vars
    BY <1>1, <2>3 DEF vars
  <2>4. ASSUME NEW q \in Procs, Stepping(q)
        PROVE  pending'.end = job[p].tok
    <3>1. q = p
      BY <1>1, <2>2, <2>4, StepTold
    <3>2. CASE DiscardPending(p)
      BY <1>1, <2>2, <3>2, FailedTold DEF Outcome
    <3> QED BY <1>1, <2>2, <2>4, <3>1, <3>2, StepTold
  <2> QED BY <1>1, <2>3, <2>4 DEF Next, Stepping
<1>2. TypeOK /\ IInv /\ [Next]_vars =>
        [\A p \in Procs :
          (/\ job[p].mode = "verify" /\ job[p].pc # "idle"
           /\ job[p].tok # 0 /\ pending.begin = job[p].tok /\ pending.end = job[p].tok
           /\ job'[p].told = "failed")
          => pending'.end = job[p].tok]_vars
  BY <1>1
<1> QED BY <1>2, Invariance, PTL DEF Spec, AcceptedIsKept

\* An `auth verify` that ends on an expired password leaves no checkpoint of its
\* challenge (_advance_to_saml, ms_auth.py).
THEOREM ExpiredGoes == OnePerson => (Spec => ExpiredIsDiscarded)
<1> SUFFICES ASSUME OnePerson
             PROVE  Spec => ExpiredIsDiscarded
  OBVIOUS
<1>1. ASSUME TypeOK, IInv, [Next]_vars, NEW p \in Procs,
             job[p].mode = "verify", job[p].told # "expired", job'[p].told = "expired"
      PROVE  pending'.begin # job[p].ch
  <2>1. PICK q \in Procs : Stepping(q)
    BY <1>1 DEF Next, Stepping, vars
  <2>2. q = p
    BY <1>1, <2>1, StepTold
  <2>3. ReloadPending(p) \/ DiscardPending(p)
    BY <1>1, <2>1, <2>2, StepTold DEF Plainly
  <2>4. job[p].pc \in {"reload", "discard"}
    BY <2>3 DEF ReloadPending, DiscardPending
  <2>5. /\ Shape(p, job[p]) /\ PendingInv /\ (job[p].cmd \in Checkpoints => Holds(job[p]))
    BY <1>1, <2>4, Running
  <2>6. /\ job[p].ch # 0
        /\ Expired(job[p].page) /\ job[p].hops < Hops => pending.begin = 0
    BY <1>1, <2>4, <2>5 DEF Shape, Holds, Checkpoints
  <2>7. CASE DiscardPending(p)
    BY <2>6, <2>7, IdleFields DEF DiscardPending
  <2>8. CASE ReloadPending(p)
    <3>1. pending.end # 0 /\ Outcome(job[p]) = "expired"
      BY <1>1, <2>8, FailedTold
    <3>2. Expired(job[p].page) /\ job[p].hops < Hops
      BY <3>1 DEF Outcome
    <3> QED BY <2>5, <2>6, <3>1, <3>2 DEF PendingInv
  <2> QED BY <2>3, <2>7, <2>8
<1>2. TypeOK /\ IInv /\ [Next]_vars =>
        [\A p \in Procs :
          job[p].mode = "verify" /\ job[p].told # "expired" /\ job'[p].told = "expired"
          => pending'.begin # job[p].ch]_vars
  BY <1>1
<1> QED BY <1>2, Invariance, PTL DEF Spec, ExpiredIsDiscarded
=============================================================================
