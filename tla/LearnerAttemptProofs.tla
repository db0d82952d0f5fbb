-------------------------- MODULE LearnerAttemptProofs -------------------------
(***************************************************************************)
(* Proofs about LearnerAttempt, for any number of processes, accounts,     *)
(* attempts, pages and answers.  IInv is inductive together with TypeOK:   *)
(* the process that holds the lock works on the checkpoint as the file     *)
(* has it, or on none while its start has not yet replaced one it could    *)
(* not read, and what the checkpoint says of its attempt is so.  TakenInv  *)
(* adds which attempts the CLI answers for when one account is used.       *)
(***************************************************************************)
EXTENDS LearnerAttempt, TLAPS

Writes    == {"answer", "next", "previous", "submit"}
Starting  == {"begin", "named", "opening"}
Writing   == {"answers", "stored", "post", "moved", "finish", "confirm", "rpc", "receipt"}
\* Where a write is about to be sent, and the last one's outcome is known.
Sending   == {"answers", "post", "finish", "rpc"}

\* What a checkpoint says is so: it names an attempt and one of its pages that the
\* server showed, unless the start's reply was lost; no write to an active attempt is
\* in doubt; a submitted attempt is.
Fits(c) ==
    /\ c.status = "absent" => c = NoCursor
    /\ c.status # "absent" => c.actor \in Accounts
    /\ c.op = "none" <=> c.status # "uncertain"
    /\ c.status # "absent" /\ c.op # "start" => c.attempt # 0
    /\ c.attempt # 0 => c.page \in shown[c.attempt]
    /\ c.status = "active" => c.attempt \notin doubt
    /\ c.status = "submitted" => status[c.attempt] = "submitted"

\* The command works on the checkpoint of the file, or is a start that could not read
\* it and has not replaced it.
Read(p)   == st[p] = cursor
Unread(p) ==
    /\ pc[p] \in {"actor", "summary", "startintent"}
    /\ cmd[p] = "start" /\ st[p] = NoCursor /\ cursor.status # "absent"

\* A command has the lock, and the file says what it has in memory.
LockInv(p) == pc[p] # "idle" => holder = p /\ (Read(p) \/ Unread(p))

\* A start has the account of an unsettled attempt, and keeps what it will restore.
StartInv(p) ==
    /\ pc[p] \in {"summary", "startintent"} \union Starting =>
          /\ who[p] \in Accounts
          /\ st[p].status = "uncertain" => st[p].actor = who[p]
    /\ pc[p] \in Starting => cursor.status = "uncertain" /\ cursor.op = "start"
    /\ pc[p] = "begin" => Fits(old[p])
    /\ pc[p] \in {"begin", "named"} =>
          /\ old[p].status = "uncertain" => old[p].actor = who[p]
          /\ cursor.attempt = IF Kept(old[p], who[p]) THEN old[p].attempt ELSE 0
    /\ pc[p] \in {"named", "opening"} =>
          got[p].attempt # 0 /\ got[p].page \in shown[got[p].attempt]

\* A write restores, when nothing was sent, the active checkpoint of its attempt.
WriteInv(p) ==
    /\ pc[p] = "actor" /\ cmd[p] \in Opening => cursor.status \in {"active", "uncertain"}
    /\ pc[p] = "actor" => cmd[p] # "none"
    /\ pc[p] = "listing" => cursor.attempt # 0
    /\ pc[p] = "read" =>
          /\ cmd[p] \in Opening
          /\ cursor.status = "active" \/ (cursor.op = "answer" /\ cmd[p] = "page")
    /\ pc[p] = "intent" => cursor.status = "active" /\ cmd[p] \in Writes
    /\ pc[p] \in Writing =>
          /\ cursor.status = "uncertain" /\ cursor.op \in Writes
          /\ old[p] = Settled(cursor)
    /\ pc[p] \in Sending => cursor.attempt \notin doubt
    /\ pc[p] = "stored" => todo[p] > 0
    /\ pc[p] = "moved" => Target(p) \in PageNums /\ Target(p) \in shown[cursor.attempt]

\* Nothing was shown of an attempt nobody has begun.
Unshown == \A x \in Attempts : status[x] = "none" => shown[x] = {}

IInv ==
    /\ Fits(cursor)
    /\ Unshown
    /\ \A p \in Procs : LockInv(p) /\ StartInv(p) /\ WriteInv(p)

\* The attempts the CLI answers for, by what the checkpoint says.
Owns(c) ==
    /\ c.status \in {"absent", "submitted"} => taken = {}
    /\ c.attempt # 0 => taken \subseteq {c.attempt}

\* What a start knows of them: a new attempt only begins when there is none.
StartKnows(p) ==
    /\ pc[p] = "startintent" /\ ~adv[p] /\ st[p] = cursor =>
          taken = {} /\ ~Kept(cursor, who[p])
    /\ pc[p] = "begin" /\ ~adv[p] => taken = {} /\ ~Kept(old[p], who[p])
    /\ pc[p] = "begin" => Owns(old[p])
    /\ pc[p] = "named" => status[got[p].attempt] # "none" /\ owner[got[p].attempt] \in Accounts

TakenInv ==
    /\ Owns(cursor)
    /\ \A x, y \in taken : x = y
    /\ \A x \in taken : status[x] # "none" /\ owner[x] \in Accounts
    /\ \A p \in Procs : StartKnows(p)

OneAccount == \A a, b \in Accounts : a = b

-----------------------------------------------------------------------------
(* Checkpoints.                                                            *)

\* The fields of a checkpoint.
LEMMA Fields ==
    ASSUME NEW c \in Cursors
    PROVE  /\ c.status \in {"absent", "active", "uncertain", "submitted"}
           /\ c.op \in {"none", "start", "answer", "next", "previous", "submit"}
           /\ c.actor \in Accounts \union {NoAccount}
           /\ c.attempt \in Attempts \union {0}
           /\ c.page \in PageNums \union {0}
           /\ c.timer \in BOOLEAN
  BY DEF Cursors

\* An absent checkpoint.
LEMMA NoCursorFields ==
    /\ NoCursor \in Cursors
    /\ NoCursor.status = "absent" /\ NoCursor.op = "none" /\ NoCursor.actor = NoAccount
    /\ NoCursor.attempt = 0 /\ NoCursor.page = 0 /\ NoCursor.timer = FALSE
  BY DEF NoCursor, Cursors

\* A checkpoint whose last write is known.
LEMMA SettledFields ==
    ASSUME NEW c \in Cursors
    PROVE  /\ Settled(c) \in Cursors
           /\ Settled(c).status = "active" /\ Settled(c).op = "none"
           /\ Settled(c).actor = c.actor
           /\ Settled(c).attempt = c.attempt /\ Settled(c).page = c.page
  BY DEF Settled, Cursors

\* ... with the limit a start has read.
Limited(c, t) == [Settled(c) EXCEPT !.timer = t]

\* Only the limit differs.
LEMMA LimitedFields ==
    ASSUME NEW c \in Cursors, NEW t \in BOOLEAN
    PROVE  /\ Limited(c, t) \in Cursors
           /\ Limited(c, t).status = "active" /\ Limited(c, t).op = "none"
           /\ Limited(c, t).actor = c.actor
           /\ Limited(c, t).attempt = c.attempt /\ Limited(c, t).page = c.page
  BY DEF Limited, Settled, Cursors

\* ... on another page.
Turned(c, n) == [Settled(c) EXCEPT !.page = n]

\* Only the page differs.
LEMMA TurnedFields ==
    ASSUME NEW c \in Cursors, NEW n \in PageNums
    PROVE  /\ Turned(c, n) \in Cursors
           /\ Turned(c, n).status = "active" /\ Turned(c, n).op = "none"
           /\ Turned(c, n).actor = c.actor
           /\ Turned(c, n).attempt = c.attempt /\ Turned(c, n).page = n
  BY DEF Turned, Settled, Cursors

\* A checkpoint of an attempt that is over.
LEMMA DoneFields ==
    ASSUME NEW c \in Cursors
    PROVE  /\ Done(c) \in Cursors
           /\ Done(c).status = "submitted" /\ Done(c).op = "none"
           /\ Done(c).actor = c.actor
           /\ Done(c).attempt = c.attempt /\ Done(c).page = c.page
  BY DEF Done, Cursors

\* The intent of a write.
Meant(c, op) == [c EXCEPT !.status = "uncertain", !.op = op]

\* It settles to what it was made from.
LEMMA MeantFields ==
    ASSUME NEW c \in Cursors, NEW op \in Writes, c.status = "active", c.op = "none"
    PROVE  /\ Meant(c, op) \in Cursors
           /\ Meant(c, op).status = "uncertain" /\ Meant(c, op).op = op
           /\ Meant(c, op).actor = c.actor
           /\ Meant(c, op).attempt = c.attempt /\ Meant(c, op).page = c.page
           /\ c = Settled(Meant(c, op))
  BY DEF Meant, Settled, Cursors, Writes

\* A checkpoint that a start has sealed.
Named(c, x, n) == [c EXCEPT !.attempt = x, !.page = n]

\* Only its attempt and page differ.
LEMMA NamedFields ==
    ASSUME NEW c \in Cursors, NEW x \in Attempts \union {0}, NEW n \in PageNums \union {0}
    PROVE  /\ Named(c, x, n) \in Cursors
           /\ Named(c, x, n).status = c.status /\ Named(c, x, n).op = c.op
           /\ Named(c, x, n).actor = c.actor
           /\ Named(c, x, n).attempt = x /\ Named(c, x, n).page = n
  BY DEF Named, Cursors

-----------------------------------------------------------------------------
(* What a step leaves of the invariant.                                    *)

\* The types of the variables a command keeps in memory, and of the lock.
Local ==
    /\ holder \in Procs \union {NoProc}
    /\ pc \in [Procs -> Places]
    /\ cmd \in [Procs -> Commands]
    /\ st \in [Procs -> Cursors]
    /\ old \in [Procs -> Cursors]
    /\ who \in [Procs -> Accounts \union {NoAccount}]
    /\ got \in [Procs -> [attempt : Attempts \union {0}, page : PageNums \union {0}]]
    /\ todo \in [Procs -> 0 .. Batch]
    /\ adv \in [Procs -> BOOLEAN]
    /\ batch \in [Procs -> BOOLEAN]

\* The types of the others.
Shared ==
    /\ cursor \in Cursors
    /\ account \in Accounts
    /\ past \in SUBSET Attempts
    /\ status \in [Attempts -> {"none", "open", "late", "processing", "submitted"}]
    /\ owner \in [Attempts -> Accounts \union {NoAccount}]
    /\ spot \in [Attempts -> PageNums]
    /\ inflight \in SUBSET Attempts
    /\ events \in 0 .. MaxEvents
    /\ shown \in [Attempts -> SUBSET PageNums]
    /\ taken \in SUBSET Attempts
    /\ doubt \in SUBSET Attempts

\* The server shows more and more pages of attempts that were begun, and submitted
\* attempts stay so.
Onward ==
    \A x \in Attempts :
        /\ shown[x] \subseteq shown'[x]
        /\ status[x] = "submitted" => status'[x] = "submitted"
        /\ status'[x] = "none" => status[x] = "none" /\ shown'[x] = shown[x]

\* A step without the server.
LEMMA SameServer ==
    ASSUME UNCHANGED server
    PROVE  Onward /\ UNCHANGED <<past, status, owner, spot, inflight, shown>>
  BY DEF Onward, server

\* The types are those of the two.
LEMMA Types == TypeOK <=> Local /\ Shared
  BY DEF TypeOK, Local, Shared

\* So after a step.
LEMMA TypesNext == TypeOK' <=> Local' /\ Shared'
  BY DEF TypeOK, Local, Shared

\* What is so of a checkpoint stays so, unless a write to its attempt is sent.
LEMMA FitsOn ==
    ASSUME TypeOK, NEW c \in Cursors, Fits(c), Onward,
           c.status = "active" => c.attempt \notin doubt'
    PROVE  Fits(c)'
<1>1. c.attempt \in Attempts \union {0}
  BY Fields
<1>2. c.attempt # 0 => c.page \in shown'[c.attempt]
  BY <1>1 DEF Fits, Onward
<1>3. c.status = "submitted" => status'[c.attempt] = "submitted"
  <2>1. c.status = "submitted" => c.attempt # 0
    BY DEF Fits
  <2> QED BY <1>1, <2>1 DEF Fits, Onward
<1> QED BY <1>2, <1>3 DEF Fits

\* While one command has the lock, no other runs.
LEMMA OthersIdle ==
    ASSUME IInv, NEW p \in Procs, pc[p] # "idle", NEW q \in Procs, q # p
    PROVE  pc[q] = "idle"
  BY DEF IInv, LockInv

\* Only the process steps.
Alone(p) == \A q \in Procs \ {p} : pc'[q] = pc[q]

\* An idle process has nothing to answer for.
LEMMA IdleInv ==
    ASSUME NEW q, pc'[q] = "idle"
    PROVE  LockInv(q)' /\ StartInv(q)' /\ WriteInv(q)'
  BY DEF LockInv, StartInv, WriteInv, Starting, Writing, Sending

\* Who is past the intent of a start, or does not start, has read the file.
LEMMA HasRead ==
    ASSUME IInv, NEW p \in Procs, pc[p] \notin {"idle", "actor", "summary", "startintent"}
    PROVE  holder = p /\ st[p] = cursor
  BY DEF IInv, LockInv, Read, Unread

\* So the process that steps answers for all of them.
LEMMA OneSteps ==
    ASSUME IInv, NEW p \in Procs, pc[p] # "idle" \/ holder = NoProc, Alone(p), Onward,
           Fits(cursor)', LockInv(p)', StartInv(p)', WriteInv(p)'
    PROVE  IInv'
<1>1. ASSUME NEW q \in Procs
      PROVE  LockInv(q)' /\ StartInv(q)' /\ WriteInv(q)'
  <2>1. CASE q = p
    BY <2>1
  <2>2. CASE q # p
    <3>1. pc[q] = "idle"
      BY <2>2, OthersIdle, NameAssumption DEF IInv, LockInv
    <3> QED BY <2>2, <3>1, IdleInv DEF Alone
  <2> QED BY <2>1, <2>2
<1>2. Unshown'
  BY DEF IInv, Unshown, Onward
<1> QED BY <1>1, <1>2 DEF IInv

-----------------------------------------------------------------------------
(* Commands that end.                                                      *)

\* The command's memory is gone.
LEMMA Ends ==
    ASSUME TypeOK, NEW p \in Procs, End(p)
    PROVE  Local' /\ Alone(p) /\ pc'[p] = "idle"
<1>1. NoCursor \in Cursors /\ "idle" \in Places /\ "none" \in Commands
      /\ Nothing \in [attempt : Attempts \union {0}, page : PageNums \union {0}]
  BY NoCursorFields DEF Places, Commands, Nothing
<1>2. 0 \in 0 .. Batch
  BY SizeAssumption
<1> QED BY <1>1, <1>2 DEF TypeOK, Local, End, Alone

\* A command that ends keeps the invariant when what it leaves in the file is so.
LEMMA EndStep ==
    ASSUME TypeOK, IInv, NEW p \in Procs, pc[p] # "idle", End(p), Shared', Onward,
           Fits(cursor)'
    PROVE  TypeOK' /\ IInv'
<1>1. Local' /\ Alone(p) /\ pc'[p] = "idle"
  BY Ends
<1>2. IInv'
  BY <1>1, OneSteps, IdleInv
<1> QED BY <1>1, <1>2, TypesNext

\* Refusing changes nothing else.
LEMMA RefuseStep ==
    ASSUME TypeOK, IInv, NEW p \in Procs, pc[p] # "idle", Refuse(p)
    PROVE  TypeOK' /\ IInv'
<1>1. End(p) /\ UNCHANGED <<cursor, account, server, events, taken, doubt>>
  BY DEF Refuse
<1>2. Shared'
  BY <1>1, Types DEF Shared, server
<1>3. Fits(cursor)'
  BY <1>1 DEF IInv, Fits, server
<1> QED BY <1>1, <1>2, <1>3, SameServer, EndStep

\* Restoring puts back what was so.
LEMMA RestoreStep ==
    ASSUME TypeOK, IInv, NEW p \in Procs, pc[p] # "idle", Restore(p), Fits(old[p])
    PROVE  TypeOK' /\ IInv'
<1>1. End(p) /\ cursor' = old[p] /\ UNCHANGED <<account, server, events, taken, doubt>>
  BY DEF Restore
<1>2. old[p] \in Cursors
  BY DEF TypeOK
<1>3. Shared'
  BY <1>1, <1>2, Types DEF Shared, server
<1>4. Fits(cursor)'
  BY <1>1 DEF Fits, server
<1> QED BY <1>1, <1>3, <1>4, SameServer, EndStep

\* What a write would restore is so: nothing is in doubt.
LEMMA OldFits ==
    ASSUME TypeOK, IInv, NEW p \in Procs, pc[p] \in Sending
    PROVE  Fits(old[p])
<1>1. pc[p] \in Writing
  BY DEF Sending, Writing
<1>2. /\ cursor \in Cursors /\ Fits(cursor) /\ WriteInv(p)
  BY DEF IInv, TypeOK
<1>3. /\ cursor.status = "uncertain" /\ cursor.op \in Writes /\ old[p] = Settled(cursor)
      /\ cursor.attempt \notin doubt
  BY <1>1, <1>2 DEF WriteInv
<1> QED BY <1>2, <1>3, SettledFields DEF Fits, Writes

\* Stop: a killed process leaves the file as it is.
LEMMA StopStep ==
    ASSUME TypeOK, IInv, NEW p \in Procs, Stop(p)
    PROVE  TypeOK' /\ IInv'
<1>1. /\ pc[p] # "idle" /\ events < MaxEvents /\ events' = events + 1 /\ End(p)
      /\ UNCHANGED <<cursor, account, server, taken, doubt>>
  BY DEF Stop
<1>2. events' \in 0 .. MaxEvents
  BY <1>1, SizeAssumption DEF TypeOK
<1>3. Shared'
  BY <1>1, <1>2, Types DEF Shared, server
<1>4. Fits(cursor)'
  BY <1>1 DEF IInv, Fits, server
<1> QED BY <1>1, <1>3, <1>4, SameServer, EndStep

\* The actions that refuse.
Refusals(p) ==
    \/ RefuseActor(p) \/ RefuseSummary(p) \/ StartFails(p) \/ SealRefused(p) \/ OpenRefused(p)
    \/ ReadFails(p) \/ IntentTimeUp(p) \/ AnswerUnknown(p) \/ TurnUnknown(p)
    \/ ConfirmUnknown(p) \/ SubmitUnknown(p) \/ VerifyNotSubmitted(p)

\* They change nothing but the command's memory.
LEMMA RefusalsStep ==
    ASSUME TypeOK, IInv, NEW p \in Procs, Refusals(p)
    PROVE  TypeOK' /\ IInv'
<1>1. Refuse(p) /\ pc[p] # "idle"
  BY DEF Refusals, RefuseActor, RefuseSummary, StartFails, SealRefused, OpenRefused, ReadFails,
         IntentTimeUp, AnswerUnknown, TurnUnknown, ConfirmUnknown, SubmitUnknown,
         VerifyNotSubmitted
<1> QED BY <1>1, RefuseStep

\* The actions that restore the checkpoint of before the intent.
Restorations(p) ==
    StartRefused(p) \/ WriteRefused(p) \/ AnswersTimeUp(p) \/ SubmitUnanswered(p)

\* They restore what was so.
LEMMA RestorationsStep ==
    ASSUME TypeOK, IInv, NEW p \in Procs, Restorations(p)
    PROVE  TypeOK' /\ IInv'
<1>1. Restore(p) /\ (pc[p] = "begin" \/ pc[p] \in Sending)
  BY DEF Restorations, StartRefused, WriteRefused, AnswersTimeUp, SubmitUnanswered, Sending
<1>2. pc[p] = "begin" => Fits(old[p])
  BY DEF IInv, StartInv
<1>3. pc[p] # "idle"
  BY <1>1 DEF Sending
<1> QED BY <1>1, <1>2, <1>3, OldFits, RestoreStep

-----------------------------------------------------------------------------
(* Commands that start, and the start of an attempt.                       *)

\* Run: the command takes the lock and the file's checkpoint.
LEMMA RunStep ==
    ASSUME TypeOK, IInv, NEW p \in Procs, NEW c \in Commands \ {"none"}, Run(p, c)
    PROVE  TypeOK' /\ IInv'
<1>1. /\ pc[p] = "idle" /\ holder = NoProc
      /\ c \in Opening => cursor.status \in {"active", "uncertain"}
      /\ holder' = p /\ cmd' = [cmd EXCEPT ![p] = c] /\ st' = [st EXCEPT ![p] = cursor]
      /\ pc' = [pc EXCEPT ![p] = "actor"]
      /\ UNCHANGED <<cursor, old, who, got, todo, adv, batch, account, server,
                     events, taken, doubt>>
  BY DEF Run, Goto
<1>2. TypeOK'
  BY <1>1 DEF TypeOK, server, Places
<1>3. /\ Alone(p) /\ pc'[p] = "actor" /\ cmd'[p] = c /\ st'[p] = cursor'
  BY <1>1 DEF TypeOK, Alone
<1>4. Fits(cursor)'
  BY <1>1 DEF IInv, Fits, server
<1>5. LockInv(p)' /\ StartInv(p)' /\ WriteInv(p)'
  BY <1>1, <1>3 DEF LockInv, Read, StartInv, WriteInv, Starting, Writing, Sending
<1> QED BY <1>1, <1>2, <1>3, <1>4, <1>5, OneSteps, SameServer

\* RunUnread: the start takes the lock, and the file for none.
LEMMA RunUnreadStep ==
    ASSUME TypeOK, IInv, NEW p \in Procs, RunUnread(p)
    PROVE  TypeOK' /\ IInv'
<1>1. /\ pc[p] = "idle" /\ holder = NoProc /\ cursor.status # "absent"
      /\ events < MaxEvents /\ events' = events + 1
      /\ holder' = p /\ cmd' = [cmd EXCEPT ![p] = "start"]
      /\ st' = [st EXCEPT ![p] = NoCursor] /\ pc' = [pc EXCEPT ![p] = "actor"]
      /\ UNCHANGED <<cursor, old, who, got, todo, adv, batch, account, server,
                     taken, doubt>>
  BY DEF RunUnread, Goto
<1>2. events' \in 0 .. MaxEvents /\ "start" \in Commands
  BY <1>1, SizeAssumption DEF TypeOK, Commands
<1>3. TypeOK'
  BY <1>1, <1>2, NoCursorFields DEF TypeOK, server, Places
<1>4. Alone(p) /\ pc'[p] = "actor" /\ cmd'[p] = "start" /\ st'[p] = NoCursor
  BY <1>1 DEF TypeOK, Alone
<1>5. Fits(cursor)'
  BY <1>1 DEF IInv, Fits, server
<1>6. LockInv(p)' /\ StartInv(p)' /\ WriteInv(p)'
  BY <1>1, <1>4 DEF LockInv, Unread, StartInv, WriteInv, Starting, Writing, Sending, Opening
<1> QED BY <1>1, <1>3, <1>4, <1>5, <1>6, OneSteps, SameServer

\* Forget: no command runs, and no checkpoint is left.
LEMMA ForgetStep ==
    ASSUME TypeOK, IInv, NEW p \in Procs, Forget(p)
    PROVE  TypeOK' /\ IInv'
<1>1. /\ pc[p] = "idle" /\ holder = NoProc /\ cursor' = NoCursor /\ taken' = {}
      /\ UNCHANGED <<holder, local, account, server, events, doubt>>
  BY DEF Forget
<1>2. TypeOK'
  BY <1>1, NoCursorFields DEF TypeOK, local, server
<1>3. Alone(p) /\ pc'[p] = "idle"
  BY <1>1 DEF Alone, local
<1>4. Fits(cursor)'
  BY <1>1, NoCursorFields DEF Fits
<1> QED BY <1>1, <1>2, <1>3, <1>4, OneSteps, IdleInv, SameServer

\* CheckActor: the checkpoint is of the account that is signed in, or of none in doubt.
LEMMA CheckActorStep ==
    ASSUME TypeOK, IInv, NEW p \in Procs, CheckActor(p)
    PROVE  TypeOK' /\ IInv'
<1> DEFINE next == CASE cmd[p] = "start" -> "summary" [] cmd[p] = "verify" -> "listing"
                     [] OTHER -> "read"
<1>1. /\ pc[p] = "actor" /\ MayGoOn(p)
      /\ who' = [who EXCEPT ![p] = account] /\ pc' = [pc EXCEPT ![p] = next]
      /\ UNCHANGED <<holder, cursor, cmd, st, old, got, todo, adv, batch, account,
                     server, events, taken, doubt>>
  BY DEF CheckActor, Goto
<1>2. /\ next \in {"summary", "listing", "read"}
      /\ next = "summary" <=> cmd[p] = "start"
      /\ next = "listing" => cmd[p] = "verify"
      /\ next = "read" => cmd[p] \notin {"start", "verify"}
  OBVIOUS
<1> HIDE DEF next
<1>3. TypeOK'
  BY <1>1, <1>2 DEF TypeOK, server, Places
<1>4. Alone(p) /\ pc'[p] = next /\ who'[p] = account
  BY <1>1 DEF TypeOK, Alone
<1>5. /\ Fits(cursor) /\ LockInv(p) /\ WriteInv(p) /\ cursor \in Cursors
  BY DEF IInv, TypeOK
<1>6. /\ holder = p /\ cmd[p] \in Commands \ {"none"} /\ account \in Accounts
      /\ Read(p) \/ Unread(p)
      /\ next # "summary" => st[p] = cursor
  BY <1>1, <1>5, <1>2 DEF LockInv, WriteInv, TypeOK, Read, Unread
<1>7. Fits(cursor)'
  BY <1>1, <1>5 DEF Fits, server
<1>8. LockInv(p)'
  BY <1>1, <1>2, <1>4, <1>6 DEF LockInv, Read, Unread
<1>9. StartInv(p)'
  <2>1. (next = "summary" /\ st[p].status = "uncertain") => st[p].actor = account
    BY <1>1, <1>2, <1>6 DEF MayGoOn, MayStart
  <2> QED BY <1>1, <1>2, <1>4, <1>6, <2>1 DEF StartInv, Starting
<1>10. WriteInv(p)'
  <2>1. next = "listing" => cursor.attempt # 0
    BY <1>1, <1>2, <1>6 DEF MayGoOn, MayVerify
  <2>2. next = "read" =>
           /\ cmd[p] \in Opening
           /\ cursor.status = "active" \/ (cursor.op = "answer" /\ cmd[p] = "page")
    BY <1>1, <1>2, <1>6 DEF MayGoOn, MayOpen, Commands
  <2> QED BY <1>1, <1>2, <1>4, <2>1, <2>2 DEF WriteInv, Writing, Sending
<1> QED BY <1>1, <1>3, <1>4, <1>7, <1>8, <1>9, <1>10, OneSteps, SameServer

\* ReadSummary: the start may continue, or start.
LEMMA ReadSummaryStep ==
    ASSUME TypeOK, IInv, NEW p \in Procs, ReadSummary(p)
    PROVE  TypeOK' /\ IInv'
<1>1. /\ pc[p] = "summary"
      /\ adv' = [adv EXCEPT ![p] = InProgress(who[p]) # {}]
      /\ pc' = [pc EXCEPT ![p] = "startintent"]
      /\ UNCHANGED <<holder, cursor, cmd, st, old, who, got, todo, batch, account,
                     server, events, taken, doubt>>
  BY DEF ReadSummary, Goto
<1>2. TypeOK'
  BY <1>1 DEF TypeOK, server, Places
<1>3. Alone(p) /\ pc'[p] = "startintent"
  BY <1>1 DEF TypeOK, Alone
<1>4. Fits(cursor) /\ LockInv(p) /\ StartInv(p)
  BY DEF IInv
<1>5. Fits(cursor)' /\ LockInv(p)' /\ WriteInv(p)'
  BY <1>1, <1>3, <1>4 DEF Fits, server, LockInv, Read, Unread, WriteInv, Writing, Sending
<1>6. StartInv(p)'
  BY <1>1, <1>3, <1>4 DEF StartInv, Starting
<1> QED BY <1>1, <1>2, <1>3, <1>5, <1>6, OneSteps, SameServer

\* The durable intent of a start.
LEMMA StartFields ==
    ASSUME NEW a \in Accounts, NEW x \in Attempts \union {0}, NEW n \in PageNums \union {0},
           NEW t \in BOOLEAN,
           NEW d, d = [status |-> "uncertain", op |-> "start", actor |-> a,
                       attempt |-> x, page |-> n, timer |-> t]
    PROVE  /\ d \in Cursors
           /\ d.status = "uncertain" /\ d.op = "start" /\ d.actor = a
           /\ d.attempt = x /\ d.page = n
  BY DEF Cursors

\* StartIntent: the checkpoint keeps the account's own unsettled attempt, or none.
LEMMA StartIntentStep ==
    ASSUME TypeOK, IInv, NEW p \in Procs, StartIntent(p)
    PROVE  TypeOK' /\ IInv'
<1> DEFINE kept == Kept(st[p], who[p])
           x == IF kept THEN st[p].attempt ELSE 0
           n == IF kept THEN st[p].page ELSE 0
           t == kept /\ st[p].timer
           next == [status |-> "uncertain", op |-> "start", actor |-> who[p],
                    attempt |-> x, page |-> n, timer |-> t]
<1>1. /\ pc[p] = "startintent" /\ cursor' = next /\ st' = [st EXCEPT ![p] = next]
      /\ old' = [old EXCEPT ![p] = st[p]] /\ pc' = [pc EXCEPT ![p] = "begin"]
      /\ UNCHANGED <<holder, cmd, who, got, todo, adv, batch, account, server, events, doubt>>
      /\ taken' \in {taken, {y \in taken : owner[y] # cursor.actor}}
  BY DEF StartIntent, Goto
<1>2. /\ Fits(st[p]) /\ holder = p /\ st[p] \in Cursors
      /\ who[p] \in Accounts /\ (st[p].status = "uncertain" => st[p].actor = who[p])
  <2>1. /\ holder = p /\ (st[p] = cursor \/ st[p] = NoCursor) /\ st[p] \in Cursors
        /\ who[p] \in Accounts /\ (st[p].status = "uncertain" => st[p].actor = who[p])
    BY <1>1 DEF IInv, LockInv, Read, Unread, StartInv, TypeOK
  <2>2. Fits(cursor) /\ Fits(NoCursor)
    BY NoCursorFields DEF IInv, Fits
  <2> QED BY <2>1, <2>2
<1>3. /\ x \in Attempts \union {0} /\ n \in PageNums \union {0} /\ t \in BOOLEAN
      /\ x # 0 => n \in shown[x]
  BY <1>2, Fields DEF Kept, Fits
<1>4. /\ next \in Cursors /\ next.status = "uncertain" /\ next.op = "start"
      /\ next.actor = who[p] /\ next.attempt = x /\ next.page = n
  <2> HIDE DEF x, n, t
  <2> QED BY <1>2, <1>3, StartFields
<1>11. x = IF Kept(st[p], who[p]) THEN st[p].attempt ELSE 0
  OBVIOUS
<1> HIDE DEF x, n, t, next, kept
<1>5. TypeOK'
  BY <1>1, <1>2, <1>4 DEF TypeOK, server, Places
<1>6. Alone(p) /\ pc'[p] = "begin" /\ st'[p] = next /\ old'[p] = st[p] /\ who'[p] = who[p]
  BY <1>1, <1>2 DEF TypeOK, Alone
<1>7. Fits(cursor)'
  <2>1. /\ cursor'.status = "uncertain" /\ cursor'.op = "start" /\ cursor'.actor \in Accounts
        /\ cursor'.attempt # 0 => cursor'.page \in shown'[cursor'.attempt]
    BY <1>1, <1>2, <1>3, <1>4 DEF server
  <2> QED BY <2>1 DEF Fits
<1>8. LockInv(p)'
  BY <1>1, <1>2, <1>6 DEF LockInv, Read
<1>9. StartInv(p)'
  <2>1. Fits(old[p])'
    BY <1>1, <1>2, <1>6 DEF Fits, server
  <2>2. next.attempt = IF Kept(st[p], who[p]) THEN st[p].attempt ELSE 0
    BY <1>4, <1>11
  <2>3. Kept(st[p], who[p]) <=> Kept(old'[p], who'[p])
    BY <1>6 DEF Kept
  <2>4. cursor'.attempt = IF Kept(old'[p], who'[p]) THEN old'[p].attempt ELSE 0
    BY <1>1, <1>6, <2>2, <2>3
  <2>5. cursor'.status = "uncertain" /\ cursor'.op = "start" /\ cursor'.actor = who'[p]
    BY <1>1, <1>4, <1>6
  <2>6. /\ who'[p] \in Accounts /\ st'[p].actor = who'[p]
        /\ old'[p].status = "uncertain" => old'[p].actor = who'[p]
    BY <1>2, <1>4, <1>6
  <2> QED BY <1>6, <2>1, <2>4, <2>5, <2>6 DEF StartInv, Starting
<1>10. WriteInv(p)'
  BY <1>6 DEF WriteInv, Writing, Sending
<1> QED BY <1>1, <1>5, <1>6, <1>7, <1>8, <1>9, <1>10, OneSteps, SameServer

\* What a start knows of the attempt the server named.
LEMMA GotFields ==
    ASSUME TypeOK, NEW p \in Procs, NEW x \in Attempts, NEW n \in PageNums,
           got' = [got EXCEPT ![p] = [attempt |-> x, page |-> n]]
    PROVE  /\ got' \in [Procs -> [attempt : Attempts \union {0}, page : PageNums \union {0}]]
           /\ got'[p].attempt = x /\ got'[p].page = n /\ x # 0
  BY SizeAssumption DEF TypeOK, Attempts

\* A begun start keeps its invariant when the server names one of its attempts.
LEMMA NamedStep ==
    ASSUME TypeOK, IInv, NEW p \in Procs, pc[p] = "begin", pc' = [pc EXCEPT ![p] = "named"],
           UNCHANGED <<holder, cursor, st, old, who, doubt>>, Onward,
           got'[p].attempt # 0, got'[p].page \in shown'[got'[p].attempt]
    PROVE  IInv'
<1>1. Alone(p) /\ pc'[p] = "named"
  BY DEF TypeOK, Alone
<1>2. Fits(cursor) /\ LockInv(p) /\ StartInv(p) /\ cursor \in Cursors
  BY DEF IInv, TypeOK
<1>3. Fits(cursor)'
  <2>1. cursor.status # "active"
    BY <1>2 DEF StartInv, Starting
  <2> QED BY <1>2, <2>1, FitsOn DEF Fits
<1>4. LockInv(p)'
  BY <1>1, <1>2 DEF LockInv, Read, Unread
<1>5. StartInv(p)'
  BY <1>1, <1>2 DEF StartInv, Starting, Kept
<1>6. WriteInv(p)'
  BY <1>1 DEF WriteInv, Writing, Sending
<1> QED BY <1>1, <1>3, <1>4, <1>5, <1>6, OneSteps

\* StartCreates: a new attempt, shown on its first page.
LEMMA StartCreatesStep ==
    ASSUME TypeOK, IInv, NEW p \in Procs, StartCreates(p)
    PROVE  TypeOK' /\ IInv'
<1>1. PICK x \in Unused :
         /\ status' = [status EXCEPT ![x] = "open"]
         /\ owner' = [owner EXCEPT ![x] = who[p]]
         /\ spot' = [spot EXCEPT ![x] = 1]
         /\ shown' = [shown EXCEPT ![x] = {1}]
         /\ taken' = taken \union {x}
         /\ got' = [got EXCEPT ![p] = [attempt |-> x, page |-> spot'[x]]]
  BY DEF StartCreates, Name
<1>2. /\ pc[p] = "begin" /\ pc' = [pc EXCEPT ![p] = "named"]
      /\ UNCHANGED <<holder, cursor, cmd, st, old, who, todo, adv, batch, account,
                     past, inflight, events, doubt>>
  BY DEF StartCreates, Goto
<1>3. /\ x \in Attempts /\ status[x] = "none" /\ 1 \in PageNums /\ who[p] \in Accounts
      /\ spot'[x] = 1 /\ shown'[x] = {1}
  BY <1>1, <1>2, SizeAssumption DEF Unused, PageNums, IInv, StartInv, Starting, TypeOK
<1>4. /\ got' \in [Procs -> [attempt : Attempts \union {0}, page : PageNums \union {0}]]
      /\ got'[p].attempt = x /\ got'[p].page = 1 /\ x # 0
  <2>1. got' = [got EXCEPT ![p] = [attempt |-> x, page |-> 1]]
    BY <1>1, <1>3
  <2> QED BY <1>3, <2>1, GotFields
<1>5. TypeOK'
  BY <1>1, <1>2, <1>3, <1>4 DEF TypeOK, Places
<1>6. Onward
  <2>1. shown[x] = {}
    BY <1>3 DEF IInv, Unshown
  <2> QED BY <1>1, <1>3, <2>1 DEF Onward, TypeOK
<1> QED BY <1>2, <1>3, <1>4, <1>5, <1>6, NamedStep

\* StartReopens: the attempt in progress, shown on the page the server holds.
LEMMA StartReopensStep ==
    ASSUME TypeOK, IInv, NEW p \in Procs, StartReopens(p)
    PROVE  TypeOK' /\ IInv'
<1>1. PICK x \in InProgress(who[p]) :
         /\ shown' = [shown EXCEPT ![x] = @ \union {spot[x]}]
         /\ got' = [got EXCEPT ![p] = [attempt |-> x, page |-> spot'[x]]]
  BY DEF StartReopens, Name
<1>2. /\ pc[p] = "begin" /\ pc' = [pc EXCEPT ![p] = "named"]
      /\ UNCHANGED <<holder, cursor, cmd, st, old, who, todo, adv, batch, account,
                     past, status, owner, spot, inflight, events, taken, doubt>>
  BY DEF StartReopens, Goto
<1>3. /\ x \in Attempts /\ status[x] # "none" /\ spot[x] \in PageNums
      /\ shown'[x] = shown[x] \union {spot[x]}
  BY <1>1 DEF InProgress, IsOpen, TypeOK
<1>4. /\ got' \in [Procs -> [attempt : Attempts \union {0}, page : PageNums \union {0}]]
      /\ got'[p].attempt = x /\ got'[p].page = spot[x] /\ x # 0
  <2>1. got' = [got EXCEPT ![p] = [attempt |-> x, page |-> spot[x]]]
    BY <1>1, <1>2
  <2> QED BY <1>3, <2>1, GotFields
<1>5. TypeOK'
  BY <1>1, <1>2, <1>3, <1>4 DEF TypeOK, Places
<1>6. Onward
  BY <1>1, <1>2, <1>3 DEF Onward, TypeOK
<1> QED BY <1>2, <1>3, <1>4, <1>5, <1>6, NamedStep

\* Seal: the checkpoint names the attempt, or goes on naming another.
LEMMA SealStep ==
    ASSUME TypeOK, IInv, NEW p \in Procs, Seal(p)
    PROVE  TypeOK' /\ IInv'
<1> DEFINE x == got[p].attempt
           n == got[p].page
           next == [st[p] EXCEPT !.attempt = x, !.page = n]
<1>1. /\ pc[p] = "named" /\ pc' = [pc EXCEPT ![p] = "opening"]
      /\ UNCHANGED <<holder, cmd, old, who, got, todo, adv, batch, account, server,
                     events, doubt>>
      /\ \/ cursor' = next /\ st' = [st EXCEPT ![p] = next] /\ Takes(p)
         \/ UNCHANGED <<cursor, st, taken>>
  BY DEF Seal, Goto
<1>2. /\ Fits(cursor) /\ holder = p /\ st[p] = cursor /\ cursor \in Cursors
      /\ who[p] \in Accounts /\ cursor.actor = who[p]
      /\ cursor.status = "uncertain" /\ cursor.op = "start"
      /\ x # 0 /\ n \in shown[x] /\ x \in Attempts \union {0} /\ n \in PageNums \union {0}
  BY <1>1, HasRead DEF IInv, StartInv, TypeOK, Starting
<1>3. /\ next \in Cursors /\ next.status = "uncertain" /\ next.op = "start"
      /\ next.actor = who[p] /\ next.attempt = x /\ next.page = n
  <2>1. next = Named(cursor, x, n)
    BY <1>2 DEF Named
  <2> HIDE DEF x, n, next
  <2> QED BY <1>2, <2>1, NamedFields
<1> HIDE DEF next
<1>4. /\ cursor' \in Cursors /\ st' \in [Procs -> Cursors] /\ st'[p] = cursor'
      /\ cursor'.status = "uncertain" /\ cursor'.op = "start" /\ cursor'.actor = who[p]
      /\ cursor'.attempt # 0 => cursor'.page \in shown[cursor'.attempt]
  <2>1. CASE cursor' = next /\ st' = [st EXCEPT ![p] = next]
    BY <1>2, <1>3, <2>1 DEF TypeOK
  <2>2. CASE UNCHANGED <<cursor, st>>
    BY <1>2, <2>2 DEF TypeOK, Fits
  <2> QED BY <1>1, <2>1, <2>2
<1>5. taken' \in SUBSET Attempts
  <2>1. x \in Attempts
    BY <1>2
  <2> QED BY <1>1, <2>1 DEF Takes, TypeOK
<1>6. TypeOK'
  BY <1>1, <1>4, <1>5 DEF TypeOK, server, Places
<1>7. Alone(p) /\ pc'[p] = "opening" /\ who'[p] = who[p] /\ got'[p] = got[p]
  BY <1>1 DEF TypeOK, Alone
<1>8. Fits(cursor)'
  BY <1>1, <1>2, <1>4 DEF Fits, server
<1>9. LockInv(p)'
  BY <1>1, <1>2, <1>4 DEF LockInv, Read, Unread
<1>10. StartInv(p)'
  BY <1>1, <1>2, <1>4, <1>7 DEF StartInv, Starting, server
<1>11. WriteInv(p)'
  BY <1>7 DEF WriteInv, Writing, Sending
<1> QED BY <1>1, <1>6, <1>7, <1>8, <1>9, <1>10, <1>11, OneSteps, SameServer

\* OpenAttempt: the start is settled, and with it every write to its attempt.
LEMMA OpenAttemptStep ==
    ASSUME TypeOK, IInv, NEW p \in Procs, OpenAttempt(p)
    PROVE  TypeOK' /\ IInv'
<1>1. /\ pc[p] = "opening" /\ st[p].attempt = got[p].attempt
      /\ cursor' = [Settled(st[p]) EXCEPT !.timer = Timed]
      /\ doubt' = doubt \ {got[p].attempt} /\ End(p)
      /\ UNCHANGED <<account, server, events, taken>>
  BY DEF OpenAttempt
<1>2. /\ Fits(cursor) /\ st[p] = cursor /\ cursor \in Cursors /\ got[p].attempt # 0
      /\ cursor.status = "uncertain"
  BY <1>1, HasRead DEF IInv, StartInv, TypeOK, Starting
<1>3. /\ cursor' \in Cursors
      /\ cursor'.status = "active" /\ cursor'.op = "none" /\ cursor'.actor = cursor.actor
      /\ cursor'.attempt = cursor.attempt /\ cursor'.page = cursor.page
  <2>1. cursor' = Limited(cursor, Timed) /\ Timed \in BOOLEAN
    BY <1>1, <1>2, SizeAssumption DEF Limited
  <2> QED BY <1>2, <2>1, LimitedFields
<1>4. Shared'
  BY <1>1, <1>3, Types DEF Shared, server
<1>5. Fits(cursor)'
  BY <1>1, <1>2, <1>3 DEF Fits, server
<1> QED BY <1>1, <1>4, <1>5, SameServer, EndStep

-----------------------------------------------------------------------------
(* Reads and writes of the attempt.                                        *)

\* What a running command works on.
LEMMA AtWork ==
    ASSUME TypeOK, IInv, NEW p \in Procs,
           pc[p] \notin {"idle", "actor", "summary", "startintent"}
    PROVE  /\ holder = p /\ st[p] = cursor /\ cursor \in Cursors /\ Fits(cursor)
           /\ cursor.attempt # 0 => cursor.attempt \in Attempts /\ cursor.page \in PageNums
<1>1. /\ holder = p /\ st[p] = cursor /\ cursor \in Cursors /\ Fits(cursor)
  BY HasRead DEF IInv, TypeOK
<1>2. cursor.attempt # 0 => cursor.attempt \in Attempts
  BY <1>1, Fields
<1>3. cursor.attempt # 0 => cursor.page \in PageNums
  BY <1>1, <1>2 DEF Fits, TypeOK
<1> QED BY <1>1, <1>2, <1>3

\* What one that writes works on.
LEMMA AtWrite ==
    ASSUME TypeOK, IInv, NEW p \in Procs, pc[p] \in Writing
    PROVE  /\ holder = p /\ st[p] = cursor /\ cursor \in Cursors /\ Fits(cursor)
           /\ cursor.status = "uncertain" /\ cursor.op \in Writes
           /\ old[p] = Settled(cursor)
           /\ cursor.attempt \in Attempts /\ cursor.page \in PageNums
<1>1. pc[p] \notin {"idle", "actor", "summary", "startintent"} /\ WriteInv(p)
  BY DEF Writing, IInv
<1>2. cursor.status = "uncertain" /\ cursor.op \in Writes /\ old[p] = Settled(cursor)
  BY <1>1 DEF WriteInv
<1>3. cursor.attempt # 0
  BY <1>1, <1>2, AtWork DEF Fits, Writes
<1> QED BY <1>1, <1>2, <1>3, AtWork

\* A write that goes on, and sends nothing more while the last is in doubt.
LEMMA WriteStep ==
    ASSUME TypeOK, IInv, NEW p \in Procs, pc[p] \in Writing,
           NEW place \in Writing, pc' = [pc EXCEPT ![p] = place],
           UNCHANGED <<holder, cursor, st, old, cmd>>, Onward,
           place \in Sending => cursor.attempt \notin doubt',
           place = "stored" => todo'[p] > 0,
           place = "moved" => Target(p) \in PageNums /\ Target(p) \in shown'[cursor.attempt]
    PROVE  IInv'
<1>1. Alone(p) /\ pc'[p] = place
  BY DEF TypeOK, Alone
<1>2. /\ holder = p /\ st[p] = cursor /\ cursor \in Cursors /\ Fits(cursor)
      /\ cursor.status = "uncertain" /\ cursor.op \in Writes
      /\ old[p] = Settled(cursor)
  BY AtWrite
<1>3. Fits(cursor)'
  BY <1>2, FitsOn DEF Fits
<1>4. LockInv(p)'
  BY <1>2 DEF LockInv, Read, Unread
<1>5. StartInv(p)'
  BY <1>1 DEF StartInv, Starting, Writing
<1>6. WriteInv(p)'
  BY <1>1, <1>2 DEF WriteInv, Writing, Target, Settled
<1>7. pc[p] # "idle"
  BY DEF Writing
<1> QED BY <1>1, <1>3, <1>4, <1>5, <1>6, <1>7, OneSteps

\* SettlePage: reading the page settles a write to it.
LEMMA SettlePageStep ==
    ASSUME TypeOK, IInv, NEW p \in Procs, SettlePage(p)
    PROVE  TypeOK' /\ IInv'
<1>1. /\ pc[p] = "read" /\ End(p) /\ UNCHANGED <<account, server, events, taken>>
      /\ \/ cursor' = Settled(st[p]) /\ doubt' = doubt \ {st[p].attempt}
         \/ UNCHANGED <<cursor, doubt>>
  BY DEF SettlePage
<1>2. /\ st[p] = cursor /\ cursor \in Cursors /\ Fits(cursor) /\ cursor.attempt # 0
      /\ cursor.actor \in Accounts
  <2>1. cursor.status = "active" \/ cursor.op = "answer"
    BY <1>1 DEF IInv, WriteInv
  <2>2. st[p] = cursor /\ cursor \in Cursors /\ Fits(cursor)
    BY <1>1, AtWork
  <2> QED BY <2>1, <2>2, NoCursorFields DEF Fits
<1>3. Shared' /\ Fits(cursor)'
  <2>1. CASE cursor' = Settled(st[p]) /\ doubt' = doubt \ {st[p].attempt}
    <3>1. cursor' = Settled(cursor)
      BY <1>2, <2>1
    <3>2. /\ cursor' \in Cursors /\ cursor'.status = "active" /\ cursor'.op = "none"
          /\ cursor'.actor = cursor.actor /\ cursor'.attempt = cursor.attempt
          /\ cursor'.page = cursor.page
      BY <1>2, <3>1, SettledFields
    <3>3. Shared'
      BY <1>1, <2>1, <3>2, Types DEF Shared, server
    <3> QED BY <1>1, <1>2, <2>1, <3>2, <3>3 DEF Fits, server
  <2>2. CASE UNCHANGED <<cursor, doubt>>
    <3>1. Shared'
      BY <1>1, <2>2, Types DEF Shared, server
    <3> QED BY <1>1, <1>2, <2>2, <3>1 DEF Fits, server
  <2> QED BY <1>1, <2>1, <2>2
<1> QED BY <1>1, <1>3, SameServer, EndStep

\* ReadPage: the page of an active checkpoint.
LEMMA ReadPageStep ==
    ASSUME TypeOK, IInv, NEW p \in Procs, ReadPage(p)
    PROVE  TypeOK' /\ IInv'
<1>1. /\ pc[p] = "read" /\ cmd[p] \in Writes /\ pc' = [pc EXCEPT ![p] = "intent"]
      /\ UNCHANGED <<holder, cursor, cmd, st, old, who, got, adv, batch, account,
                     server, events, taken, doubt>>
  BY DEF ReadPage, Goto, Writes
<1>2. todo' \in [Procs -> 0 .. Batch]
  BY DEF ReadPage, TypeOK
<1>3. TypeOK'
  BY <1>1, <1>2 DEF TypeOK, server, Places
<1>4. Alone(p) /\ pc'[p] = "intent"
  BY <1>1 DEF TypeOK, Alone
<1>5. Fits(cursor) /\ LockInv(p) /\ cursor.status = "active"
  BY <1>1 DEF IInv, WriteInv, Writes
<1>6. Fits(cursor)' /\ LockInv(p)' /\ StartInv(p)' /\ WriteInv(p)'
  BY <1>1, <1>4, <1>5 DEF Fits, server, LockInv, Read, Unread, StartInv, Starting, WriteInv, Writing, Sending
<1> QED BY <1>1, <1>3, <1>4, <1>6, OneSteps, SameServer

\* Intent: the checkpoint says uncertain before anything is sent.
LEMMA IntentStep ==
    ASSUME TypeOK, IInv, NEW p \in Procs, Intent(p)
    PROVE  TypeOK' /\ IInv'
<1> DEFINE place == CASE cmd[p] = "answer" -> "answers" [] cmd[p] = "submit" -> "finish"
                      [] OTHER -> "post"
<1>1. /\ pc[p] = "intent" /\ cursor' = Meant(st[p], cmd[p])
      /\ st' = [st EXCEPT ![p] = Meant(st[p], cmd[p])]
      /\ old' = [old EXCEPT ![p] = st[p]] /\ batch' = [batch EXCEPT ![p] = FALSE]
      /\ pc' = [pc EXCEPT ![p] = place]
      /\ UNCHANGED <<holder, cmd, who, got, todo, adv, account, server, events, taken, doubt>>
  BY DEF Intent, Goto, Meant
<1>2. place \in {"answers", "finish", "post"}
  OBVIOUS
<1> HIDE DEF place
<1>3. /\ holder = p /\ st[p] = cursor /\ cursor \in Cursors /\ Fits(cursor)
      /\ cursor.status = "active" /\ cursor.op = "none" /\ cmd[p] \in Writes
  <2>1. holder = p /\ st[p] = cursor /\ cursor \in Cursors /\ Fits(cursor)
    BY <1>1, AtWork
  <2>2. cursor.status = "active" /\ cmd[p] \in Writes
    BY <1>1 DEF IInv, WriteInv
  <2> QED BY <2>1, <2>2 DEF Fits
<1>4. /\ cursor' = Meant(cursor, cmd[p]) /\ cursor' \in Cursors
      /\ cursor'.status = "uncertain" /\ cursor'.op \in Writes /\ cursor'.actor = cursor.actor
      /\ cursor'.attempt = cursor.attempt /\ cursor'.page = cursor.page
      /\ cursor = Settled(cursor')
  BY <1>1, <1>3, MeantFields
<1>5. TypeOK'
  BY <1>1, <1>2, <1>3, <1>4 DEF TypeOK, server, Places
<1>6. Alone(p) /\ pc'[p] = place /\ st'[p] = cursor' /\ old'[p] = cursor
  BY <1>1, <1>3, <1>4 DEF TypeOK, Alone
<1>7. Fits(cursor)'
  BY <1>1, <1>3, <1>4 DEF Fits, server, Writes
<1>8. LockInv(p)'
  BY <1>1, <1>3, <1>6 DEF LockInv, Read, Unread
<1>9. StartInv(p)'
  BY <1>2, <1>6 DEF StartInv, Starting
<1>10. WriteInv(p)'
  <2>1. cursor'.attempt \notin doubt'
    BY <1>1, <1>3, <1>4 DEF Fits
  <2>2. old'[p] = Settled(cursor')
    BY <1>4, <1>6
  <2> QED BY <1>2, <1>4, <1>6, <2>1, <2>2 DEF WriteInv, Writing, Sending, Settled
<1> QED BY <1>1, <1>5, <1>6, <1>7, <1>8, <1>9, <1>10, OneSteps, SameServer

\* PostAnswer: the answer is in doubt until it is read back.
LEMMA PostAnswerStep ==
    ASSUME TypeOK, IInv, NEW p \in Procs, PostAnswer(p)
    PROVE  TypeOK' /\ IInv'
<1>1. /\ pc[p] = "answers" /\ pc' = [pc EXCEPT ![p] = "stored"] /\ todo[p] > 0
      /\ batch' = [batch EXCEPT ![p] = TRUE] /\ doubt' = doubt \union {st[p].attempt}
      /\ UNCHANGED <<holder, cursor, cmd, st, old, who, got, todo, adv, account,
                     server, events, taken>>
  BY DEF PostAnswer, Sends, Goto
<1>2. st[p].attempt \in Attempts
  BY <1>1, AtWrite DEF Writing
<1>3. TypeOK'
  BY <1>1, <1>2 DEF TypeOK, server, Places
<1> QED BY <1>1, <1>3, WriteStep, SameServer DEF Writing, Sending

\* AnswerStored: the answer is known to be there.
LEMMA AnswerStoredStep ==
    ASSUME TypeOK, IInv, NEW p \in Procs, AnswerStored(p)
    PROVE  TypeOK' /\ IInv'
<1>1. /\ pc[p] = "stored" /\ pc' = [pc EXCEPT ![p] = "answers"]
      /\ todo' = [todo EXCEPT ![p] = @ - 1] /\ doubt' = doubt \ {st[p].attempt}
      /\ UNCHANGED <<holder, cursor, cmd, st, old, who, got, adv, batch, account,
                     server, events, taken>>
  BY DEF AnswerStored, Learns, Goto
<1>2. st[p] = cursor /\ todo[p] > 0
  BY <1>1, AtWrite DEF Writing, IInv, WriteInv
<1>3. todo' \in [Procs -> 0 .. Batch]
  <2>1. todo[p] \in 0 .. Batch /\ Batch \in Nat
    BY SizeAssumption DEF TypeOK
  <2>2. todo[p] - 1 \in 0 .. Batch
    BY <1>2, <2>1
  <2> QED BY <1>1, <2>2 DEF TypeOK
<1>4. TypeOK'
  BY <1>1, <1>3 DEF TypeOK, server, Places
<1> QED BY <1>1, <1>2, <1>4, WriteStep, SameServer DEF Writing, Sending

-----------------------------------------------------------------------------
(* Commits, page turns and the submission.                                 *)

\* A command that ends with a checkpoint of the same attempt whose write is settled.
LEMMA CommitStep ==
    ASSUME TypeOK, IInv, NEW p \in Procs, pc[p] # "idle", End(p), Shared', Onward,
           cursor.attempt # 0, cursor.actor \in Accounts, cursor.status # "absent",
           cursor'.op = "none", cursor'.actor = cursor.actor,
           cursor'.attempt = cursor.attempt, cursor'.page \in shown'[cursor.attempt],
           \/ cursor'.status = "active" /\ cursor.attempt \notin doubt'
           \/ cursor'.status = "submitted" /\ status'[cursor.attempt] = "submitted"
    PROVE  TypeOK' /\ IInv'
<1>1. Fits(cursor)'
  BY DEF Fits
<1> QED BY <1>1, EndStep

\* CommitAnswers: the checkpoint is active again, and --next may follow.
LEMMA CommitAnswersStep ==
    ASSUME TypeOK, IInv, NEW p \in Procs, CommitAnswers(p)
    PROVE  TypeOK' /\ IInv'
<1>1. /\ pc[p] = "answers" /\ cursor' = Settled(st[p])
      /\ UNCHANGED <<account, server, events, taken, doubt>>
  BY DEF CommitAnswers
<1>2. /\ holder = p /\ st[p] = cursor /\ cursor \in Cursors /\ Fits(cursor)
      /\ cursor.status = "uncertain" /\ cursor.op \in Writes
      /\ cursor.attempt \in Attempts /\ cursor.page \in PageNums
      /\ cursor.attempt \notin doubt
  BY <1>1, AtWrite DEF Writing, Sending, IInv, WriteInv
<1>3. /\ cursor' \in Cursors /\ cursor'.status = "active" /\ cursor'.op = "none"
      /\ cursor'.actor = cursor.actor /\ cursor'.attempt = cursor.attempt
      /\ cursor'.page = cursor.page /\ cursor' = Settled(cursor)
  BY <1>1, <1>2, SettledFields
<1>4. Shared'
  BY <1>1, <1>3, Types DEF Shared, server
<1>5. Fits(cursor)'
  BY <1>1, <1>2, <1>3 DEF Fits, server, Writes
<1>6. CASE End(p)
  BY <1>1, <1>4, <1>5, <1>6, SameServer, EndStep
<1>7. CASE /\ st' = [st EXCEPT ![p] = Settled(@)] /\ cmd' = [cmd EXCEPT ![p] = "next"]
           /\ Goto(p, "intent") /\ UNCHANGED <<holder, old, who, got, todo, adv, batch>>
  <2>1. Alone(p) /\ pc'[p] = "intent" /\ st'[p] = cursor' /\ cmd'[p] = "next" /\ holder' = p
    BY <1>2, <1>3, <1>7 DEF TypeOK, Alone, Goto
  <2>2. pc' \in [Procs -> Places] /\ cmd' \in [Procs -> Commands] /\ st' \in [Procs -> Cursors]
    BY <1>2, <1>3, <1>7 DEF TypeOK, Goto, Places, Commands, Opening
  <2>3. Local'
    BY <1>7, <2>2, Types DEF Local
  <2>4. LockInv(p)' /\ StartInv(p)' /\ WriteInv(p)'
    BY <1>3, <2>1 DEF LockInv, Read, Unread, StartInv, Starting, WriteInv, Writing, Sending, Writes
  <2> QED BY <1>1, <1>4, <1>5, <2>1, <2>3, <2>4, TypesNext, OneSteps, SameServer
<1> QED BY <1>6, <1>7 DEF CommitAnswers

\* The page a turn asks for.
LEMMA TargetPage ==
    ASSUME NEW p \in Procs, UNCHANGED <<cmd, st>>
    PROVE  Target(p)' = Target(p)
  BY DEF Target

\* PostTurn: the server shows the page, and the turn is in doubt until it is read back.
LEMMA PostTurnStep ==
    ASSUME TypeOK, IInv, NEW p \in Procs, PostTurn(p)
    PROVE  TypeOK' /\ IInv'
<1> DEFINE n == Target(p)
<1>1. /\ pc[p] = "post" /\ n \in PageNums /\ IsOpen(st[p].attempt)
      /\ spot' = [spot EXCEPT ![st[p].attempt] = n]
      /\ shown' = [shown EXCEPT ![st[p].attempt] = @ \union {n}]
      /\ doubt' = doubt \union {st[p].attempt}
      /\ pc' = [pc EXCEPT ![p] = "moved"]
      /\ UNCHANGED <<holder, cursor, cmd, st, old, who, got, todo, adv, batch,
                     account, past, status, owner, inflight, events, taken>>
  BY DEF PostTurn, Sends, Goto
<1> HIDE DEF n
<1>2. st[p] = cursor /\ cursor.attempt \in Attempts
  BY <1>1, AtWrite DEF Writing
<1>3. shown' \in [Attempts -> SUBSET PageNums] /\ n \in shown'[cursor.attempt]
  BY <1>1, <1>2 DEF TypeOK
<1>4. spot' \in [Attempts -> PageNums] /\ pc' \in [Procs -> Places]
  BY <1>1, <1>2 DEF TypeOK, Places
<1>5. TypeOK'
  BY <1>1, <1>2, <1>3, <1>4 DEF TypeOK
<1>6. Onward
  BY <1>1, <1>2 DEF TypeOK, Onward, IsOpen
<1>7. Target(p) \in PageNums /\ Target(p) \in shown'[cursor.attempt]
  BY <1>1, <1>3 DEF n
<1> QED BY <1>1, <1>5, <1>6, <1>7, WriteStep DEF Writing, Sending

\* PostTurnLost: nobody knows.
LEMMA PostTurnLostStep ==
    ASSUME TypeOK, IInv, NEW p \in Procs, PostTurnLost(p)
    PROVE  TypeOK' /\ IInv'
<1>1. /\ pc[p] = "post" /\ doubt' = doubt \union {st[p].attempt} /\ End(p)
      /\ UNCHANGED <<cursor, account, server, events, taken>>
  BY DEF PostTurnLost, Sends
<1>2. st[p] = cursor /\ cursor.attempt \in Attempts /\ cursor.status = "uncertain"
  BY <1>1, AtWrite DEF Writing
<1>3. Shared'
  BY <1>1, <1>2, Types DEF Shared, server
<1>4. Fits(cursor)'
  BY <1>1, <1>2 DEF IInv, Fits, server
<1> QED BY <1>1, <1>3, <1>4, SameServer, EndStep

\* CommitTurn: the page the server showed.
LEMMA CommitTurnStep ==
    ASSUME TypeOK, IInv, NEW p \in Procs, CommitTurn(p)
    PROVE  TypeOK' /\ IInv'
<1> DEFINE n == Target(p)
<1>1. /\ pc[p] = "moved" /\ cursor' = Turned(st[p], n)
      /\ doubt' = doubt \ {st[p].attempt} /\ End(p)
      /\ UNCHANGED <<account, server, events, taken>>
  BY DEF CommitTurn, Learns, Turned
<1> HIDE DEF n
<1>2. /\ st[p] = cursor /\ cursor \in Cursors /\ Fits(cursor) /\ cursor.status = "uncertain"
      /\ cursor.attempt \in Attempts
  BY <1>1, AtWrite DEF Writing
<1>3. n \in PageNums /\ n \in shown[cursor.attempt]
  BY <1>1 DEF n, IInv, WriteInv
<1>4. /\ cursor' \in Cursors /\ cursor'.status = "active" /\ cursor'.op = "none"
      /\ cursor'.actor = cursor.actor /\ cursor'.attempt = cursor.attempt /\ cursor'.page = n
  BY <1>1, <1>2, <1>3, TurnedFields
<1>5. Shared'
  BY <1>1, <1>4, Types DEF Shared, server
<1>6. shown' = shown /\ cursor.attempt # 0 /\ cursor.actor \in Accounts
  BY <1>1, <1>2, SizeAssumption DEF server, Fits, Attempts
<1> QED BY <1>1, <1>2, <1>3, <1>4, <1>5, <1>6, SameServer, CommitStep

\* SendFinish: the save is in doubt until its page is read.
LEMMA SendFinishStep ==
    ASSUME TypeOK, IInv, NEW p \in Procs, SendFinish(p)
    PROVE  TypeOK' /\ IInv'
<1>1. /\ pc[p] = "finish" /\ pc' = [pc EXCEPT ![p] = "confirm"]
      /\ doubt' = doubt \union {st[p].attempt}
      /\ UNCHANGED <<holder, cursor, cmd, st, old, who, got, todo, adv, batch, account,
                     server, events, taken>>
  BY DEF SendFinish, Sends, Goto
<1>2. st[p].attempt \in Attempts
  BY <1>1, AtWrite DEF Writing
<1>3. TypeOK'
  BY <1>1, <1>2 DEF TypeOK, server, Places
<1> QED BY <1>1, <1>3, WriteStep, SameServer DEF Writing, Sending

\* Confirm: the save is known to be there.
LEMMA ConfirmStep ==
    ASSUME TypeOK, IInv, NEW p \in Procs, Confirm(p)
    PROVE  TypeOK' /\ IInv'
<1>1. /\ pc[p] = "confirm" /\ pc' = [pc EXCEPT ![p] = "rpc"]
      /\ doubt' = doubt \ {st[p].attempt}
      /\ UNCHANGED <<holder, cursor, cmd, st, old, who, got, todo, adv, batch, account,
                     server, events, taken>>
  BY DEF Confirm, Learns, Goto
<1>2. st[p] = cursor
  BY <1>1, AtWrite DEF Writing
<1>3. TypeOK'
  BY <1>1, <1>2 DEF TypeOK, server, Places
<1> QED BY <1>1, <1>2, <1>3, WriteStep, SameServer DEF Writing, Sending

\* SendSubmission: processed at once, later or never.
LEMMA SendSubmissionStep ==
    ASSUME TypeOK, IInv, NEW p \in Procs, SendSubmission(p)
    PROVE  TypeOK' /\ IInv'
<1>1. /\ pc[p] = "rpc" /\ pc' = [pc EXCEPT ![p] = "receipt"]
      /\ doubt' = doubt \union {st[p].attempt}
      /\ UNCHANGED <<holder, cursor, cmd, st, old, who, got, todo, adv, batch, account,
                     past, owner, spot, shown, events, taken>>
  BY DEF SendSubmission, Sends, Goto
<1>2. st[p].attempt \in Attempts
  BY <1>1, AtWrite DEF Writing
<1>3. /\ status' \in [Attempts -> {"none", "open", "late", "processing", "submitted"}]
      /\ inflight' \in SUBSET Attempts
  BY <1>2 DEF SendSubmission, TypeOK
<1>4. doubt' \in SUBSET Attempts /\ pc' \in [Procs -> Places]
  BY <1>1, <1>2 DEF TypeOK, Places
<1>5. TypeOK'
  BY <1>1, <1>3, <1>4 DEF TypeOK
<1>6. \A x \in Attempts : status'[x] = status[x] \/ status'[x] = "submitted"
  BY <1>2 DEF SendSubmission, TypeOK
<1>7. Onward
  BY <1>1, <1>6 DEF Onward
<1> QED BY <1>1, <1>5, <1>7, WriteStep DEF Writing, Sending

\* CommitSubmit and VerifySubmitted: the attempt is submitted.
LEMMA SubmittedStep ==
    ASSUME TypeOK, IInv, NEW p \in Procs, CommitSubmit(p) \/ VerifySubmitted(p)
    PROVE  TypeOK' /\ IInv'
<1>1. /\ pc[p] = "receipt" \/ pc[p] = "listing"
      /\ status[st[p].attempt] = "submitted" /\ cursor' = Done(st[p])
      /\ taken' = taken \ {st[p].attempt} /\ doubt' = doubt \ {st[p].attempt}
      /\ End(p) /\ UNCHANGED <<account, server, events>>
  BY DEF CommitSubmit, VerifySubmitted, Learns
<1>2. /\ st[p] = cursor /\ cursor \in Cursors /\ Fits(cursor) /\ cursor.attempt # 0
      /\ pc[p] # "idle"
  <2>1. CASE pc[p] = "receipt"
    BY <2>1, AtWrite, SizeAssumption DEF Writing, Attempts
  <2>2. CASE pc[p] = "listing"
    BY <2>2, AtWork DEF IInv, WriteInv
  <2> QED BY <1>1, <2>1, <2>2
<1>3. cursor.status # "absent" /\ cursor.actor \in Accounts
  BY <1>2, NoCursorFields DEF Fits
<1>4. cursor' = Done(cursor)
  BY <1>1, <1>2
<1>5. /\ cursor' \in Cursors /\ cursor'.status = "submitted" /\ cursor'.op = "none"
      /\ cursor'.actor = cursor.actor /\ cursor'.attempt = cursor.attempt
      /\ cursor'.page = cursor.page
  BY <1>2, <1>4, DoneFields
<1>6. Shared'
  BY <1>1, <1>5, Types DEF Shared, server
<1>7. /\ cursor'.page \in shown'[cursor.attempt]
      /\ status'[cursor.attempt] = "submitted"
  BY <1>1, <1>2, <1>5 DEF Fits, server
<1> QED BY <1>1, <1>2, <1>3, <1>5, <1>6, <1>7, SameServer, CommitStep

-----------------------------------------------------------------------------
(* The server, the clock and the person.                                   *)

\* Steps of others leave every command and the checkpoint alone.
LEMMA OutsideStep ==
    ASSUME TypeOK, IInv, UNCHANGED <<holder, cursor, local, doubt>>, Onward
    PROVE  IInv'
<1>1. UNCHANGED <<pc, cmd, st, old, who, got, todo, adv, batch>>
  BY DEF local
<1>2. Fits(cursor)'
  <2>1. cursor \in Cursors /\ Fits(cursor)
    BY DEF TypeOK, IInv
  <2>2. cursor.status = "active" => cursor.attempt \notin doubt'
    BY <2>1 DEF Fits
  <2> QED BY <2>1, <2>2, FitsOn DEF Fits
<1>3. Unshown'
  BY DEF IInv, Unshown, Onward
<1>4. ASSUME NEW p \in Procs
      PROVE  LockInv(p)' /\ StartInv(p)' /\ WriteInv(p)'
  <2>1. LockInv(p) /\ StartInv(p) /\ WriteInv(p)
    BY DEF IInv
  <2>2. LockInv(p)'
    BY <1>1, <2>1 DEF LockInv, Read, Unread
  <2>3. StartInv(p)'
    <3>1. pc[p] = "begin" => Fits(old[p])'
      <4>1. old[p] \in Cursors
        BY DEF TypeOK
      <4> QED BY <1>1, <2>1, <4>1, FitsOn DEF StartInv, Fits
    <3>2. got[p].attempt \in Attempts \union {0}
      BY DEF TypeOK
    <3> QED BY <1>1, <2>1, <3>1, <3>2 DEF StartInv, Onward, Starting, Kept
  <2>4. WriteInv(p)'
    <3>1. pc[p] = "moved" => cursor.attempt \in Attempts
      BY AtWrite DEF Writing
    <3>2. Target(p)' = Target(p)
      BY <1>1, TargetPage
    <3> QED BY <1>1, <2>1, <3>1, <3>2 DEF WriteInv, Onward
  <2> QED BY <2>2, <2>3, <2>4
<1> QED BY <1>2, <1>3, <1>4 DEF IInv

\* What the environment does.
LEMMA EnvironmentStep ==
    ASSUME TypeOK, IInv, Environment
    PROVE  TypeOK' /\ IInv'
<1>1. CASE DeadlinePasses
  <2>1. PICK x \in Attempts \ past :
           /\ status[x] # "none"
           /\ past' = past \union {x}
           /\ status' = [status EXCEPT ![x] = IF @ = "open" THEN "late" ELSE @]
    BY <1>1 DEF DeadlinePasses
  <2>2. UNCHANGED <<holder, cursor, local, account, owner, spot, inflight,
                    shown, events, taken, doubt>>
    BY <1>1 DEF DeadlinePasses
  <2>3. status' \in [Attempts -> {"none", "open", "late", "processing", "submitted"}]
    BY <2>1 DEF TypeOK
  <2>4. TypeOK'
    BY <2>1, <2>2, <2>3 DEF TypeOK, local
  <2>5. Onward
    BY <2>1, <2>2 DEF TypeOK, Onward
  <2> QED BY <2>2, <2>4, <2>5, OutsideStep
<1>2. CASE ServerSubmits
  <2>1. PICK x \in Attempts :
          \/ status[x] = "late" /\ status' = [status EXCEPT ![x] = "processing"]
          \/ status[x] = "processing" /\ status' = [status EXCEPT ![x] = "submitted"]
    BY <1>2 DEF ServerSubmits
  <2>2. UNCHANGED <<holder, cursor, local, account, past, owner, spot,
                    inflight, shown, events, taken, doubt>>
    BY <1>2 DEF ServerSubmits
  <2>3. status' \in [Attempts -> {"none", "open", "late", "processing", "submitted"}]
    BY <2>1 DEF TypeOK
  <2>4. TypeOK'
    BY <2>2, <2>3 DEF TypeOK, local
  <2>5. Onward
    BY <2>1, <2>2 DEF TypeOK, Onward
  <2> QED BY <2>2, <2>4, <2>5, OutsideStep
<1>3. CASE DeliverSubmission
  <2>1. PICK x \in inflight :
          /\ inflight' = inflight \ {x}
          /\ status' = [status EXCEPT ![x] = IF IsOpen(x) THEN "submitted" ELSE @]
    BY <1>3 DEF DeliverSubmission
  <2>2. UNCHANGED <<holder, cursor, local, account, past, owner, spot,
                    shown, events, taken, doubt>>
    BY <1>3 DEF DeliverSubmission
  <2>3. status' \in [Attempts -> {"none", "open", "late", "processing", "submitted"}]
    BY <2>1 DEF TypeOK
  <2>4. TypeOK'
    BY <2>1, <2>2, <2>3 DEF TypeOK, local
  <2>5. Onward
    BY <2>1, <2>2 DEF TypeOK, Onward, IsOpen
  <2> QED BY <2>2, <2>4, <2>5, OutsideStep
<1>4. CASE SwitchAccount
  <2>1. /\ events < MaxEvents /\ events' = events + 1 /\ account' \in Accounts
        /\ UNCHANGED <<holder, cursor, local, server, taken, doubt>>
    BY <1>4 DEF SwitchAccount
  <2>2. events' \in 0 .. MaxEvents
    BY <2>1, SizeAssumption DEF TypeOK
  <2>3. TypeOK'
    BY <2>1, <2>2 DEF TypeOK, local, server
  <2> QED BY <2>1, <2>3, SameServer, OutsideStep
<1>5. CASE BrowserStarts
  <2>1. PICK a \in Accounts, x \in Unused :
          /\ status' = [status EXCEPT ![x] = "open"]
          /\ owner' = [owner EXCEPT ![x] = a]
    BY <1>5 DEF BrowserStarts
  <2>2. UNCHANGED <<holder, cursor, local, account, past, spot, inflight,
                    shown, events, taken, doubt>>
    BY <1>5 DEF BrowserStarts
  <2>3. x \in Attempts /\ status[x] = "none"
    BY DEF Unused
  <2>4. TypeOK'
    BY <2>1, <2>2, <2>3 DEF TypeOK, local
  <2>5. Onward
    BY <2>1, <2>2, <2>3 DEF TypeOK, Onward
  <2> QED BY <2>2, <2>4, <2>5, OutsideStep
<1>6. CASE BrowserMoves
  <2>1. PICK x \in Attempts, n \in PageNums : spot' = [spot EXCEPT ![x] = n]
    BY <1>6 DEF BrowserMoves
  <2>2. UNCHANGED <<holder, cursor, local, account, past, status, owner,
                    inflight, shown, events, taken, doubt>>
    BY <1>6 DEF BrowserMoves
  <2>3. spot' \in [Attempts -> PageNums]
    BY <2>1 DEF TypeOK
  <2>4. TypeOK'
    BY <2>2, <2>3 DEF TypeOK, local
  <2>5. Onward
    BY <2>2 DEF Onward
  <2> QED BY <2>2, <2>4, <2>5, OutsideStep
<1>7. CASE BrowserSubmits
  <2>1. PICK x \in Attempts : status' = [status EXCEPT ![x] = "submitted"]
    BY <1>7 DEF BrowserSubmits
  <2>2. UNCHANGED <<holder, cursor, local, account, past, owner, spot,
                    inflight, shown, events, taken, doubt>>
    BY <1>7 DEF BrowserSubmits
  <2>3. status' \in [Attempts -> {"none", "open", "late", "processing", "submitted"}]
    BY <2>1 DEF TypeOK
  <2>4. TypeOK'
    BY <2>2, <2>3 DEF TypeOK, local
  <2>5. Onward
    BY <2>1, <2>2 DEF TypeOK, Onward
  <2> QED BY <2>2, <2>4, <2>5, OutsideStep
<1> QED BY <1>1, <1>2, <1>3, <1>4, <1>5, <1>6, <1>7 DEF Environment

-----------------------------------------------------------------------------
(* The invariant.                                                          *)

\* The initial states.
LEMMA InitHolds == Init => TypeOK /\ IInv
<1> SUFFICES ASSUME Init PROVE TypeOK /\ IInv
  OBVIOUS
<1>1. NoCursor \in Cursors /\ 1 \in PageNums /\ 0 \in 0 .. Batch /\ 0 \in 0 .. MaxEvents
  BY NoCursorFields, SizeAssumption DEF PageNums
<1>2. "idle" \in Places /\ "none" \in Commands
      /\ Nothing \in [attempt : Attempts \union {0}, page : PageNums \union {0}]
  BY DEF Places, Commands, Nothing
<1>3. TypeOK
  BY <1>1, <1>2 DEF Init, TypeOK
<1>4. Fits(cursor)
  BY NoCursorFields DEF Init, Fits
<1>5. Unshown /\ \A p \in Procs : LockInv(p) /\ StartInv(p) /\ WriteInv(p)
  BY DEF Init, Unshown, LockInv, StartInv, WriteInv, Starting, Writing, Sending
<1> QED BY <1>3, <1>4, <1>5 DEF IInv

\* Every step.
LEMMA NextHolds == TypeOK /\ IInv /\ [Next]_vars => TypeOK' /\ IInv'
<1> SUFFICES ASSUME TypeOK, IInv, [Next]_vars
             PROVE  TypeOK' /\ IInv'
  OBVIOUS
<1>1. ASSUME NEW p \in Procs, Advance(p)
      PROVE  TypeOK' /\ IInv'
  <2>1. CASE Refusals(p)
    BY <2>1, RefusalsStep
  <2>2. CASE Restorations(p)
    BY <2>2, RestorationsStep
  <2>3. CASE \/ CheckActor(p) \/ ReadSummary(p) \/ StartIntent(p) \/ StartCreates(p)
             \/ StartReopens(p) \/ Seal(p) \/ OpenAttempt(p)
    BY <2>3, CheckActorStep, ReadSummaryStep, StartIntentStep, StartCreatesStep,
       StartReopensStep, SealStep, OpenAttemptStep
  <2>4. CASE \/ SettlePage(p) \/ ReadPage(p) \/ Intent(p) \/ PostAnswer(p)
             \/ AnswerStored(p) \/ CommitAnswers(p)
    BY <2>4, SettlePageStep, ReadPageStep, IntentStep, PostAnswerStep,
       AnswerStoredStep, CommitAnswersStep
  <2>5. CASE \/ PostTurn(p) \/ PostTurnLost(p) \/ CommitTurn(p) \/ SendFinish(p)
             \/ Confirm(p) \/ SendSubmission(p) \/ CommitSubmit(p) \/ VerifySubmitted(p)
    BY <2>5, PostTurnStep, PostTurnLostStep, CommitTurnStep, SendFinishStep,
       ConfirmStep, SendSubmissionStep, SubmittedStep
  <2> QED BY <1>1, <2>1, <2>2, <2>3, <2>4, <2>5 DEF Advance, Refusals, Restorations
<1>2. ASSUME NEW p \in Procs, Person(p)
      PROVE  TypeOK' /\ IInv'
  BY <1>2, RunStep, RunUnreadStep, ForgetStep DEF Person
<1>3. CASE UNCHANGED vars
  <2>1. TypeOK'
    BY <1>3 DEF TypeOK, vars, local, server
  <2>2. UNCHANGED <<holder, cursor, local, doubt>> /\ Onward
    BY <1>3, SameServer DEF vars
  <2> QED BY <2>1, <2>2, OutsideStep
<1> QED BY <1>1, <1>2, <1>3, StopStep, EnvironmentStep DEF Next

\* Every reachable state has its types, and the checkpoint says what is so.
THEOREM Invariance == Spec => [](TypeOK /\ IInv)
<1>1. Init => TypeOK /\ IInv
  BY InitHolds
<1>2. TypeOK /\ IInv /\ [Next]_vars => (TypeOK /\ IInv)'
  BY NextHolds
<1> QED BY <1>1, <1>2, PTL DEF Spec

\* No two processes write: the one that would send knows what became of the last one.
THEOREM WritesKnowing == Spec => []NoWriteInDoubt
<1>1. IInv => NoWriteInDoubt
  BY HasRead DEF IInv, WriteInv, Sending, NoWriteInDoubt
<1> QED BY <1>1, Invariance, PTL

\* The checkpoint says submitted only of a submitted attempt.
THEOREM SubmittedHolds == Spec => []SubmittedIsVerified
<1>1. IInv => SubmittedIsVerified
  BY DEF IInv, Fits, SubmittedIsVerified
<1> QED BY <1>1, Invariance, PTL

\* Only pages that the server showed are asked for.
THEOREM PagesWereShown == Spec => []OnlyShownPages
<1>1. TypeOK /\ IInv => OnlyShownPages
  <2> SUFFICES ASSUME TypeOK, IInv, NEW p \in Procs
               PROVE  /\ pc[p] = "read" => st[p].page \in shown[st[p].attempt]
                      /\ pc[p] = "moved" => Target(p) \in shown[st[p].attempt]
    BY DEF OnlyShownPages
  <2>1. ASSUME pc[p] = "read" PROVE st[p].page \in shown[st[p].attempt]
    <3>1. st[p] = cursor /\ Fits(cursor)
      BY <2>1, AtWork
    <3>2. cursor.status = "active" \/ cursor.op = "answer"
      BY <2>1 DEF IInv, WriteInv
    <3>3. cursor.attempt # 0
      BY <3>1, <3>2, NoCursorFields DEF Fits
    <3> QED BY <3>1, <3>3 DEF Fits
  <2>2. ASSUME pc[p] = "moved" PROVE Target(p) \in shown[st[p].attempt]
    <3>1. st[p] = cursor
      BY <2>2, AtWork
    <3> QED BY <2>2, <3>1 DEF IInv, WriteInv
  <2> QED BY <2>1, <2>2
<1> QED BY <1>1, Invariance, PTL

-----------------------------------------------------------------------------
(* What a step does to the checkpoint.                                     *)

\* The actions of a command that only refuse, restore or write to the attempt the
\* checkpoint names, and a process that is killed.
Plain(p) ==
    \/ Stop(p) \/ Refusals(p) \/ WriteRefused(p) \/ AnswersTimeUp(p) \/ SubmitUnanswered(p)
    \/ CheckActor(p) \/ OpenAttempt(p) \/ SettlePage(p) \/ ReadPage(p) \/ Intent(p)
    \/ PostAnswer(p) \/ AnswerStored(p) \/ CommitAnswers(p)
    \/ PostTurn(p) \/ PostTurnLost(p) \/ CommitTurn(p)
    \/ SendFinish(p) \/ Confirm(p) \/ SendSubmission(p)

\* The checkpoint goes on naming its attempt.
SameAttempt ==
    \/ UNCHANGED cursor
    \/ /\ cursor.status # "absent" /\ cursor'.status \in {"active", "uncertain"}
       /\ cursor'.attempt = cursor.attempt /\ cursor'.actor = cursor.actor

\* The command is not about to name an attempt.
Elsewhere(p) == pc'[p] \notin {"startintent", "begin", "named"}

\* A command that ends is not.
LEMMA EndsElsewhere ==
    ASSUME TypeOK, NEW p \in Procs, End(p)
    PROVE  Elsewhere(p)
  BY Ends DEF Elsewhere

\* Writes: the checkpoint is restored, or settled.
LEMMA PlainCursor ==
    ASSUME TypeOK, IInv, NEW p \in Procs, Plain(p)
    PROVE  SameAttempt
<1>1. CASE \/ Stop(p) \/ CheckActor(p) \/ ReadPage(p) \/ PostAnswer(p) \/ AnswerStored(p)
           \/ PostTurn(p) \/ PostTurnLost(p) \/ SendFinish(p) \/ Confirm(p)
           \/ SendSubmission(p)
  BY <1>1 DEF Stop, CheckActor, ReadPage, PostAnswer, AnswerStored, PostTurn, PostTurnLost,
              SendFinish, Confirm, SendSubmission, SameAttempt
<1>2. CASE Refusals(p)
  BY <1>2 DEF Refusals, RefuseActor, RefuseSummary, StartFails, SealRefused, OpenRefused,
              ReadFails, IntentTimeUp, AnswerUnknown, TurnUnknown, ConfirmUnknown,
              SubmitUnknown, VerifyNotSubmitted, Refuse, SameAttempt
<1>3. CASE WriteRefused(p) \/ AnswersTimeUp(p) \/ SubmitUnanswered(p)
  <2>1. cursor' = old[p] /\ pc[p] \in Writing
    BY <1>3 DEF WriteRefused, AnswersTimeUp, SubmitUnanswered, Restore, Writing
  <2> QED BY <2>1, AtWrite, SettledFields DEF SameAttempt
<1>4. CASE CommitAnswers(p)
  <2>1. cursor' = Settled(st[p]) /\ pc[p] \in Writing
    BY <1>4 DEF CommitAnswers, Writing
  <2> QED BY <2>1, AtWrite, SettledFields DEF SameAttempt
<1>5. CASE CommitTurn(p)
  <2> DEFINE n == Target(p)
  <2>1. cursor' = Turned(st[p], n) /\ pc[p] \in Writing
    BY <1>5 DEF CommitTurn, Writing, Turned
  <2>2. n \in PageNums
    BY <1>5 DEF CommitTurn, IInv, WriteInv
  <2> HIDE DEF n
  <2> QED BY <2>1, <2>2, AtWrite, TurnedFields DEF SameAttempt
<1>6. CASE OpenAttempt(p)
  <2>1. /\ cursor' = Limited(st[p], Timed) /\ Timed \in BOOLEAN
        /\ pc[p] \in Starting /\ pc[p] = "opening"
    BY <1>6, SizeAssumption DEF OpenAttempt, Limited, Starting
  <2>2. cursor.status = "uncertain"
    BY <2>1 DEF IInv, StartInv
  <2> QED BY <2>1, <2>2, AtWork, LimitedFields DEF SameAttempt
<1>7. CASE SettlePage(p)
  <2>1. pc[p] = "read" /\ (cursor' = Settled(st[p]) \/ UNCHANGED cursor)
    BY <1>7 DEF SettlePage
  <2>2. st[p] = cursor /\ cursor \in Cursors /\ Fits(cursor)
    BY <2>1, AtWork
  <2>3. cursor.status # "absent"
    BY <2>1, <2>2, NoCursorFields DEF IInv, WriteInv, Fits
  <2> QED BY <2>1, <2>2, <2>3, SettledFields DEF SameAttempt
<1>8. CASE Intent(p)
  <2>1. pc[p] = "intent" /\ cursor' = Meant(st[p], cmd[p])
    BY <1>8 DEF Intent, Meant
  <2>2. st[p] = cursor /\ cursor \in Cursors /\ Fits(cursor)
    BY <2>1, AtWork
  <2>3. cursor.status = "active" /\ cmd[p] \in Writes
    BY <2>1 DEF IInv, WriteInv
  <2>4. cursor.op = "none"
    BY <2>2, <2>3 DEF Fits
  <2> QED BY <2>1, <2>2, <2>3, <2>4, MeantFields DEF SameAttempt
<1> QED BY <1>1, <1>2, <1>3, <1>4, <1>5, <1>6, <1>7, <1>8 DEF Plain

\* A start that read the checkpoint has it in memory before its intent.
LEMMA IntentRead ==
    ASSUME TypeOK, IInv, NEW p \in Procs, pc[p] = "startintent", ~ReplacesUnread(p)
    PROVE  /\ st[p] = cursor /\ holder = p /\ who[p] \in Accounts
           /\ cursor.status = "uncertain" => cursor.actor = who[p]
  BY DEF IInv, LockInv, StartInv, ReplacesUnread

\* The intent of any start, and what the start would restore.
LEMMA IntentWrites ==
    ASSUME TypeOK, IInv, NEW p \in Procs, StartIntent(p)
    PROVE  /\ pc[p] = "startintent" /\ holder = p
           /\ cursor'.status = "uncertain" /\ cursor'.actor = who[p]
           /\ old'[p] = st[p] /\ (st[p] = cursor \/ st[p] = NoCursor)
           /\ who[p] \in Accounts
<1>1. pc[p] = "startintent" /\ old' = [old EXCEPT ![p] = st[p]]
  BY DEF StartIntent
<1>2. /\ holder = p /\ (st[p] = cursor \/ st[p] = NoCursor) /\ old'[p] = st[p]
      /\ who[p] \in Accounts
  BY <1>1 DEF IInv, LockInv, Read, Unread, StartInv, TypeOK
<1>3. cursor'.status = "uncertain" /\ cursor'.actor = who[p]
  BY DEF StartIntent
<1> QED BY <1>1, <1>2, <1>3

\* Its intent keeps the attempt of its account unless that is over.
LEMMA IntentKeeps ==
    ASSUME TypeOK, IInv, NEW p \in Procs, StartIntent(p), ~ReplacesUnread(p)
    PROVE  /\ UNCHANGED taken
           /\ cursor'.status = "uncertain" /\ cursor'.actor = who[p]
           /\ cursor'.attempt = IF Kept(cursor, who[p]) THEN cursor.attempt ELSE 0
           /\ cursor.status = "uncertain" => cursor.actor = who[p]
           /\ old' = [old EXCEPT ![p] = cursor]
<1>1. pc[p] = "startintent" /\ old' = [old EXCEPT ![p] = st[p]]
  BY DEF StartIntent
<1>2. st[p] = cursor /\ (cursor.status = "uncertain" => cursor.actor = who[p])
  BY <1>1, IntentRead
<1>3. /\ UNCHANGED taken
      /\ cursor'.status = "uncertain" /\ cursor'.actor = who[p]
      /\ cursor'.attempt = IF Kept(st[p], who[p]) THEN st[p].attempt ELSE 0
  BY DEF StartIntent
<1> QED BY <1>1, <1>2, <1>3

\* Sealing names the attempt where the checkpoint has none.
LEMMA SealNames ==
    ASSUME TypeOK, IInv, NEW p \in Procs, Seal(p)
    PROVE  /\ cursor.status = "uncertain" /\ cursor'.status = "uncertain"
           /\ cursor'.actor = cursor.actor
           /\ \/ UNCHANGED <<cursor, taken>>
              \/ /\ cursor.attempt \in {0, got[p].attempt} /\ Takes(p)
                 /\ cursor'.attempt = got[p].attempt
<1>1. /\ pc[p] = "named"
      /\ \/ UNCHANGED <<cursor, taken>>
         \/ /\ st[p].attempt \in {0, got[p].attempt} /\ Takes(p)
            /\ cursor' = Named(st[p], got[p].attempt, got[p].page)
  BY DEF Seal, Named
<1>2. st[p] = cursor /\ cursor \in Cursors /\ cursor.status = "uncertain"
  BY <1>1, AtWork DEF IInv, StartInv, Starting
<1>3. got[p].attempt \in Attempts \union {0} /\ got[p].page \in PageNums \union {0}
  BY DEF TypeOK
<1> QED BY <1>1, <1>2, <1>3, NamedFields

\* Restoring before anything was sent.
LEMMA StartRestores ==
    ASSUME TypeOK, IInv, NEW p \in Procs, StartRefused(p)
    PROVE  /\ pc[p] = "begin" /\ cursor' = old[p] /\ cursor.status = "uncertain"
           /\ cursor.actor = who[p]
           /\ cursor'.status = "uncertain" => cursor'.actor = who[p]
           /\ cursor.attempt = IF Kept(old[p], who[p]) THEN old[p].attempt ELSE 0
<1>1. pc[p] = "begin" /\ cursor' = old[p]
  BY DEF StartRefused, Restore
<1> QED BY <1>1, HasRead DEF IInv, StartInv, Starting

\* The checkpoint of a submitted attempt goes on naming it.
LEMMA SubmittedKeeps ==
    ASSUME TypeOK, IInv, NEW p \in Procs, CommitSubmit(p) \/ VerifySubmitted(p)
    PROVE  /\ cursor.attempt # 0 /\ cursor'.attempt = cursor.attempt
           /\ cursor'.actor = cursor.actor /\ cursor'.status = "submitted"
           /\ taken' = taken \ {cursor.attempt}
<1>1. /\ pc[p] = "receipt" \/ pc[p] = "listing"
      /\ cursor' = Done(st[p]) /\ taken' = taken \ {st[p].attempt}
  BY DEF CommitSubmit, VerifySubmitted
<1>2. CASE pc[p] = "receipt"
  BY <1>1, <1>2, AtWrite, DoneFields, SizeAssumption DEF Writing, Attempts
<1>3. CASE pc[p] = "listing"
  BY <1>1, <1>3, AtWork, DoneFields DEF IInv, WriteInv
<1> QED BY <1>1, <1>2, <1>3

\* All a step can be.
LEMMA Steps ==
    ASSUME [Next]_vars
    PROVE  \/ UNCHANGED vars \/ Environment
           \/ \E p \in Procs :
                 \/ Plain(p) \/ ReadSummary(p) \/ StartIntent(p) \/ StartRefused(p)
                 \/ StartCreates(p) \/ StartReopens(p) \/ Seal(p)
                 \/ CommitSubmit(p) \/ VerifySubmitted(p) \/ Person(p)
  BY DEF Next, Advance, Plain, Refusals

\* The environment and a command that starts leave the checkpoint alone.
LEMMA CursorStays ==
    /\ UNCHANGED vars \/ Environment => UNCHANGED <<cursor, taken, local>>
    /\ \A p \in Procs : \A c \in Commands : Run(p, c) => UNCHANGED cursor
    /\ \A p \in Procs : RunUnread(p) => UNCHANGED cursor
    /\ \A p \in Procs :
          ReadSummary(p) \/ StartCreates(p) \/ StartReopens(p) => UNCHANGED cursor
  BY DEF vars, Environment, DeadlinePasses, ServerSubmits, DeliverSubmission, SwitchAccount,
         BrowserStarts, BrowserMoves, BrowserSubmits, Run, RunUnread, ReadSummary,
         StartCreates, StartReopens

-----------------------------------------------------------------------------
(* Steps of the checkpoint.                                                *)

\* A step never drops an attempt that may be unfinished, unless it is a start that
\* replaces a checkpoint it has not read.
LEMMA KeepsStep ==
    ASSUME TypeOK, IInv, [Next]_vars, \A p \in Procs : ~ReplacesUnread(p)
    PROVE  /\ cursor.attempt # 0 /\ cursor'.attempt # cursor.attempt =>
                 \/ cursor.status = "submitted"
                 \/ cursor'.actor # cursor.actor
           /\ cursor.status = "uncertain" /\ cursor'.actor # cursor.actor =>
                 cursor' = NoCursor \/ cursor'.status # "uncertain"
<1>1. cursor \in Cursors /\ Fits(cursor)
  BY DEF TypeOK, IInv
<1>2. CASE UNCHANGED cursor
  BY <1>2
<1>3. ASSUME NEW p \in Procs, Plain(p)
      PROVE  SameAttempt
  BY <1>3, PlainCursor
<1>4. CASE SameAttempt
  BY <1>4 DEF SameAttempt
<1>5. ASSUME NEW p \in Procs, StartIntent(p)
      PROVE  /\ cursor'.attempt # cursor.attempt /\ cursor.attempt # 0 =>
                   cursor.status = "submitted" \/ cursor'.actor # cursor.actor
             /\ cursor.status = "uncertain" => cursor'.actor = cursor.actor
  <2>1. /\ cursor'.actor = who[p]
        /\ cursor'.attempt = IF Kept(cursor, who[p]) THEN cursor.attempt ELSE 0
        /\ cursor.status = "uncertain" => cursor.actor = who[p]
    BY <1>5, IntentKeeps
  <2>2. cursor.attempt # 0 => cursor.status # "absent"
    BY <1>1, NoCursorFields DEF Fits
  <2> QED BY <1>1, <2>1, <2>2, Fields DEF Kept
<1>6. ASSUME NEW p \in Procs, StartRefused(p)
      PROVE  /\ cursor.attempt # 0 => cursor'.attempt = cursor.attempt
             /\ cursor'.actor = cursor.actor \/ cursor'.status # "uncertain"
  BY <1>6, StartRestores
<1>7. ASSUME NEW p \in Procs, Seal(p)
      PROVE  /\ cursor.attempt # 0 => cursor'.attempt = cursor.attempt
             /\ cursor'.actor = cursor.actor
  BY <1>7, SealNames
<1>8. ASSUME NEW p \in Procs, CommitSubmit(p) \/ VerifySubmitted(p)
      PROVE  cursor'.attempt = cursor.attempt /\ cursor'.actor = cursor.actor
  BY <1>8, SubmittedKeeps
<1>9. ASSUME NEW p \in Procs, Forget(p)
      PROVE  cursor' = NoCursor /\ (cursor.attempt # 0 => cursor'.actor # cursor.actor)
  <2>1. cursor' = NoCursor
    BY <1>9 DEF Forget
  <2>2. cursor.attempt # 0 => cursor.actor \in Accounts
    BY <1>1, NoCursorFields DEF Fits
  <2> QED BY <2>1, <2>2, NoCursorFields, NameAssumption
<1>10. ASSUME NEW p \in Procs, Person(p)
       PROVE  UNCHANGED cursor \/ Forget(p)
  BY <1>10, CursorStays DEF Person
<1> QED BY <1>2, <1>3, <1>4, <1>5, <1>6, <1>7, <1>8, <1>9, <1>10, Steps, CursorStays

\* The checkpoint never leaves an unfinished attempt of an account for another one,
\* except by a start that could not read it.
THEOREM NeverAnother == Spec => KeepsItsAttempt
<1>1. TypeOK /\ IInv /\ [Next]_vars =>
        [(\A p \in Procs : ~ReplacesUnread(p)) =>
         /\ cursor.attempt # 0 /\ cursor'.attempt # cursor.attempt =>
               \/ cursor.status = "submitted"
               \/ cursor'.actor # cursor.actor
         /\ cursor.status = "uncertain" /\ cursor'.actor # cursor.actor =>
               cursor' = NoCursor \/ cursor'.status # "uncertain"]_vars
  BY KeepsStep
<1> QED BY <1>1, Invariance, PTL DEF Spec, KeepsItsAttempt

\* While a batch is under way only its own command changes the checkpoint, and with
\* answers sent and more to send only the deadline does.
LEMMA BatchStep ==
    ASSUME TypeOK, IInv, [Next]_vars, NEW p \in Procs,
           pc[p] = "answers", batch[p], todo[p] > 0, cursor' # cursor
    PROVE  AnswersTimeUp(p)
<1>1. holder = p /\ \A q \in Procs : q # p => pc[q] = "idle"
  BY AtWork, OthersIdle
<1>2. PICK q \in Procs :
         \/ Plain(q) \/ StartIntent(q) \/ StartRefused(q) \/ Seal(q)
         \/ CommitSubmit(q) \/ VerifySubmitted(q) \/ Forget(q)
  BY Steps, CursorStays DEF Person
<1>3. ~Forget(q)
  BY <1>1, NameAssumption DEF Forget
<1>4. CASE \/ StartIntent(q) \/ StartRefused(q) \/ Seal(q)
           \/ CommitSubmit(q) \/ VerifySubmitted(q)
  <2>1. pc[q] \in {"startintent", "begin", "named", "receipt", "listing"}
    BY <1>4 DEF StartIntent, StartRefused, Seal, CommitSubmit, VerifySubmitted
  <2> QED BY <1>1, <2>1
<1>5. CASE Plain(q)
  <2>1. \/ WriteRefused(q) \/ AnswersTimeUp(q) \/ SubmitUnanswered(q) \/ OpenAttempt(q)
        \/ SettlePage(q) \/ Intent(q) \/ CommitAnswers(q) \/ CommitTurn(q)
    <3>1. ~(\/ Stop(q) \/ CheckActor(q) \/ ReadPage(q) \/ PostAnswer(q) \/ AnswerStored(q)
            \/ PostTurn(q) \/ PostTurnLost(q) \/ SendFinish(q) \/ Confirm(q)
            \/ SendSubmission(q))
      BY DEF Stop, CheckActor, ReadPage, PostAnswer, AnswerStored, PostTurn, PostTurnLost,
             SendFinish, Confirm, SendSubmission
    <3>2. ~Refusals(q)
      BY DEF Refusals, RefuseActor, RefuseSummary, StartFails, SealRefused, OpenRefused,
             ReadFails, IntentTimeUp, AnswerUnknown, TurnUnknown, ConfirmUnknown,
             SubmitUnknown, VerifyNotSubmitted, Refuse
    <3> QED BY <1>5, <3>1, <3>2 DEF Plain
  <2>2. pc[q] # "idle"
    BY <2>1 DEF WriteRefused, AnswersTimeUp, SubmitUnanswered, OpenAttempt, SettlePage,
                Intent, CommitAnswers, CommitTurn
  <2>3. q = p
    BY <1>1, <2>2
  <2> QED BY <2>1, <2>3 DEF WriteRefused, AnswersTimeUp, SubmitUnanswered, OpenAttempt,
                            SettlePage, Intent, CommitAnswers, CommitTurn
<1> QED BY <1>2, <1>3, <1>4, <1>5

\* A batch of answers is cut by the deadline alone, with nothing in doubt.
THEOREM BatchesAreCutByTime == Spec => OnlyTimeCutsABatch
<1>1. TypeOK /\ IInv /\ [Next]_vars =>
        [\A p \in Procs :
            /\ pc[p] = "answers" /\ batch[p] /\ todo[p] > 0
            /\ cursor.status = "uncertain" /\ cursor'.status = "active"
            => TimeUp(st[p]) /\ st[p].attempt \notin doubt]_vars
  <2> SUFFICES ASSUME TypeOK, IInv, [Next]_vars, NEW p \in Procs,
                      pc[p] = "answers", batch[p], todo[p] > 0,
                      cursor.status = "uncertain", cursor'.status = "active"
               PROVE  TimeUp(st[p]) /\ st[p].attempt \notin doubt
    OBVIOUS
  <2>1. AnswersTimeUp(p)
    BY BatchStep
  <2>2. st[p].attempt \notin doubt
    BY AtWork DEF IInv, WriteInv, Sending
  <2> QED BY <2>1, <2>2 DEF AnswersTimeUp
<1> QED BY <1>1, Invariance, PTL DEF Spec, OnlyTimeCutsABatch

-----------------------------------------------------------------------------
(* The attempts the CLI answers for, when one account is used.             *)

\* Attempts stay begun, and keep their owner.
OwnersStay ==
    \A x \in Attempts : status[x] # "none" => status'[x] # "none" /\ owner'[x] = owner[x]

\* Without the server.
LEMMA OwnersUntouched ==
    ASSUME UNCHANGED <<status, owner>>
    PROVE  OwnersStay
  BY DEF OwnersStay

\* The environment begins attempts and moves them on.
LEMMA OwnersOutside ==
    ASSUME TypeOK, Environment
    PROVE  OwnersStay
<1>1. CASE DeadlinePasses
  BY <1>1 DEF DeadlinePasses, OwnersStay, TypeOK
<1>2. CASE ServerSubmits
  BY <1>2 DEF ServerSubmits, OwnersStay, TypeOK
<1>3. CASE DeliverSubmission
  BY <1>3 DEF DeliverSubmission, OwnersStay, TypeOK, IsOpen
<1>4. CASE SwitchAccount
  BY <1>4, OwnersUntouched DEF SwitchAccount, server
<1>5. CASE BrowserStarts
  BY <1>5 DEF BrowserStarts, OwnersStay, TypeOK, Unused
<1>6. CASE BrowserMoves
  BY <1>6, OwnersUntouched DEF BrowserMoves
<1>7. CASE BrowserSubmits
  BY <1>7 DEF BrowserSubmits, OwnersStay, TypeOK, IsOpen
<1> QED BY <1>1, <1>2, <1>3, <1>4, <1>5, <1>6, <1>7 DEF Environment

\* So do the plain steps, which the CLI answers for as before.
LEMMA PlainRest ==
    ASSUME TypeOK, IInv, NEW p \in Procs, Plain(p)
    PROVE  UNCHANGED taken /\ OwnersStay /\ Alone(p) /\ Elsewhere(p)
<1>1. CASE \/ CheckActor(p) \/ ReadPage(p) \/ Intent(p) \/ PostAnswer(p) \/ AnswerStored(p)
           \/ SendFinish(p) \/ Confirm(p)
  <2>1. UNCHANGED <<taken, status, owner>>
    BY <1>1 DEF CheckActor, ReadPage, Intent, PostAnswer, AnswerStored, SendFinish, Confirm,
                server
  <2>2. \E x \in Places \ {"startintent", "begin", "named"} : pc' = [pc EXCEPT ![p] = x]
    BY <1>1 DEF CheckActor, ReadPage, Intent, PostAnswer, AnswerStored, SendFinish, Confirm,
                Goto, Places
  <2> QED BY <2>1, <2>2, OwnersUntouched DEF TypeOK, Alone, Elsewhere
<1>2. CASE \/ Stop(p) \/ Refusals(p) \/ WriteRefused(p) \/ AnswersTimeUp(p)
           \/ SubmitUnanswered(p) \/ OpenAttempt(p) \/ SettlePage(p)
           \/ PostTurnLost(p) \/ CommitTurn(p)
  <2>1. End(p) /\ UNCHANGED <<taken, status, owner>>
    <3>1. CASE Refusals(p)
      BY <3>1 DEF Refusals, RefuseActor, RefuseSummary, StartFails, SealRefused, OpenRefused,
             ReadFails, IntentTimeUp, AnswerUnknown, TurnUnknown, ConfirmUnknown,
             SubmitUnknown, VerifyNotSubmitted, Refuse, server
    <3> QED BY <1>2, <3>1 DEF Stop, WriteRefused, AnswersTimeUp, SubmitUnanswered, Restore,
             OpenAttempt, SettlePage, PostTurnLost, CommitTurn, server
  <2> QED BY <2>1, Ends, EndsElsewhere, OwnersUntouched
<1>3. CASE CommitAnswers(p)
  <2>1. UNCHANGED <<taken, status, owner>>
    BY <1>3 DEF CommitAnswers, server
  <2>2. End(p) \/ pc' = [pc EXCEPT ![p] = "intent"]
    BY <1>3 DEF CommitAnswers, Goto
  <2> QED BY <2>1, <2>2, Ends, EndsElsewhere, OwnersUntouched DEF TypeOK, Alone, Elsewhere
<1>4. CASE PostTurn(p)
  <2>1. UNCHANGED <<taken, status, owner>> /\ pc' = [pc EXCEPT ![p] = "moved"]
    BY <1>4 DEF PostTurn, Goto
  <2> QED BY <2>1, OwnersUntouched DEF TypeOK, Alone, Elsewhere
<1>5. CASE SendSubmission(p)
  <2>1. UNCHANGED <<taken, owner>> /\ pc' = [pc EXCEPT ![p] = "receipt"]
    BY <1>5 DEF SendSubmission, Goto
  <2>2. \A x \in Attempts : status'[x] = status[x] \/ status'[x] = "submitted"
    BY <1>5 DEF SendSubmission, TypeOK
  <2> QED BY <2>1, <2>2 DEF TypeOK, Alone, Elsewhere, OwnersStay
<1> QED BY <1>1, <1>2, <1>3, <1>4, <1>5 DEF Plain

\* Only a command that runs takes them.
LEMMA PlainRuns ==
    ASSUME NEW p \in Procs, Plain(p)
    PROVE  pc[p] # "idle"
<1>1. Refusals(p) => pc[p] # "idle"
  BY DEF Refusals, RefuseActor, RefuseSummary, StartFails, SealRefused, OpenRefused,
         ReadFails, IntentTimeUp, AnswerUnknown, TurnUnknown, ConfirmUnknown, SubmitUnknown,
         VerifyNotSubmitted
<1> QED BY <1>1 DEF Plain, Stop, WriteRefused, AnswersTimeUp, SubmitUnanswered, CheckActor,
           OpenAttempt, SettlePage, ReadPage, Intent, PostAnswer, AnswerStored,
           CommitAnswers, PostTurn, PostTurnLost, CommitTurn, SendFinish, Confirm,
           SendSubmission

\* What is answered for stays so while the checkpoint goes on naming it.
LEMMA OwnsOn ==
    ASSUME Owns(cursor), SameAttempt, UNCHANGED taken
    PROVE  Owns(cursor)'
  BY DEF Owns, SameAttempt

\* A step of one process; the others are idle.
LEMMA OneTakes ==
    ASSUME TypeOK, IInv, NEW p \in Procs, pc[p] # "idle", Alone(p), Owns(cursor)',
           StartKnows(p)', \A x, y \in taken' : x = y,
           \A x \in taken' : status'[x] # "none" /\ owner'[x] \in Accounts
    PROVE  TakenInv'
<1>1. ASSUME NEW q \in Procs
      PROVE  StartKnows(q)'
  <2>1. q # p => pc'[q] = "idle"
    BY OthersIdle DEF Alone
  <2> QED BY <2>1 DEF StartKnows
<1> QED BY <1>1 DEF TakenInv

\* The attempts answered for keep what is known of them.
LEMMA TakenOn ==
    ASSUME TypeOK, TakenInv, OwnersStay, taken' \subseteq taken
    PROVE  /\ \A x, y \in taken' : x = y
           /\ \A x \in taken' : status'[x] # "none" /\ owner'[x] \in Accounts
  BY DEF TakenInv, OwnersStay, TypeOK

\* ReadSummary: a new attempt is only begun when none is unsettled.
LEMMA SummaryTakes ==
    ASSUME TypeOK, IInv, TakenInv, OneAccount, NEW p \in Procs, ReadSummary(p)
    PROVE  TakenInv'
<1>1. /\ pc[p] = "summary" /\ MaySummary(p)
      /\ adv' = [adv EXCEPT ![p] = InProgress(who[p]) # {}]
      /\ pc' = [pc EXCEPT ![p] = "startintent"]
      /\ UNCHANGED <<cursor, st, who, old, taken, status, owner>>
  BY DEF ReadSummary, Goto, server
<1>2. Alone(p) /\ pc'[p] = "startintent"
  BY <1>1 DEF TypeOK, Alone
<1>3. adv'[p] = (InProgress(who[p]) # {})
  BY <1>1 DEF TypeOK
<1>4. cursor \in Cursors /\ Fits(cursor) /\ who[p] \in Accounts
  BY <1>1 DEF IInv, StartInv, TypeOK
<1>5. ASSUME ~adv'[p], st[p] = cursor PROVE taken = {} /\ ~Kept(cursor, who[p])
  <2>1. ~ContinueOnly(cursor, who[p])
    BY <1>1, <1>3, <1>4, <1>5 DEF MaySummary
  <2>2. cursor.status # "absent" => cursor.actor = who[p]
    BY <1>4 DEF Fits, OneAccount
  <2>3. cursor.status \in {"absent", "submitted"}
    BY <1>4, <2>1, <2>2, Fields DEF ContinueOnly, Kept, Fits
  <2> QED BY <2>1, <2>3 DEF TakenInv, Owns, ContinueOnly
<1>6. StartKnows(p)'
  BY <1>1, <1>2, <1>5 DEF StartKnows
<1>7. Owns(cursor)'
  BY <1>1 DEF TakenInv, Owns
<1>8. OwnersStay /\ taken' \subseteq taken
  BY <1>1, OwnersUntouched
<1> QED BY <1>1, <1>2, <1>6, <1>7, <1>8, OneTakes, TakenOn

\* StartIntent: the intent keeps the attempt it has read of.
LEMMA IntentTakes ==
    ASSUME TypeOK, IInv, TakenInv, NEW p \in Procs, StartIntent(p), ~ReplacesUnread(p)
    PROVE  TakenInv'
<1>1. /\ pc[p] = "startintent" /\ pc' = [pc EXCEPT ![p] = "begin"]
      /\ UNCHANGED <<adv, who, taken, status, owner>>
  BY IntentKeeps DEF StartIntent, Goto, server
<1>2. Alone(p) /\ pc'[p] = "begin"
  BY <1>1 DEF TypeOK, Alone
<1>3. /\ cursor'.status = "uncertain"
      /\ cursor'.attempt = IF Kept(cursor, who[p]) THEN cursor.attempt ELSE 0
      /\ old'[p] = cursor
  BY IntentKeeps DEF TypeOK
<1>4. Owns(cursor) /\ StartKnows(p) /\ st[p] = cursor
  BY <1>1, IntentRead DEF TakenInv
<1>5. Owns(cursor)'
  BY <1>1, <1>3, <1>4 DEF Owns
<1>6. Owns(old[p])'
  BY <1>1, <1>3, <1>4 DEF Owns
<1>7. StartKnows(p)'
  BY <1>1, <1>2, <1>3, <1>4, <1>6 DEF StartKnows, Kept
<1>8. OwnersStay /\ taken' \subseteq taken
  BY <1>1, OwnersUntouched
<1> QED BY <1>1, <1>2, <1>5, <1>7, <1>8, OneTakes, TakenOn

\* ... and forgets the attempts of a checkpoint it has not read.
LEMMA UnreadTakes ==
    ASSUME TypeOK, IInv, TakenInv, OneAccount, NEW p \in Procs, StartIntent(p),
           ReplacesUnread(p)
    PROVE  TakenInv'
<1>1. /\ pc[p] = "startintent" /\ pc' = [pc EXCEPT ![p] = "begin"]
      /\ taken' = {x \in taken : owner[x] # cursor.actor}
      /\ UNCHANGED <<status, owner>>
  BY DEF StartIntent, Goto, server
<1>2. Alone(p) /\ pc'[p] = "begin"
  BY <1>1 DEF TypeOK, Alone
<1>3. st[p] = NoCursor /\ cursor.actor \in Accounts /\ old'[p] = NoCursor
  BY <1>1, IntentWrites DEF ReplacesUnread, IInv, LockInv, Read, Unread, Fits
<1>4. taken' = {}
  BY <1>1, <1>3 DEF TakenInv, OneAccount
<1>5. Owns(cursor)'
  BY <1>4 DEF Owns
<1>6. StartKnows(p)'
  BY <1>2, <1>3, <1>4, NoCursorFields DEF StartKnows, Owns, Kept
<1> QED BY <1>1, <1>2, <1>4, <1>5, <1>6, OneTakes

\* StartRefused: the checkpoint of before answers for as much.
LEMMA RefusedTakes ==
    ASSUME TypeOK, IInv, TakenInv, NEW p \in Procs, StartRefused(p)
    PROVE  TakenInv'
<1>1. /\ pc[p] = "begin" /\ End(p) /\ cursor' = old[p]
      /\ UNCHANGED <<taken, status, owner>>
  BY DEF StartRefused, Restore, server
<1>2. Alone(p) /\ pc'[p] = "idle"
  BY <1>1, Ends
<1>3. Owns(cursor)'
  BY <1>1 DEF TakenInv, StartKnows, Owns
<1>4. StartKnows(p)'
  BY <1>2 DEF StartKnows
<1>5. OwnersStay /\ taken' \subseteq taken
  BY <1>1, OwnersUntouched
<1> QED BY <1>1, <1>2, <1>3, <1>4, <1>5, OneTakes, TakenOn

\* StartCreates: the new attempt is the only one.
LEMMA CreateTakes ==
    ASSUME TypeOK, IInv, TakenInv, NEW p \in Procs, StartCreates(p)
    PROVE  TakenInv'
<1>1. PICK x \in Unused :
         /\ status' = [status EXCEPT ![x] = "open"]
         /\ owner' = [owner EXCEPT ![x] = who[p]]
         /\ taken' = taken \union {x}
         /\ got' = [got EXCEPT ![p] = [attempt |-> x, page |-> spot'[x]]]
  BY DEF StartCreates, Name
<1>2. /\ pc[p] = "begin" /\ ~adv[p] /\ pc' = [pc EXCEPT ![p] = "named"] /\ UNCHANGED cursor
  BY DEF StartCreates, Goto, Resumes
<1>3. x \in Attempts /\ status[x] = "none" /\ who[p] \in Accounts
  BY <1>2 DEF Unused, IInv, StartInv, Starting
<1>4. taken' = {x} /\ ~Kept(old[p], who[p])
  BY <1>1, <1>2 DEF TakenInv, StartKnows
<1>5. cursor.status = "uncertain" /\ cursor.attempt = 0
  BY <1>2, <1>4 DEF IInv, StartInv, Starting
<1>6. Owns(cursor)'
  BY <1>2, <1>5 DEF Owns
<1>7. status'[x] = "open" /\ owner'[x] = who[p] /\ got'[p].attempt = x
  BY <1>1, <1>3 DEF TypeOK
<1>8. Alone(p) /\ pc'[p] = "named"
  BY <1>2 DEF TypeOK, Alone
<1>9. StartKnows(p)'
  BY <1>3, <1>7, <1>8 DEF StartKnows
<1> QED BY <1>2, <1>3, <1>4, <1>6, <1>7, <1>8, <1>9, OneTakes

\* StartReopens: the server names an attempt of the account.
LEMMA ReopenTakes ==
    ASSUME TypeOK, IInv, TakenInv, NEW p \in Procs, StartReopens(p)
    PROVE  TakenInv'
<1>1. PICK x \in InProgress(who[p]) :
         got' = [got EXCEPT ![p] = [attempt |-> x, page |-> spot'[x]]]
  BY DEF StartReopens, Name
<1>2. /\ pc[p] = "begin" /\ pc' = [pc EXCEPT ![p] = "named"]
      /\ UNCHANGED <<cursor, taken, status, owner>>
  BY DEF StartReopens, Goto
<1>3. x \in Attempts /\ status[x] # "none" /\ owner[x] = who[p] /\ who[p] \in Accounts
  BY <1>2 DEF InProgress, IsOpen, IInv, StartInv, Starting
<1>4. Alone(p) /\ pc'[p] = "named" /\ got'[p].attempt = x
  BY <1>1, <1>2 DEF TypeOK, Alone
<1>5. Owns(cursor)'
  BY <1>2 DEF TakenInv, Owns
<1>6. StartKnows(p)'
  BY <1>2, <1>3, <1>4 DEF StartKnows
<1>7. OwnersStay /\ taken' \subseteq taken
  BY <1>2, OwnersUntouched
<1> QED BY <1>2, <1>4, <1>5, <1>6, <1>7, OneTakes, TakenOn

\* Seal: the attempt the server named is the one.
LEMMA SealTakes ==
    ASSUME TypeOK, IInv, TakenInv, OneAccount, NEW p \in Procs, Seal(p)
    PROVE  TakenInv'
<1> DEFINE x == got[p].attempt
<1>1. /\ pc[p] = "named" /\ pc' = [pc EXCEPT ![p] = "opening"]
      /\ UNCHANGED <<who, old, got, status, owner>>
  BY DEF Seal, Goto, server
<1>2. Alone(p) /\ pc'[p] = "opening"
  BY <1>1 DEF TypeOK, Alone
<1>3. StartKnows(p)'
  BY <1>2 DEF StartKnows
<1>4. OwnersStay
  BY <1>1, OwnersUntouched
<1>5. CASE UNCHANGED <<cursor, taken>>
  <2>1. Owns(cursor)'
    BY <1>5 DEF TakenInv, Owns
  <2> QED BY <1>1, <1>2, <1>3, <1>4, <1>5, <2>1, OneTakes, TakenOn
<1>6. CASE /\ cursor.attempt \in {0, x} /\ Takes(p)
           /\ cursor'.attempt = x /\ cursor'.status = "uncertain"
  <2>1. /\ x \in Attempts /\ who[p] \in Accounts
        /\ cursor.attempt = IF Kept(old[p], who[p]) THEN old[p].attempt ELSE 0
    <3>1. x # 0 /\ x \in Attempts \union {0}
      BY <1>1 DEF IInv, StartInv, TypeOK
    <3> QED BY <1>1, <3>1 DEF IInv, StartInv, Starting
  <2>2. status[x] # "none" /\ owner[x] \in Accounts
    BY <1>1 DEF TakenInv, StartKnows
  <2>3. taken' = {x}
    <3>1. CASE Kept(old[p], who[p])
      <4>1. cursor.attempt # 0 /\ cursor.attempt = x
        BY <1>6, <2>1, <3>1 DEF Kept
      <4>2. taken \subseteq {x}
        BY <4>1 DEF TakenInv, Owns
      <4> QED BY <1>6, <3>1, <4>2 DEF Takes
    <3>2. CASE ~Kept(old[p], who[p])
      <4>1. {y \in taken : owner[y] # who[p]} = {}
        BY <2>1 DEF TakenInv, OneAccount
      <4> QED BY <1>6, <3>2, <4>1 DEF Takes
    <3> QED BY <3>1, <3>2
  <2>4. Owns(cursor)'
    BY <1>6, <2>3 DEF Owns
  <2> HIDE DEF x
  <2> QED BY <1>1, <1>2, <1>3, <2>1, <2>2, <2>3, <2>4, OneTakes
<1> QED BY <1>5, <1>6, SealNames

\* A submitted attempt is answered for no more.
LEMMA SubmitTakes ==
    ASSUME TypeOK, IInv, TakenInv, NEW p \in Procs, CommitSubmit(p) \/ VerifySubmitted(p)
    PROVE  TakenInv'
<1>1. pc[p] \in {"receipt", "listing"} /\ End(p) /\ UNCHANGED <<status, owner>>
  BY DEF CommitSubmit, VerifySubmitted, server
<1>2. Alone(p) /\ pc'[p] = "idle"
  BY <1>1, Ends
<1>3. taken' = {}
  BY SubmittedKeeps DEF TakenInv, Owns
<1>4. Owns(cursor)' /\ StartKnows(p)'
  BY <1>2, <1>3 DEF Owns, StartKnows
<1> QED BY <1>1, <1>2, <1>3, <1>4, OneTakes

\* Steps of others.
LEMMA OutsideTakes ==
    ASSUME TypeOK, IInv, TakenInv, UNCHANGED <<cursor, taken, local>>, OwnersStay
    PROVE  TakenInv'
<1>1. UNCHANGED <<pc, st, adv, who, old, got>>
  BY DEF local
<1>2. Owns(cursor)'
  BY DEF TakenInv, Owns
<1>3. ASSUME NEW p \in Procs
      PROVE  StartKnows(p)'
  <2>1. StartKnows(p)
    BY DEF TakenInv
  <2>2. pc[p] = "begin" => Owns(old[p])'
    BY <1>1, <2>1 DEF StartKnows, Owns
  <2>3. pc[p] = "named" =>
           status'[got[p].attempt] # "none" /\ owner'[got[p].attempt] \in Accounts
    <3>1. got[p].attempt \in Attempts \union {0}
      BY DEF TypeOK
    <3>2. pc[p] = "named" => got[p].attempt # 0
      BY DEF IInv, StartInv
    <3> QED BY <2>1, <3>1, <3>2 DEF StartKnows, OwnersStay
  <2> QED BY <1>1, <2>1, <2>2, <2>3 DEF StartKnows, Kept
<1> QED BY <1>2, <1>3, TakenOn DEF TakenInv

\* Every step.
LEMMA TakenStep ==
    ASSUME TypeOK, IInv, TakenInv, OneAccount, [Next]_vars
    PROVE  TakenInv'
<1>1. CASE UNCHANGED vars
  BY <1>1, CursorStays, OwnersUntouched, OutsideTakes DEF vars, server
<1>2. CASE Environment
  BY <1>2, CursorStays, OwnersOutside, OutsideTakes
<1>3. ASSUME NEW p \in Procs, Plain(p)
      PROVE  TakenInv'
  <2>1. /\ SameAttempt /\ UNCHANGED taken /\ OwnersStay /\ Alone(p) /\ Elsewhere(p)
    BY <1>3, PlainCursor, PlainRest
  <2>2. Owns(cursor)'
    BY <2>1, OwnsOn DEF TakenInv
  <2>3. StartKnows(p)'
    BY <2>1 DEF StartKnows, Elsewhere
  <2>4. pc[p] # "idle"
    BY <1>3, PlainRuns
  <2> QED BY <2>1, <2>2, <2>3, <2>4, OneTakes, TakenOn
<1>4. ASSUME NEW p \in Procs, Forget(p)
      PROVE  TakenInv'
  <2>1. taken' = {} /\ pc[p] = "idle" /\ holder = NoProc /\ UNCHANGED local
    BY <1>4 DEF Forget
  <2>2. Owns(cursor)'
    BY <1>4, NoCursorFields DEF Forget, Owns
  <2>3. \A q \in Procs : pc'[q] = "idle"
    BY <2>1, NameAssumption DEF local, IInv, LockInv
  <2> QED BY <2>1, <2>2, <2>3 DEF TakenInv, StartKnows
<1>5. ASSUME NEW p \in Procs, NEW c \in Commands, Run(p, c)
      PROVE  TakenInv'
  <2>1. /\ UNCHANGED <<cursor, taken, status, owner>> /\ pc' = [pc EXCEPT ![p] = "actor"]
        /\ holder = NoProc
    BY <1>5 DEF Run, Goto, server
  <2>2. \A q \in Procs : pc'[q] \in {"idle", "actor"}
    BY <2>1, NameAssumption DEF IInv, LockInv, TypeOK
  <2>3. Owns(cursor)'
    BY <2>1 DEF TakenInv, Owns
  <2> QED BY <2>1, <2>2, <2>3 DEF TakenInv, StartKnows
<1>6. ASSUME NEW p \in Procs, RunUnread(p)
      PROVE  TakenInv'
  <2>1. /\ UNCHANGED <<cursor, taken, status, owner>> /\ pc' = [pc EXCEPT ![p] = "actor"]
        /\ holder = NoProc
    BY <1>6 DEF RunUnread, Goto, server
  <2>2. \A q \in Procs : pc'[q] \in {"idle", "actor"}
    BY <2>1, NameAssumption DEF IInv, LockInv, TypeOK
  <2>3. Owns(cursor)'
    BY <2>1 DEF TakenInv, Owns
  <2> QED BY <2>1, <2>2, <2>3 DEF TakenInv, StartKnows
<1> QED BY <1>1, <1>2, <1>3, <1>4, <1>5, <1>6, Steps, SummaryTakes, IntentTakes,
           UnreadTakes, RefusedTakes, CreateTakes, ReopenTakes, SealTakes, SubmitTakes DEF Person

\* With one account in use, the CLI answers for at most one attempt until it is verified
\* submitted or forgotten, or lost with a checkpoint that a start could not read.  With two,
\* the run attempt_overwritten shows another outcome.
THEOREM OneAtATime == OneAccount => (Spec => []OneUnsettledAttempt)
<1> SUFFICES ASSUME OneAccount PROVE Spec => []OneUnsettledAttempt
  OBVIOUS
<1>1. Init => TakenInv
  BY NoCursorFields DEF Init, TakenInv, Owns, StartKnows
<1>2. TypeOK /\ IInv /\ TakenInv /\ [Next]_vars => TakenInv'
  BY TakenStep
<1>3. TakenInv => OneUnsettledAttempt
  BY DEF TakenInv, OneUnsettledAttempt
<1> QED BY <1>1, <1>2, <1>3, Invariance, PTL DEF Spec
-----------------------------------------------------------------------------
(* WriteLedger.                                                            *)

\* What the entry is, by what the checkpoint says.
LEMMA EntryIs ==
    ASSUME cursor \in Cursors
    PROVE  /\ cursor.status = "uncertain" => EntryOf = "pending" /\ AboutOf = cursor.attempt
           /\ cursor.status = "active" => EntryOf = "clear" /\ AboutOf = cursor.attempt
           /\ cursor.status \in {"absent", "submitted"} => EntryOf = "blank" /\ AboutOf = 0
  BY DEF EntryOf, AboutOf

\* So after a step.
LEMMA EntryNext ==
    ASSUME cursor' \in Cursors
    PROVE  /\ cursor'.status = "uncertain" => EntryOf' = "pending" /\ AboutOf' = cursor'.attempt
           /\ cursor'.status = "active" => EntryOf' = "clear" /\ AboutOf' = cursor'.attempt
           /\ cursor'.status \in {"absent", "submitted"} => EntryOf' = "blank" /\ AboutOf' = 0
  BY DEF EntryOf, AboutOf

\* What is written of a submitted attempt is not in doubt.
Over(c) == c.status = "submitted" => c.attempt \notin doubt

OverInv == Over(cursor) /\ \A p \in Procs : pc[p] = "begin" => Over(old[p])

\* The actions that send.
Sender(p) == PostAnswer(p) \/ PostTurn(p) \/ PostTurnLost(p) \/ SendFinish(p) \/ SendSubmission(p)

\* What is sent is a write the checkpoint is uncertain of.
LEMMA SenderSends ==
    ASSUME TypeOK, IInv, NEW p \in Procs, Sender(p)
    PROVE  /\ pc[p] \in Sending /\ cursor.status = "uncertain"
           /\ cursor.attempt \in Attempts \ doubt
           /\ UNCHANGED cursor /\ doubt' = doubt \union {cursor.attempt}
           /\ Alone(p) /\ pc'[p] \notin Sending \union {"begin"}
<1>1. /\ pc[p] \in Sending /\ UNCHANGED cursor
      /\ doubt' = doubt \union {st[p].attempt}
  BY DEF Sender, PostAnswer, PostTurn, PostTurnLost, SendFinish, SendSubmission, Sends, Sending
<1>2. st[p] = cursor /\ cursor.status = "uncertain" /\ cursor.attempt \in Attempts
  BY <1>1, AtWrite DEF Sending, Writing
<1>3. cursor.attempt \notin doubt
  BY <1>1 DEF IInv, WriteInv
<1>4. Alone(p) /\ pc'[p] \notin Sending \union {"begin"}
  <2>1. CASE PostTurnLost(p)
    BY <2>1, Ends DEF PostTurnLost, Sending
  <2>2. CASE PostAnswer(p) \/ PostTurn(p) \/ SendFinish(p) \/ SendSubmission(p)
    BY <2>2 DEF PostAnswer, PostTurn, SendFinish, SendSubmission, Goto, TypeOK, Alone, Sending
  <2> QED BY <2>1, <2>2 DEF Sender
<1> QED BY <1>1, <1>2, <1>3, <1>4

\* Nothing else adds to the doubt.
LEMMA OthersLearn ==
    ASSUME [Next]_vars, \A p \in Procs : ~Sender(p)
    PROVE  doubt' \subseteq doubt
<1>1. ASSUME NEW p \in Procs, Advance(p), ~Sender(p)
      PROVE  doubt' \subseteq doubt
  BY <1>1 DEF Sender, Advance, CheckActor, RefuseActor, ReadSummary, RefuseSummary,
     StartIntent, StartRefused, StartCreates, StartReopens, StartFails, Seal, SealRefused,
     OpenAttempt, OpenRefused, SettlePage, ReadPage, ReadFails, Intent, IntentTimeUp,
     WriteRefused, AnswersTimeUp, AnswerStored, AnswerUnknown, CommitAnswers, CommitTurn,
     TurnUnknown, Confirm, ConfirmUnknown, SubmitUnanswered, CommitSubmit, SubmitUnknown,
     VerifySubmitted, VerifyNotSubmitted, Refuse, Restore, Learns
<1>2. ASSUME NEW p \in Procs, Stop(p) \/ Person(p)
      PROVE  doubt' \subseteq doubt
  BY <1>2 DEF Stop, Person, Run, RunUnread, Forget
<1>3. CASE Environment \/ UNCHANGED vars
  BY <1>3 DEF Environment, DeadlinePasses, ServerSubmits, DeliverSubmission, SwitchAccount,
     BrowserStarts, BrowserMoves, BrowserSubmits, vars
<1> QED BY <1>1, <1>2, <1>3 DEF Next

\* A process is about to start only when it has just recorded the intent.
LEMMA BeginsByIntent ==
    ASSUME TypeOK, IInv, [Next]_vars, NEW q \in Procs, pc'[q] = "begin"
    PROVE  (pc[q] = "begin" /\ old'[q] = old[q]) \/ StartIntent(q)
<1>1. ASSUME NEW p \in Procs, End(p)
      PROVE  pc[q] = "begin" /\ old'[q] = old[q]
  BY <1>1 DEF End, TypeOK
<1>2. ASSUME NEW p \in Procs, Advance(p)
      PROVE  (pc[q] = "begin" /\ old'[q] = old[q]) \/ StartIntent(q)
  BY <1>1, <1>2 DEF TypeOK, Goto, Advance, CheckActor, RefuseActor, ReadSummary,
     RefuseSummary, StartIntent, StartRefused, StartCreates, StartReopens, StartFails, Seal,
     SealRefused, OpenAttempt, OpenRefused, SettlePage, ReadPage, ReadFails, Intent,
     IntentTimeUp, WriteRefused, PostAnswer, AnswersTimeUp, AnswerStored, AnswerUnknown,
     CommitAnswers, PostTurn, PostTurnLost, CommitTurn, TurnUnknown, SendFinish, Confirm,
     ConfirmUnknown, SubmitUnanswered, SendSubmission, CommitSubmit, SubmitUnknown,
     VerifySubmitted, VerifyNotSubmitted, Refuse, Restore
<1>3. ASSUME NEW p \in Procs, Stop(p) \/ Person(p)
      PROVE  pc[q] = "begin" /\ old'[q] = old[q]
  BY <1>1, <1>3 DEF TypeOK, Goto, Stop, Person, Run, RunUnread, Forget, local
<1>4. CASE Environment \/ UNCHANGED vars
  BY <1>4, CursorStays DEF local
<1> QED BY <1>2, <1>3, <1>4 DEF Next

\* Where a step leaves the checkpoint submitted, or a start under way, what it says so
\* of was said before, or is settled.
LEMMA OverStep ==
    ASSUME TypeOK, IInv, OverInv, [Next]_vars
    PROVE  OverInv'
<1>0. cursor \in Cursors /\ Fits(cursor)
  BY DEF TypeOK, IInv
<1>1. ASSUME NEW p \in Procs, Sender(p)
      PROVE  OverInv'
  <2>1. /\ UNCHANGED cursor /\ cursor.status = "uncertain" /\ pc[p] # "idle"
        /\ Alone(p) /\ pc'[p] # "begin"
    BY <1>1, SenderSends DEF Sending
  <2>2. \A q \in Procs : pc'[q] # "begin"
    BY <2>1, OthersIdle DEF Alone
  <2> QED BY <2>1, <2>2 DEF OverInv, Over
<1>2. CASE doubt' \subseteq doubt
  <2>1. Over(cursor)'
    <3>1. CASE UNCHANGED cursor
      BY <1>2, <3>1 DEF OverInv, Over
    <3>2. ASSUME NEW p \in Procs, Plain(p)
          PROVE  UNCHANGED cursor \/ cursor'.status # "submitted"
      BY <3>2, PlainCursor DEF SameAttempt
    <3>3. ASSUME NEW p \in Procs, StartIntent(p) \/ Seal(p)
          PROVE  cursor'.status # "submitted"
      BY <3>3, IntentWrites, SealNames
    <3>4. ASSUME NEW p \in Procs, StartRefused(p)
          PROVE  Over(cursor)'
      BY <1>2, <3>4, StartRestores DEF OverInv, Over
    <3>5. ASSUME NEW p \in Procs, CommitSubmit(p) \/ VerifySubmitted(p)
          PROVE  Over(cursor)'
      <4>1. /\ pc[p] \in {"receipt", "listing"}
            /\ cursor' = Done(st[p]) /\ doubt' = doubt \ {st[p].attempt}
        BY <3>5 DEF CommitSubmit, VerifySubmitted, Learns
      <4>2. cursor'.attempt = st[p].attempt
        BY <4>1, AtWork, DoneFields
      <4> QED BY <4>1, <4>2 DEF Over
    <3>6. ASSUME NEW p \in Procs, Person(p)
          PROVE  UNCHANGED cursor \/ cursor' = NoCursor
      BY <3>6, CursorStays DEF Person, Forget
    <3> QED BY <3>1, <3>2, <3>3, <3>4, <3>5, <3>6, Steps, CursorStays, NoCursorFields
            DEF Over
  <2>2. ASSUME NEW q \in Procs, pc'[q] = "begin"
        PROVE  Over(old[q])'
    <3>1. CASE pc[q] = "begin" /\ old'[q] = old[q]
      BY <1>2, <3>1 DEF OverInv, Over
    <3>2. CASE StartIntent(q)
      <4>1. old'[q] = cursor \/ old'[q].status = "absent"
        BY <3>2, IntentWrites, NoCursorFields
      <4> QED BY <1>2, <4>1 DEF OverInv, Over
    <3>3. (pc[q] = "begin" /\ old'[q] = old[q]) \/ StartIntent(q)
      BY <2>2, BeginsByIntent
    <3> QED BY <3>1, <3>2, <3>3
  <2> QED BY <2>1, <2>2 DEF OverInv
<1> QED BY <1>1, <1>2, OthersLearn

\* A command is about to send exactly when the process that steps is.
LEMMA ReadyIs ==
    ASSUME IInv, NEW p \in Procs, pc[p] # "idle" \/ holder = NoProc, Alone(p)
    PROVE  ReadyOf' <=> pc'[p] \in Sending
<1>1. ASSUME NEW q \in Procs, q # p
      PROVE  pc[q] = "idle"
  BY <1>1, OthersIdle, NameAssumption DEF IInv, LockInv
<1> QED BY <1>1 DEF ReadyOf, Sending, Alone

\* Steps that neither write the checkpoint nor send.
LEMMA Quiet ==
    ASSUME UNCHANGED <<cursor, doubt>>, ~ReadyOf'
    PROVE  Ledger!LedgerNext
  BY DEF Ledger!LedgerNext, Ledger!Leave, EntryOf, AboutOf

\* A command that has sent nothing to be read goes back to the settled checkpoint.
LEMMA SettlesQuietly ==
    ASSUME TypeOK, TypeOK', IInv', cursor.status = "uncertain",
           cursor'.status \in {"active", "submitted"},
           cursor'.attempt = cursor.attempt, doubt' = doubt \ {cursor.attempt}, ~ReadyOf'
    PROVE  Ledger!LedgerNext
<1>1. cursor \in Cursors /\ cursor' \in Cursors
  BY DEF TypeOK
<1>2. cursor.attempt # 0
  BY DEF IInv, Fits
<1>3. Ledger!Settle
  BY <1>1, <1>2, EntryIs, EntryNext DEF Ledger!Settle
<1> QED BY <1>3 DEF Ledger!LedgerNext

\* What sends, sends knowing.
LEMMA SenderLedger ==
    ASSUME TypeOK, IInv, NEW p \in Procs, Sender(p)
    PROVE  Ledger!LedgerNext
<1>1. /\ pc[p] \in Sending /\ cursor.status = "uncertain"
      /\ UNCHANGED cursor /\ doubt' = doubt \union {cursor.attempt}
      /\ Alone(p) /\ pc'[p] \notin Sending
  BY SenderSends
<1>2. ReadyOf /\ ~ReadyOf'
  BY <1>1, ReadyIs DEF ReadyOf, Sending
<1>3. EntryOf = "pending" /\ AboutOf = cursor.attempt /\ UNCHANGED <<EntryOf, AboutOf>>
  BY <1>1, EntryIs DEF TypeOK, EntryOf, AboutOf
<1>4. Ledger!Send
  BY <1>1, <1>2, <1>3 DEF Ledger!Send
<1> QED BY <1>4 DEF Ledger!LedgerNext

\* A write that is restored, and a batch of answers that is committed.
LEMMA RestoredLedger ==
    ASSUME TypeOK, TypeOK', IInv, IInv', NEW p \in Procs,
           WriteRefused(p) \/ AnswersTimeUp(p) \/ SubmitUnanswered(p) \/ CommitAnswers(p)
    PROVE  Ledger!LedgerNext
<1>1. pc[p] \in Sending /\ pc[p] \in Writing /\ UNCHANGED doubt
  BY DEF WriteRefused, AnswersTimeUp, SubmitUnanswered, CommitAnswers, Restore, Sending, Writing
<1>2. /\ cursor.status = "uncertain" /\ old[p] = Settled(cursor) /\ st[p] = cursor
      /\ cursor \in Cursors /\ cursor.attempt \notin doubt
  BY <1>1, AtWrite DEF IInv, WriteInv
<1>3. cursor' = Settled(cursor)
  BY <1>2 DEF WriteRefused, AnswersTimeUp, SubmitUnanswered, CommitAnswers, Restore
<1>4. Alone(p) /\ pc'[p] \notin Sending
  <2>1. ASSUME End(p) PROVE Alone(p) /\ pc'[p] = "idle"
    BY <2>1, Ends
  <2>2. End(p) \/ Goto(p, "intent")
    BY DEF WriteRefused, AnswersTimeUp, SubmitUnanswered, CommitAnswers, Restore
  <2> QED BY <2>1, <2>2 DEF Goto, TypeOK, Alone, Sending
<1>5. ~ReadyOf'
  BY <1>1, <1>4, ReadyIs DEF Sending
<1>6. doubt' = doubt \ {cursor.attempt}
  BY <1>1, <1>2
<1> QED BY <1>2, <1>3, <1>5, <1>6, SettledFields, SettlesQuietly

\* A step of a write that reads back what was sent, and goes on.
LEMMA LearnLedger ==
    ASSUME TypeOK, IInv, NEW p \in Procs, AnswerStored(p) \/ Confirm(p)
    PROVE  Ledger!LedgerNext
<1>1. /\ pc[p] \in Writing /\ UNCHANGED cursor /\ doubt' = doubt \ {st[p].attempt}
  BY DEF AnswerStored, Confirm, Learns, Writing
<1>2. st[p] = cursor /\ cursor.status = "uncertain" /\ cursor \in Cursors
  BY <1>1, AtWrite
<1>3. EntryOf = "pending" /\ AboutOf = cursor.attempt /\ UNCHANGED <<EntryOf, AboutOf>>
  BY <1>1, <1>2, EntryIs DEF EntryOf, AboutOf
<1>4. ReadyOf' \in BOOLEAN
  BY DEF ReadyOf
<1>5. Ledger!Learn
  BY <1>1, <1>2, <1>3, <1>4 DEF Ledger!Learn
<1> QED BY <1>5 DEF Ledger!LedgerNext

\* The intent of a write follows no write in doubt.
LEMMA IntentLedger ==
    ASSUME TypeOK, TypeOK', IInv, NEW p \in Procs, Intent(p)
    PROVE  Ledger!LedgerNext
<1>1. /\ pc[p] = "intent" /\ cursor' = Meant(st[p], cmd[p]) /\ UNCHANGED doubt
  BY DEF Intent, Meant
<1>2. /\ st[p] = cursor /\ cursor \in Cursors /\ Fits(cursor)
      /\ cursor.status = "active" /\ cmd[p] \in Writes
  BY <1>1, AtWork DEF IInv, WriteInv
<1>3. cursor.op = "none" /\ cursor.attempt \notin doubt
  BY <1>2 DEF Fits
<1>4. cursor'.status = "uncertain" /\ cursor'.attempt = cursor.attempt /\ cursor' \in Cursors
  BY <1>1, <1>2, <1>3, MeantFields
<1>5. /\ EntryOf = "clear" /\ AboutOf = cursor.attempt
      /\ EntryOf' = "pending" /\ AboutOf' = cursor.attempt
  BY <1>2, <1>4, EntryIs, EntryNext
<1>6. ReadyOf' \in BOOLEAN
  BY DEF ReadyOf
<1>7. Ledger!Intend
  BY <1>1, <1>3, <1>5, <1>6 DEF Ledger!Intend
<1> QED BY <1>7 DEF Ledger!LedgerNext

\* A page or a receipt that is read back settles what the checkpoint is uncertain of.
LEMMA ReadLedger ==
    ASSUME TypeOK, TypeOK', IInv, IInv', OverInv, NEW p \in Procs,
           \/ OpenAttempt(p) \/ SettlePage(p) \/ CommitTurn(p)
           \/ CommitSubmit(p) \/ VerifySubmitted(p)
    PROVE  Ledger!LedgerNext
<1>1. End(p) /\ pc[p] \in {"opening", "read", "moved", "receipt", "listing"}
  BY DEF OpenAttempt, SettlePage, CommitTurn, CommitSubmit, VerifySubmitted
<1>2. ~ReadyOf'
  BY <1>1, Ends, ReadyIs DEF Sending
<1>3. st[p] = cursor /\ cursor \in Cursors /\ Fits(cursor)
  BY <1>1, AtWork
<1>4. CASE OpenAttempt(p) \/ CommitTurn(p)
  <2>1. cursor.status = "uncertain"
    BY <1>4, AtWrite DEF OpenAttempt, CommitTurn, Writing, IInv, StartInv, Starting
  <2>2. cursor'.status = "active"
    BY <1>3, <1>4 DEF OpenAttempt, CommitTurn, Settled, Cursors
  <2>3. cursor'.attempt = cursor.attempt
    BY <1>3, <1>4 DEF OpenAttempt, CommitTurn, Settled, Cursors
  <2>4. doubt' = doubt \ {cursor.attempt}
    BY <1>3, <1>4 DEF OpenAttempt, CommitTurn, Learns
  <2> QED BY <1>2, <2>1, <2>2, <2>3, <2>4, SettlesQuietly
<1>5. CASE SettlePage(p)
  <2>1. CASE UNCHANGED <<cursor, doubt>>
    BY <1>2, <2>1, Quiet
  <2>2. CASE /\ st[p].status = "uncertain" /\ cursor' = Settled(st[p])
             /\ doubt' = doubt \ {st[p].attempt}
    BY <1>2, <1>3, <2>2, SettledFields, SettlesQuietly
  <2> QED BY <1>5, <2>1, <2>2 DEF SettlePage
<1>6. CASE CommitSubmit(p) \/ VerifySubmitted(p)
  <2>1. /\ cursor' = Done(cursor) /\ doubt' = doubt \ {cursor.attempt}
        /\ pc[p] \in {"receipt", "listing"}
    BY <1>3, <1>6 DEF CommitSubmit, VerifySubmitted, Learns
  <2>2. cursor'.status = "submitted" /\ cursor' \in Cursors
    BY <1>3, <2>1, DoneFields
  <2>3. cursor.attempt # 0 /\ cursor.status # "absent"
    BY <1>3, <1>6, SubmittedKeeps, NoCursorFields DEF Fits
  <2>4. CASE cursor.status = "submitted"
    <3>1. UNCHANGED doubt
      BY <2>1, <2>4 DEF OverInv, Over
    <3>2. UNCHANGED <<EntryOf, AboutOf>>
      BY <1>3, <2>2, <2>4, EntryIs, EntryNext
    <3> QED BY <1>2, <3>1, <3>2 DEF Ledger!LedgerNext, Ledger!Leave
  <2>5. CASE cursor.status \in {"active", "uncertain"}
    <3>1. Ledger!Settle
      BY <1>2, <1>3, <2>1, <2>2, <2>3, <2>5, EntryIs, EntryNext DEF Ledger!Settle
    <3> QED BY <3>1 DEF Ledger!LedgerNext
  <2> QED BY <1>3, <2>3, <2>4, <2>5, Fields
<1> QED BY <1>4, <1>5, <1>6

\* A start is intended: an uncertain checkpoint goes on naming its attempt, unless the
\* start has not read it.
LEMMA StartIntentLedger ==
    ASSUME TypeOK, TypeOK', IInv, NEW p \in Procs, StartIntent(p)
    PROVE  Ledger!LedgerNext
<1>1. cursor'.status = "uncertain"
  BY IntentWrites
<1>2. cursor \in Cursors /\ cursor' \in Cursors
  BY DEF TypeOK
<1>3. pc[p] # "idle" /\ Alone(p) /\ pc'[p] = "begin" /\ UNCHANGED doubt
  BY DEF StartIntent, Goto, TypeOK, Alone
<1>4. ~ReadyOf'
  BY <1>3, ReadyIs DEF Sending
<1>5. EntryOf' = "pending" /\ AboutOf' = cursor'.attempt
  BY <1>1, <1>2, EntryNext
<1>6. CASE ~ReplacesUnread(p)
  <2>1. /\ cursor'.attempt = IF Kept(cursor, who[p]) THEN cursor.attempt ELSE 0
        /\ cursor.status = "uncertain" => cursor.actor = who[p]
    BY <1>6, IntentKeeps
  <2>2. /\ AboutOf' \in {AboutOf, 0}
        /\ EntryOf = "pending" => AboutOf' = AboutOf
    BY <1>2, <1>5, <2>1, EntryIs, Fields DEF Kept
  <2>3. Ledger!Intend
    BY <1>3, <1>4, <1>5, <2>2 DEF Ledger!Intend, ReadyOf
  <2> QED BY <2>3 DEF Ledger!LedgerNext
<1>7. CASE ReplacesUnread(p)
  <2>1. st[p] = NoCursor
    BY <1>7, IntentWrites DEF ReplacesUnread
  <2>2. cursor'.attempt = 0
    BY <2>1, NoCursorFields DEF StartIntent, Kept
  <2>3. Ledger!Overwrite
    BY <1>3, <1>4, <1>5, <2>2 DEF Ledger!Overwrite, ReadyOf
  <2> QED BY <2>3 DEF Ledger!LedgerNext
<1> QED BY <1>6, <1>7

\* A start that sent nothing is withdrawn.
LEMMA StartRefusedLedger ==
    ASSUME TypeOK, TypeOK', IInv, NEW p \in Procs, StartRefused(p)
    PROVE  Ledger!LedgerNext
<1>1. /\ pc[p] = "begin" /\ cursor' = old[p] /\ cursor.status = "uncertain"
      /\ cursor.attempt = IF Kept(old[p], who[p]) THEN old[p].attempt ELSE 0
      /\ cursor'.status = "uncertain" => cursor'.actor = who[p]
  BY StartRestores
<1>2. cursor \in Cursors /\ cursor' \in Cursors /\ Fits(old[p])
  BY <1>1 DEF TypeOK, IInv, StartInv
<1>3. End(p) /\ UNCHANGED doubt
  BY DEF StartRefused, Restore
<1>4. ~ReadyOf'
  BY <1>1, <1>3, Ends, ReadyIs DEF Sending
<1>5. EntryOf = "pending" /\ AboutOf = cursor.attempt
  BY <1>1, <1>2, EntryIs
<1>6. 0 \notin doubt
  BY SizeAssumption DEF TypeOK, Attempts
<1>7. CASE cursor'.status \in {"absent", "submitted"}
  <2>1. Ledger!Forget
    BY <1>2, <1>3, <1>4, <1>7, EntryNext DEF Ledger!Forget, ReadyOf
  <2> QED BY <2>1 DEF Ledger!LedgerNext
<1>8. CASE cursor'.status = "active"
  <2>1. cursor'.attempt \in Attempts \ doubt
    BY <1>1, <1>2, <1>8, Fields DEF Fits
  <2>2. AboutOf \in {cursor'.attempt, 0} /\ AboutOf \notin doubt
    BY <1>1, <1>5, <1>6, <2>1
  <2>3. Ledger!Withdraw(cursor'.attempt)
    BY <1>2, <1>3, <1>4, <1>5, <1>8, <2>1, <2>2, EntryNext DEF Ledger!Withdraw, ReadyOf
  <2> QED BY <2>1, <2>3 DEF Ledger!LedgerNext
<1>9. CASE cursor'.status = "uncertain"
  <2>1. cursor'.attempt = cursor.attempt
    BY <1>1, <1>9 DEF Kept
  <2>2. UNCHANGED <<EntryOf, AboutOf>>
    BY <1>2, <1>5, <1>9, <2>1, EntryNext
  <2> QED BY <1>3, <1>4, <2>2 DEF Ledger!LedgerNext, Ledger!Leave, ReadyOf
<1> QED BY <1>2, <1>7, <1>8, <1>9, Fields

\* A start's reply names its attempt where the checkpoint has none.
LEMMA SealLedger ==
    ASSUME TypeOK, TypeOK', IInv, NEW p \in Procs, Seal(p)
    PROVE  Ledger!LedgerNext
<1>1. /\ cursor.status = "uncertain" /\ cursor'.status = "uncertain"
      /\ \/ UNCHANGED cursor
         \/ /\ cursor.attempt \in {0, got[p].attempt}
            /\ cursor'.attempt = got[p].attempt
  BY SealNames
<1>2. pc[p] = "named" /\ UNCHANGED doubt /\ pc'[p] = "opening" /\ Alone(p)
  BY DEF Seal, Goto, TypeOK, Alone
<1>3. cursor \in Cursors /\ cursor' \in Cursors
  BY DEF TypeOK
<1>4. got[p].attempt \in Attempts
  BY <1>2 DEF TypeOK, IInv, StartInv
<1>5. ~ReadyOf'
  BY <1>2, ReadyIs DEF Sending
<1>6. /\ EntryOf = "pending" /\ AboutOf = cursor.attempt
      /\ EntryOf' = "pending" /\ AboutOf' = cursor'.attempt
  BY <1>1, <1>3, EntryIs, EntryNext
<1>7. CASE UNCHANGED AboutOf
  BY <1>2, <1>5, <1>6, <1>7 DEF Ledger!LedgerNext, Ledger!Leave, ReadyOf
<1>8. CASE AboutOf = 0 /\ AboutOf' = got[p].attempt
  <2>1. doubt' = doubt \ {0}
    BY <1>2, SizeAssumption DEF TypeOK, Attempts
  <2>2. Ledger!Name(got[p].attempt)
    BY <1>5, <1>6, <1>8, <2>1 DEF Ledger!Name, ReadyOf
  <2> QED BY <1>4, <2>2 DEF Ledger!LedgerNext
<1> QED BY <1>1, <1>6, <1>7, <1>8

\* What a command does without writing or sending.
LEMMA QuietLedger ==
    ASSUME TypeOK, IInv, NEW p \in Procs,
           \/ Refusals(p) \/ Stop(p) \/ CheckActor(p) \/ ReadSummary(p)
           \/ StartCreates(p) \/ StartReopens(p) \/ ReadPage(p)
    PROVE  Ledger!LedgerNext
<1>1. UNCHANGED <<cursor, doubt>> /\ pc[p] # "idle"
  BY DEF Refusals, RefuseActor, RefuseSummary, StartFails, SealRefused, OpenRefused,
         ReadFails, IntentTimeUp, AnswerUnknown, TurnUnknown, ConfirmUnknown, SubmitUnknown,
         VerifyNotSubmitted, Refuse, Stop, CheckActor, ReadSummary, StartCreates,
         StartReopens, ReadPage
<1>2. Alone(p) /\ pc'[p] \notin Sending
  <2>1. CASE Refusals(p) \/ Stop(p)
    <3>1. End(p)
      BY <2>1 DEF Refusals, RefuseActor, RefuseSummary, StartFails, SealRefused, OpenRefused,
         ReadFails, IntentTimeUp, AnswerUnknown, TurnUnknown, ConfirmUnknown, SubmitUnknown,
         VerifyNotSubmitted, Refuse, Stop
    <3> QED BY <3>1, Ends DEF Sending
  <2>2. CASE \/ CheckActor(p) \/ ReadSummary(p) \/ StartCreates(p) \/ StartReopens(p)
             \/ ReadPage(p)
    BY <2>2 DEF CheckActor, ReadSummary, StartCreates, StartReopens, ReadPage, Goto, TypeOK,
                Alone, Sending
  <2> QED BY <2>1, <2>2
<1> QED BY <1>1, <1>2, ReadyIs, Quiet

\* What a person does: a command begins, or the checkpoint is forgotten.
LEMMA PersonLedger ==
    ASSUME TypeOK, TypeOK', IInv, NEW p \in Procs, Person(p)
    PROVE  Ledger!LedgerNext
<1>1. ASSUME NEW c \in Commands, Run(p, c)
      PROVE  Ledger!LedgerNext
  <2>1. UNCHANGED <<cursor, doubt>> /\ holder = NoProc
    BY <1>1 DEF Run
  <2>2. Alone(p) /\ pc'[p] \notin Sending
    BY <1>1 DEF Run, Goto, TypeOK, Alone, Sending
  <2> QED BY <2>1, <2>2, ReadyIs, Quiet
<1>2. CASE Forget(p)
  <2>1. holder = NoProc /\ cursor' = NoCursor /\ UNCHANGED <<doubt, pc>> /\ pc[p] = "idle"
    BY <1>2 DEF Forget, local
  <2>2. ~ReadyOf'
    BY <2>1, ReadyIs DEF Alone, Sending
  <2>3. cursor' \in Cursors
    BY DEF TypeOK
  <2>4. Ledger!Forget
    BY <2>1, <2>2, <2>3, EntryNext, NoCursorFields DEF Ledger!Forget, ReadyOf
  <2> QED BY <2>4 DEF Ledger!LedgerNext
<1>3. CASE RunUnread(p)
  <2>1. UNCHANGED <<cursor, doubt>> /\ holder = NoProc
    BY <1>3 DEF RunUnread
  <2>2. Alone(p) /\ pc'[p] \notin Sending
    BY <1>3 DEF RunUnread, Goto, TypeOK, Alone, Sending
  <2> QED BY <2>1, <2>2, ReadyIs, Quiet
<1> QED BY <1>1, <1>2, <1>3 DEF Person

\* Every step of the commands is one of the ledger, or none.
LEMMA LedgerStep ==
    ASSUME TypeOK, TypeOK', IInv, IInv', OverInv, [Next]_vars
    PROVE  [Ledger!LedgerNext]_(Ledger!ledgerVars)
<1>1. CASE UNCHANGED vars \/ Environment
  <2>1. UNCHANGED <<cursor, pc, doubt>>
    BY <1>1 DEF vars, Environment, DeadlinePasses, ServerSubmits, DeliverSubmission,
                SwitchAccount, BrowserStarts, BrowserMoves, BrowserSubmits, local
  <2> QED BY <2>1 DEF Ledger!ledgerVars, EntryOf, AboutOf, ReadyOf
<1>2. ASSUME NEW p \in Procs, Advance(p)
      PROVE  Ledger!LedgerNext
  <2>1. \/ Refusals(p) \/ CheckActor(p) \/ ReadSummary(p) \/ StartCreates(p)
        \/ StartReopens(p) \/ ReadPage(p)
        \/ Sender(p) \/ AnswerStored(p) \/ Confirm(p) \/ Intent(p)
        \/ WriteRefused(p) \/ AnswersTimeUp(p) \/ SubmitUnanswered(p) \/ CommitAnswers(p)
        \/ OpenAttempt(p) \/ SettlePage(p) \/ CommitTurn(p) \/ CommitSubmit(p)
        \/ VerifySubmitted(p) \/ StartIntent(p) \/ StartRefused(p) \/ Seal(p)
    BY <1>2 DEF Advance, Refusals, Sender
  <2> QED BY <2>1, QuietLedger, SenderLedger, LearnLedger, IntentLedger, RestoredLedger,
             ReadLedger, StartIntentLedger, StartRefusedLedger, SealLedger
<1>3. ASSUME NEW p \in Procs, Stop(p)
      PROVE  Ledger!LedgerNext
  BY <1>3, QuietLedger
<1>4. ASSUME NEW p \in Procs, Person(p)
      PROVE  Ledger!LedgerNext
  BY <1>4, PersonLedger
<1> QED BY <1>1, <1>2, <1>3, <1>4 DEF Next

\* The learner's checkpoint is a WriteLedger: no write follows one in doubt, and what is
\* in doubt stays uncertain until it is read back, withdrawn unsent, or forgotten.
THEOREM ImplementsWriteLedger == Spec => ImplementsLedger
<1>1. Init => OverInv
  BY NoCursorFields DEF Init, OverInv, Over
<1>2. TypeOK /\ IInv /\ OverInv /\ [Next]_vars => OverInv'
  BY OverStep
<1>3. Spec => []OverInv
  BY <1>1, <1>2, Invariance, PTL DEF Spec
<1>4. Init => Ledger!LedgerInit
  <2> SUFFICES ASSUME Init PROVE Ledger!LedgerInit
    OBVIOUS
  <2>1. cursor \in Cursors /\ cursor.status = "absent" /\ doubt = {} /\ ~ReadyOf
    BY NoCursorFields DEF Init, ReadyOf
  <2> QED BY <2>1, EntryIs DEF Ledger!LedgerInit
<1>5. TypeOK /\ TypeOK' /\ IInv /\ IInv' /\ OverInv /\ [Next]_vars =>
        [Ledger!LedgerNext]_(Ledger!ledgerVars)
  BY LedgerStep
<1> QED BY <1>3, <1>4, <1>5, Invariance, PTL DEF Spec, ImplementsLedger, Ledger!LedgerSpec

\* What the ledger promises: nothing is sent that the file does not say, or while the
\* last write to the same attempt is in doubt.
THEOREM LedgerPromise == Ledger!LedgerSpec => [](Ledger!LedgerTypeOK /\ Ledger!LedgerInv)
<1>1. 0 \notin Attempts
  BY SizeAssumption DEF Attempts
<1>2. Ledger!LedgerInit => Ledger!LedgerTypeOK /\ Ledger!LedgerInv
  BY DEF Ledger!LedgerInit, Ledger!LedgerTypeOK, Ledger!LedgerInv, ReadyOf
<1>3. /\ Ledger!LedgerTypeOK /\ Ledger!LedgerInv
      /\ [Ledger!LedgerNext]_(Ledger!ledgerVars)
      => (Ledger!LedgerTypeOK /\ Ledger!LedgerInv)'
  <2> SUFFICES ASSUME Ledger!LedgerTypeOK, Ledger!LedgerInv,
                      [Ledger!LedgerNext]_(Ledger!ledgerVars)
               PROVE  Ledger!LedgerTypeOK' /\ Ledger!LedgerInv'
    OBVIOUS
  <2> USE DEF Ledger!LedgerTypeOK, Ledger!LedgerInv
  <2>1. CASE Ledger!Intend
    BY <2>1 DEF Ledger!Intend
  <2>2. CASE Ledger!Send
    BY <2>2 DEF Ledger!Send
  <2>3. CASE Ledger!Learn
    BY <2>3 DEF Ledger!Learn
  <2>4. CASE Ledger!Leave
    BY <2>4 DEF Ledger!Leave
  <2>5. CASE Ledger!Settle
    BY <2>5 DEF Ledger!Settle
  <2>6. CASE Ledger!Forget
    BY <2>6 DEF Ledger!Forget
  <2>7. CASE Ledger!Reconcile
    BY <2>7 DEF Ledger!Reconcile
  <2>8. ASSUME NEW x \in Attempts, Ledger!Name(x) \/ Ledger!Withdraw(x)
        PROVE  Ledger!LedgerTypeOK' /\ Ledger!LedgerInv'
    BY <2>8 DEF Ledger!Name, Ledger!Withdraw
  <2>9. CASE Ledger!Overwrite
    BY <2>9 DEF Ledger!Overwrite
  <2>10. CASE UNCHANGED Ledger!ledgerVars
    BY <2>10 DEF Ledger!ledgerVars
  <2> QED BY <2>1, <2>2, <2>3, <2>4, <2>5, <2>6, <2>7, <2>8, <2>9, <2>10 DEF Ledger!LedgerNext
<1> QED BY <1>2, <1>3, PTL DEF Ledger!LedgerSpec
=============================================================================
