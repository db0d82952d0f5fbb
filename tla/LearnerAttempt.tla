--------------------------- MODULE LearnerAttempt ---------------------------
(***************************************************************************)
(* The learner's own graded attempts of one quiz, taken through the        *)
(* checkpoint file of quiz_learner_session.py: LearnerWorkflow's commands, *)
(* run by several lighthouse processes, with the requests they send        *)
(* (quiz_learner_transport.py, quiz_learner_finish.py), the server, its    *)
(* time limit and the learner's browser.                                   *)
(*                                                                         *)
(* One step is one request or one write of the checkpoint.  Attempts are   *)
(* numbered as Brightspace creates them (0: none), a page is a number, an  *)
(* answer is one request of a batch, and a time limit with auto-submit is  *)
(* a deadline the CLI knows or not; a limit without auto-submit changes    *)
(* nothing and counts as none.  A command that is refused, fails or is     *)
(* killed ends with the checkpoint as the last write left it.  A           *)
(* checkpoint that a command cannot read (sealed with a passphrase that is *)
(* not at hand, damaged) refuses every command but forget, which does not  *)
(* read it, and start, which goes on as if there were none.                *)
(***************************************************************************)
EXTENDS Integers, FiniteSets

CONSTANTS
    Procs,        \* lighthouse processes
    NoProc,       \* nobody holds the lock file
    Accounts,     \* accounts a person signs in as
    NoAccount,    \* the account of an absent checkpoint
    MaxAttempts,  \* attempts the quiz allows, over all accounts
    Pages,        \* pages of the quiz
    Batch,        \* bound: answers changed by one command
    ForwardOnly,  \* whether the quiz prevents moving backwards
    Timed,        \* whether attempts end at a deadline with auto-submit
    MaxEvents     \* bound: commands that fail or are killed midway, starts that
                  \* cannot read the checkpoint, and changes of the account, together

ASSUME NameAssumption == NoProc \notin Procs /\ NoAccount \notin Accounts
ASSUME SizeAssumption == /\ MaxAttempts \in Nat
                         /\ Pages \in Nat \ {0}
                         /\ Batch \in Nat
                         /\ {ForwardOnly, Timed} \subseteq BOOLEAN
                         /\ MaxEvents \in Nat

VARIABLES
    holder,    \* who holds the flock on learner-<course>-<quiz>.lock
    cursor,    \* learner-<course>-<quiz>.json
    pc,        \* where each process is
    cmd,       \* the command it runs
    st,        \* the cursor it works on (state)
    old,       \* the cursor it restores when nothing was sent (previous)
    who,       \* the account its session belongs to
    got,       \* the attempt and page its start named
    todo,      \* answers it still has to send
    adv,       \* whether its start continues an attempt
    batch,     \* history: it sent an answer since it recorded the intent
    account,   \* the account signed in
    past,      \* attempts whose deadline has passed
    status,    \* server: what became of each attempt
    owner,     \* server: whose attempt it is
    spot,      \* server: the page it holds
    inflight,  \* submissions sent and not yet processed
    events,    \* commands stopped, starts without reading the checkpoint, and
               \* changes of the account, so far
    shown,     \* history: pages the server showed of each attempt
    taken,     \* history: attempts the CLI created or continued and has neither
               \* verified as submitted nor been told to forget, nor lost with a
               \* checkpoint it could not read
    doubt      \* history: attempts with a write whose outcome the CLI ignores

local  == <<pc, cmd, st, old, who, got, todo, adv, batch>>
server == <<past, status, owner, spot, inflight, shown>>
vars   == <<holder, cursor, local, account, server, events, taken, doubt>>

Attempts == 1 .. MaxAttempts
PageNums == 1 .. Pages
Cursors  == [status : {"absent", "active", "uncertain", "submitted"},
             op : {"none", "start", "answer", "next", "previous", "submit"},
             actor : Accounts \union {NoAccount},
             attempt : Attempts \union {0},
             page : PageNums \union {0},
             timer : BOOLEAN]
NoCursor == [status |-> "absent", op |-> "none", actor |-> NoAccount,
             attempt |-> 0, page |-> 0, timer |-> FALSE]
Opening  == {"page", "images", "answer", "next", "previous", "submit"}
Commands == Opening \union {"none", "start", "verify"}
Places   == {"idle", "actor", "summary", "startintent", "begin", "named",
             "opening", "read", "intent", "answers", "stored", "post", "moved",
             "finish", "confirm", "rpc", "receipt", "listing"}

TypeOK ==
    /\ holder \in Procs \union {NoProc}
    /\ cursor \in Cursors
    /\ pc \in [Procs -> Places]
    /\ cmd \in [Procs -> Commands]
    /\ st \in [Procs -> Cursors]
    /\ old \in [Procs -> Cursors]
    /\ who \in [Procs -> Accounts \union {NoAccount}]
    /\ got \in [Procs -> [attempt : Attempts \union {0}, page : PageNums \union {0}]]
    /\ todo \in [Procs -> 0 .. Batch]
    /\ adv \in [Procs -> BOOLEAN]
    /\ batch \in [Procs -> BOOLEAN]
    /\ account \in Accounts
    /\ past \in SUBSET Attempts
    /\ status \in [Attempts -> {"none", "open", "late", "processing", "submitted"}]
    /\ owner \in [Attempts -> Accounts \union {NoAccount}]
    /\ spot \in [Attempts -> PageNums]
    /\ inflight \in SUBSET Attempts
    /\ events \in 0 .. MaxEvents
    /\ shown \in [Attempts -> SUBSET PageNums]
    /\ taken \in SUBSET Attempts
    /\ doubt \in SUBSET Attempts

Nothing == [attempt |-> 0, page |-> 0]

Init ==
    /\ holder = NoProc
    /\ cursor = NoCursor
    /\ pc = [p \in Procs |-> "idle"]
    /\ cmd = [p \in Procs |-> "none"]
    /\ st = [p \in Procs |-> NoCursor]
    /\ old = [p \in Procs |-> NoCursor]
    /\ who = [p \in Procs |-> NoAccount]
    /\ got = [p \in Procs |-> Nothing]
    /\ todo = [p \in Procs |-> 0]
    /\ adv = [p \in Procs |-> FALSE]
    /\ batch = [p \in Procs |-> FALSE]
    /\ account \in Accounts
    /\ past = {}
    /\ status = [x \in Attempts |-> "none"]
    /\ owner = [x \in Attempts |-> NoAccount]
    /\ spot = [x \in Attempts |-> 1]
    /\ inflight = {}
    /\ events = 0
    /\ shown = [x \in Attempts |-> {}]
    /\ taken = {}
    /\ doubt = {}

-----------------------------------------------------------------------------
(* Helpers.                                                                *)

\* The attempt's pages can be read and written.
IsOpen(x) == status[x] \in {"open", "late"}
\* The summary of an account offers Continue, or says it is being processed.
InProgress(a) == {x \in Attempts : owner[x] = a /\ IsOpen(x)}
Processing(a) == {x \in Attempts : owner[x] = a /\ status[x] = "processing"}
Unused == {x \in Attempts : status[x] = "none"}

\* _time_up: the deadline of the cursor passed and Brightspace submits it.
TimeUp(c) == c.timer /\ c.attempt \in past

\* start: the cursor's attempt is this account's and not known to be over.
Kept(c, a) == c.actor = a /\ c.status \in {"active", "uncertain"} /\ c.attempt # 0
ContinueOnly(c, a) ==
    Kept(c, a) \/ (c.actor = a /\ c.status = "uncertain" /\ c.op = "start")

Goto(p, place) == pc' = [pc EXCEPT ![p] = place]

\* The command returns or raises: lock released, memory gone.
End(p) ==
    /\ holder' = NoProc
    /\ pc' = [pc EXCEPT ![p] = "idle"]
    /\ cmd' = [cmd EXCEPT ![p] = "none"]
    /\ st' = [st EXCEPT ![p] = NoCursor]
    /\ old' = [old EXCEPT ![p] = NoCursor]
    /\ who' = [who EXCEPT ![p] = NoAccount]
    /\ got' = [got EXCEPT ![p] = Nothing]
    /\ todo' = [todo EXCEPT ![p] = 0]
    /\ adv' = [adv EXCEPT ![p] = FALSE]
    /\ batch' = [batch EXCEPT ![p] = FALSE]

Refuse(p) ==
    /\ End(p)
    /\ UNCHANGED <<cursor, account, server, events, taken, doubt>>

\* Nothing was sent: the cursor from before the intent is written back.
Restore(p) ==
    /\ cursor' = old[p]
    /\ End(p)
    /\ UNCHANGED <<account, server, events, taken, doubt>>

Settled(c) == [c EXCEPT !.status = "active", !.op = "none"]
Done(c)    == [c EXCEPT !.status = "submitted", !.op = "none"]

-----------------------------------------------------------------------------
(* Every command takes the lock without waiting, loads the cursor and asks *)
(* whoami whose session it runs in.                                        *)

\* Faulty variant: the lock file is not locked.
RunUnlocked(p, c) ==
    /\ pc[p] = "idle"
    /\ c \in Opening => cursor.status \in {"active", "uncertain"} /\ ~TimeUp(cursor)
    /\ c = "verify" => cursor.status # "absent"
    /\ holder' = p
    /\ cmd' = [cmd EXCEPT ![p] = c]
    /\ st' = [st EXCEPT ![p] = cursor]
    /\ Goto(p, "actor")
    /\ UNCHANGED <<cursor, old, who, got, todo, adv, batch, account, server,
                   events, taken, doubt>>

\* _locked, _load and _open before its first request.
Run(p, c) ==
    /\ pc[p] = "idle"
    /\ holder = NoProc
    /\ c \in Opening => cursor.status \in {"active", "uncertain"} /\ ~TimeUp(cursor)
    /\ c = "verify" => cursor.status # "absent"
    /\ holder' = p
    /\ cmd' = [cmd EXCEPT ![p] = c]
    /\ st' = [st EXCEPT ![p] = cursor]
    /\ Goto(p, "actor")
    /\ UNCHANGED <<cursor, old, who, got, todo, adv, batch, account, server,
                   events, taken, doubt>>

\* start, when _load finds the checkpoint unreadable or invalid: it counts as
\* absent, and stays on disk until the intent replaces it.
RunUnread(p) ==
    /\ pc[p] = "idle"
    /\ holder = NoProc
    /\ cursor.status # "absent"
    /\ events < MaxEvents
    /\ events' = events + 1
    /\ holder' = p
    /\ cmd' = [cmd EXCEPT ![p] = "start"]
    /\ st' = [st EXCEPT ![p] = NoCursor]
    /\ Goto(p, "actor")
    /\ UNCHANGED <<cursor, old, who, got, todo, adv, batch, account, server,
                   taken, doubt>>

\* What the command may go on with, once it knows the account.
MayOpen(p) ==
    /\ st[p].actor = account
    /\ \/ st[p].status = "active"
       \/ st[p].op = "answer" /\ cmd[p] = "page"
    /\ ~(cmd[p] = "previous" /\ ForwardOnly)
MayStart(p) ==
    /\ st[p].status = "uncertain" => st[p].actor = account
    /\ ~(Kept(st[p], account) /\ TimeUp(st[p]))
MayVerify(p) == st[p].actor = account /\ st[p].attempt # 0

MayGoOn(p) == CASE cmd[p] = "start"  -> MayStart(p)
                [] cmd[p] = "verify" -> MayVerify(p)
                [] OTHER             -> MayOpen(p)

CheckActor(p) ==
    /\ pc[p] = "actor"
    /\ MayGoOn(p)
    /\ who' = [who EXCEPT ![p] = account]
    /\ Goto(p, CASE cmd[p] = "start"  -> "summary"
                 [] cmd[p] = "verify" -> "listing"
                 [] OTHER             -> "read")
    /\ UNCHANGED <<holder, cursor, cmd, st, old, got, todo, adv, batch, account,
                   server, events, taken, doubt>>

RefuseActor(p) == pc[p] = "actor" /\ ~MayGoOn(p) /\ Refuse(p)

-----------------------------------------------------------------------------
(* start.                                                                  *)

\* Faulty variant: a lost start may start anew.
MaySummaryIgnoringLostStart(p) ==
    /\ Processing(who[p]) = {}
    /\ Kept(st[p], who[p]) => InProgress(who[p]) # {}

\* The summary offers what the cursor allows: only its own attempt again while
\* that one, or a start whose reply was lost, is unsettled.
MaySummary(p) ==
    /\ Processing(who[p]) = {}
    /\ ContinueOnly(st[p], who[p]) => InProgress(who[p]) # {}

ReadSummary(p) ==
    /\ pc[p] = "summary"
    /\ MaySummary(p)
    /\ adv' = [adv EXCEPT ![p] = InProgress(who[p]) # {}]
    /\ Goto(p, "startintent")
    /\ UNCHANGED <<holder, cursor, cmd, st, old, who, got, todo, batch, account,
                   server, events, taken, doubt>>

RefuseSummary(p) == pc[p] = "summary" /\ ~MaySummary(p) /\ Refuse(p)

\* The start's action is Continue Quiz, else Start Quiz.
Resumes(p) == adv[p]

\* A start is about to replace a checkpoint it has not read.
ReplacesUnread(p) == pc[p] = "startintent" /\ st[p] # cursor

\* The durable intent keeps the CLI's own attempt, its page and its limit; what an
\* unread checkpoint said of its account's attempts is lost.
StartIntent(p) ==
    /\ pc[p] = "startintent"
    /\ LET kept == Kept(st[p], who[p])
           next == [status |-> "uncertain", op |-> "start", actor |-> who[p],
                    attempt |-> IF kept THEN st[p].attempt ELSE 0,
                    page    |-> IF kept THEN st[p].page ELSE 0,
                    timer   |-> kept /\ st[p].timer]
       IN  /\ cursor' = next
           /\ st' = [st EXCEPT ![p] = next]
           /\ old' = [old EXCEPT ![p] = st[p]]
    /\ taken' = IF ReplacesUnread(p) THEN {x \in taken : owner[x] # cursor.actor}
                ELSE taken
    /\ Goto(p, "begin")
    /\ UNCHANGED <<holder, cmd, who, got, todo, adv, batch, account, server,
                   events, doubt>>

\* A password, a browser step, no attempts left, not yet open: the checkpoint of
\* before is written back, or removed when none was read.
StartRefused(p) == pc[p] = "begin" /\ Restore(p)

Name(p, x) == got' = [got EXCEPT ![p] = [attempt |-> x, page |-> spot'[x]]]

\* The process page creates an attempt; a Continue never does.
StartCreates(p) ==
    /\ pc[p] = "begin"
    /\ ~Resumes(p)
    /\ InProgress(who[p]) = {}
    /\ \E x \in Unused :
          /\ \A y \in Unused : x <= y
          /\ status' = [status EXCEPT ![x] = "open"]
          /\ owner' = [owner EXCEPT ![x] = who[p]]
          /\ spot' = [spot EXCEPT ![x] = 1]
          /\ shown' = [shown EXCEPT ![x] = {1}]
          /\ taken' = taken \union {x}
          /\ Name(p, x)
    /\ Goto(p, "named")
    /\ UNCHANGED <<holder, cursor, cmd, st, old, who, todo, adv, batch, account,
                   past, inflight, events, doubt>>

\* ... or reopens the attempt in progress on the page the server holds.
StartReopens(p) ==
    /\ pc[p] = "begin"
    /\ \E x \in InProgress(who[p]) :
          /\ UNCHANGED spot
          /\ shown' = [shown EXCEPT ![x] = @ \union {spot[x]}]
          /\ Name(p, x)
    /\ Goto(p, "named")
    /\ UNCHANGED <<holder, cursor, cmd, st, old, who, todo, adv, batch, account,
                   past, status, owner, inflight, events, taken, doubt>>

\* The attempt to continue ended, or the last one was used, since the summary.
StartFails(p) ==
    /\ pc[p] = "begin"
    /\ InProgress(who[p]) = {}
    /\ Resumes(p) \/ Unused = {}
    /\ Refuse(p)

\* The CLI answers for the attempt from here on.  A start that kept none also
\* settles with it the one whose start lost its reply.
Takes(p) ==
    taken' = {got[p].attempt} \union
             (IF Kept(old[p], who[p]) THEN taken
              ELSE {x \in taken : owner[x] # who[p]})

\* Faulty variant: whatever attempt the server names replaces the CLI's.
SealAny(p) ==
    /\ pc[p] = "named"
    /\ Resumes(p) \/ got[p].page = 1
    /\ LET next == [st[p] EXCEPT !.attempt = got[p].attempt, !.page = got[p].page]
       IN  /\ cursor' = next
           /\ st' = [st EXCEPT ![p] = next]
    /\ Takes(p)
    /\ Goto(p, "opening")
    /\ UNCHANGED <<holder, cmd, old, who, got, todo, adv, batch, account, server,
                   events, doubt>>

\* seal: the cursor names the attempt before its page is read, but never
\* another attempt over the CLI's.
Seal(p) ==
    /\ pc[p] = "named"
    /\ Resumes(p) \/ got[p].page = 1
    /\ IF st[p].attempt \in {0, got[p].attempt}
       THEN LET next == [st[p] EXCEPT !.attempt = got[p].attempt,
                                      !.page = got[p].page]
            IN  /\ cursor' = next
                /\ st' = [st EXCEPT ![p] = next]
                /\ Takes(p)
       ELSE UNCHANGED <<cursor, st, taken>>
    /\ Goto(p, "opening")
    /\ UNCHANGED <<holder, cmd, old, who, got, todo, adv, batch, account, server,
                   events, doubt>>

\* A new attempt must open on its first page.
SealRefused(p) ==
    /\ pc[p] = "named"
    /\ ~Resumes(p) /\ got[p].page # 1
    /\ Refuse(p)

\* Frame, timer and page read back: the attempt is open and known.
OpenAttempt(p) ==
    /\ pc[p] = "opening"
    /\ st[p].attempt = got[p].attempt
    /\ IsOpen(got[p].attempt)
    /\ cursor' = [Settled(st[p]) EXCEPT !.timer = Timed]
    /\ doubt' = doubt \ {got[p].attempt}
    /\ End(p)
    /\ UNCHANGED <<account, server, events, taken>>

\* Another attempt is in progress, or this one is over.
OpenRefused(p) ==
    /\ pc[p] = "opening"
    /\ st[p].attempt # got[p].attempt \/ ~IsOpen(got[p].attempt)
    /\ Refuse(p)

-----------------------------------------------------------------------------
(* The cursor's page is read before anything is written from it.           *)

\* page settles an answer save whose outcome was unknown.
SettlePage(p) ==
    /\ pc[p] = "read" /\ cmd[p] \in {"page", "images"}
    /\ IsOpen(st[p].attempt)
    /\ IF cmd[p] = "page" /\ st[p].status = "uncertain"
       THEN cursor' = Settled(st[p]) /\ doubt' = doubt \ {st[p].attempt}
       ELSE UNCHANGED <<cursor, doubt>>
    /\ End(p)
    /\ UNCHANGED <<account, server, events, taken>>

ReadPage(p) ==
    /\ pc[p] = "read" /\ cmd[p] \in {"answer", "next", "previous", "submit"}
    /\ IsOpen(st[p].attempt)
    /\ IF cmd[p] = "answer"
       THEN \E n \in 0 .. Batch : todo' = [todo EXCEPT ![p] = n]
       ELSE UNCHANGED todo
    /\ Goto(p, "intent")
    /\ UNCHANGED <<holder, cursor, cmd, st, old, who, got, adv, batch, account,
                   server, events, taken, doubt>>

ReadFails(p) == pc[p] = "read" /\ ~IsOpen(st[p].attempt) /\ Refuse(p)

-----------------------------------------------------------------------------
(* _intent: the cursor says "uncertain" before the first request is sent.  *)

Intent(p) ==
    /\ pc[p] = "intent"
    /\ ~TimeUp(st[p])
    /\ LET next == [st[p] EXCEPT !.status = "uncertain", !.op = cmd[p]]
       IN  /\ cursor' = next
           /\ st' = [st EXCEPT ![p] = next]
           /\ old' = [old EXCEPT ![p] = st[p]]
    /\ batch' = [batch EXCEPT ![p] = FALSE]
    /\ Goto(p, CASE cmd[p] = "answer" -> "answers"
                 [] cmd[p] = "submit" -> "finish"
                 [] OTHER             -> "post")
    /\ UNCHANGED <<holder, cmd, who, got, todo, adv, account, server, events,
                   taken, doubt>>

IntentTimeUp(p) == pc[p] = "intent" /\ TimeUp(st[p]) /\ Refuse(p)

\* Faulty variant: each form is built just before it is sent.
WriteRefusedMidway(p) ==
    /\ pc[p] \in {"post", "finish"} \/ (pc[p] = "answers" /\ todo[p] > 0)
    /\ Restore(p)

\* No such control on the page, unanswered questions, an unsupported page.
WriteRefused(p) ==
    /\ pc[p] \in {"post", "finish"} \/ (pc[p] = "answers" /\ ~batch[p] /\ todo[p] > 0)
    /\ Restore(p)

Sends(p) == doubt' = doubt \union {st[p].attempt}
Learns(p) == doubt' = doubt \ {st[p].attempt}

-----------------------------------------------------------------------------
(* answer: one request per changed answer, each read back.                 *)

PostAnswer(p) ==
    /\ pc[p] = "answers" /\ todo[p] > 0
    /\ ~TimeUp(st[p])
    /\ Sends(p)
    /\ batch' = [batch EXCEPT ![p] = TRUE]
    /\ Goto(p, "stored")
    /\ UNCHANGED <<holder, cursor, cmd, st, old, who, got, todo, adv, account,
                   server, events, taken>>

\* before_post refuses the rest of the batch; the cursor is restored.
AnswersTimeUp(p) ==
    /\ pc[p] = "answers" /\ todo[p] > 0
    /\ TimeUp(st[p])
    /\ Restore(p)

AnswerStored(p) ==
    /\ pc[p] = "stored"
    /\ IsOpen(st[p].attempt)
    /\ Learns(p)
    /\ todo' = [todo EXCEPT ![p] = @ - 1]
    /\ Goto(p, "answers")
    /\ UNCHANGED <<holder, cursor, cmd, st, old, who, got, adv, batch, account,
                   server, events, taken>>

AnswerUnknown(p) == pc[p] = "stored" /\ ~IsOpen(st[p].attempt) /\ Refuse(p)

\* The answers are committed; --next, refused on the last page before anything
\* is sent, goes on with its own intent.
CommitAnswers(p) ==
    /\ pc[p] = "answers" /\ todo[p] = 0
    /\ cursor' = Settled(st[p])
    /\ \/ /\ st[p].page < Pages
          /\ st' = [st EXCEPT ![p] = Settled(@)]
          /\ cmd' = [cmd EXCEPT ![p] = "next"]
          /\ Goto(p, "intent")
          /\ UNCHANGED <<holder, old, who, got, todo, adv, batch>>
       \/ End(p)
    /\ UNCHANGED <<account, server, events, taken, doubt>>

-----------------------------------------------------------------------------
(* next and previous.                                                      *)

Target(p) == IF cmd[p] = "next" THEN st[p].page + 1 ELSE st[p].page - 1

\* Faulty variant: the last page's Next is not noticed.
PostTurnAnyPage(p) ==
    /\ pc[p] = "post"
    /\ IsOpen(st[p].attempt)
    /\ spot' = [spot EXCEPT ![st[p].attempt] = IF Target(p) \in PageNums THEN Target(p) ELSE @]
    /\ shown' = [shown EXCEPT ![st[p].attempt] = @ \union ({Target(p)} \intersect PageNums)]
    /\ Sends(p)
    /\ Goto(p, "moved")
    /\ UNCHANGED <<holder, cursor, cmd, st, old, who, got, todo, adv, batch,
                   account, past, status, owner, inflight, events, taken>>

\* The form is sent once, from a page that has the control; the server moves.
PostTurn(p) ==
    /\ pc[p] = "post"
    /\ Target(p) \in PageNums
    /\ IsOpen(st[p].attempt)
    /\ spot' = [spot EXCEPT ![st[p].attempt] = Target(p)]
    /\ shown' = [shown EXCEPT ![st[p].attempt] = @ \union {Target(p)}]
    /\ Sends(p)
    /\ Goto(p, "moved")
    /\ UNCHANGED <<holder, cursor, cmd, st, old, who, got, todo, adv, batch,
                   account, past, status, owner, inflight, events, taken>>

\* The request, or the attempt, did not survive.
PostTurnLost(p) ==
    /\ pc[p] = "post"
    /\ Target(p) \in PageNums
    /\ Sends(p)
    /\ End(p)
    /\ UNCHANGED <<cursor, account, server, events, taken>>

CommitTurn(p) ==
    /\ pc[p] = "moved"
    /\ IsOpen(st[p].attempt)
    /\ cursor' = [Settled(st[p]) EXCEPT !.page = Target(p)]
    /\ Learns(p)
    /\ End(p)
    /\ UNCHANGED <<account, server, events, taken>>

TurnUnknown(p) == pc[p] = "moved" /\ ~IsOpen(st[p].attempt) /\ Refuse(p)

-----------------------------------------------------------------------------
(* submit: finish save, confirmation page, submission call, receipt.       *)

SendFinish(p) ==
    /\ pc[p] = "finish"
    /\ st[p].page = Pages
    /\ Sends(p)
    /\ Goto(p, "confirm")
    /\ UNCHANGED <<holder, cursor, cmd, st, old, who, got, todo, adv, batch,
                   account, server, events, taken>>

\* The save's reply opens the confirmation page.
Confirm(p) ==
    /\ pc[p] = "confirm"
    /\ IsOpen(st[p].attempt)
    /\ Learns(p)
    /\ Goto(p, "rpc")
    /\ UNCHANGED <<holder, cursor, cmd, st, old, who, got, todo, adv, batch,
                   account, server, events, taken>>

ConfirmUnknown(p) == pc[p] = "confirm" /\ ~IsOpen(st[p].attempt) /\ Refuse(p)

\* The confirmation lists unanswered questions: only the page was re-saved.
SubmitUnanswered(p) == pc[p] = "rpc" /\ Restore(p)

\* The call is processed at once, later, or never.
SendSubmission(p) ==
    /\ pc[p] = "rpc"
    /\ Sends(p)
    /\ \/ /\ IsOpen(st[p].attempt)
          /\ status' = [status EXCEPT ![st[p].attempt] = "submitted"]
          /\ UNCHANGED inflight
       \/ /\ inflight' = inflight \union {st[p].attempt}
          /\ UNCHANGED status
       \/ UNCHANGED <<status, inflight>>
    /\ Goto(p, "receipt")
    /\ UNCHANGED <<holder, cursor, cmd, st, old, who, got, todo, adv, batch,
                   account, past, owner, spot, shown, events, taken>>

\* Faulty variant: the call's reply is taken for the receipt.
CommitUnread(p) ==
    /\ pc[p] = "receipt"
    /\ cursor' = Done(st[p])
    /\ taken' = taken \ {st[p].attempt}
    /\ Learns(p)
    /\ End(p)
    /\ UNCHANGED <<account, server, events>>

\* Submissions row and receipt agree.
CommitSubmit(p) ==
    /\ pc[p] = "receipt"
    /\ status[st[p].attempt] = "submitted"
    /\ cursor' = Done(st[p])
    /\ taken' = taken \ {st[p].attempt}
    /\ Learns(p)
    /\ End(p)
    /\ UNCHANGED <<account, server, events>>

SubmitUnknown(p) ==
    /\ pc[p] = "receipt"
    /\ status[st[p].attempt] # "submitted"
    /\ Refuse(p)

-----------------------------------------------------------------------------
(* verify and forget.                                                      *)

VerifySubmitted(p) ==
    /\ pc[p] = "listing"
    /\ status[st[p].attempt] = "submitted"
    /\ cursor' = Done(st[p])
    /\ taken' = taken \ {st[p].attempt}
    /\ Learns(p)
    /\ End(p)
    /\ UNCHANGED <<account, server, events>>

\* Still in progress, or being submitted by the server: nothing changes.
VerifyNotSubmitted(p) ==
    /\ pc[p] = "listing"
    /\ status[st[p].attempt] # "submitted"
    /\ Refuse(p)

Forget(p) ==
    /\ pc[p] = "idle"
    /\ holder = NoProc
    /\ cursor # NoCursor
    /\ cursor' = NoCursor
    /\ taken' = {}
    /\ UNCHANGED <<holder, local, account, server, events, doubt>>

-----------------------------------------------------------------------------
(* Failures, the server, the clock and the person.                         *)

\* The process is killed, or a request or a file fails: whatever was sent, the
\* cursor stays as last written.
Stop(p) ==
    /\ pc[p] # "idle"
    /\ events < MaxEvents
    /\ events' = events + 1
    /\ End(p)
    /\ UNCHANGED <<cursor, account, server, taken, doubt>>

DeadlinePasses ==
    /\ Timed
    /\ \E x \in Attempts \ past :
          /\ status[x] # "none"
          /\ past' = past \union {x}
          /\ status' = [status EXCEPT ![x] = IF @ = "open" THEN "late" ELSE @]
    /\ UNCHANGED <<holder, cursor, local, account, owner, spot, inflight,
                   shown, events, taken, doubt>>

\* Brightspace submits an attempt whose time ran out, in two stages.
ServerSubmits ==
    /\ \E x \in Attempts :
          \/ status[x] = "late" /\ status' = [status EXCEPT ![x] = "processing"]
          \/ status[x] = "processing" /\ status' = [status EXCEPT ![x] = "submitted"]
    /\ UNCHANGED <<holder, cursor, local, account, past, owner, spot,
                   inflight, shown, events, taken, doubt>>

\* A submission call that was only slow arrives.
DeliverSubmission ==
    /\ \E x \in inflight :
          /\ inflight' = inflight \ {x}
          /\ status' = [status EXCEPT ![x] = IF IsOpen(x) THEN "submitted" ELSE @]
    /\ UNCHANGED <<holder, cursor, local, account, past, owner, spot,
                   shown, events, taken, doubt>>

SwitchAccount ==
    /\ events < MaxEvents
    /\ events' = events + 1
    /\ \E a \in Accounts \ {account} : account' = a
    /\ UNCHANGED <<holder, cursor, local, server, taken, doubt>>

\* The learner takes an attempt in a browser.
BrowserStarts ==
    /\ \E a \in Accounts, x \in Unused :
          /\ InProgress(a) = {} /\ Processing(a) = {}
          /\ \A y \in Unused : x <= y
          /\ status' = [status EXCEPT ![x] = "open"]
          /\ owner' = [owner EXCEPT ![x] = a]
    /\ UNCHANGED <<holder, cursor, local, account, past, spot, inflight,
                   shown, events, taken, doubt>>

BrowserMoves ==
    /\ \E x \in Attempts, n \in PageNums :
          /\ IsOpen(x)
          /\ n = spot[x] + 1 \/ (~ForwardOnly /\ n = spot[x] - 1)
          /\ spot' = [spot EXCEPT ![x] = n]
    /\ UNCHANGED <<holder, cursor, local, account, past, status, owner,
                   inflight, shown, events, taken, doubt>>

BrowserSubmits ==
    /\ \E x \in Attempts :
          /\ IsOpen(x)
          /\ status' = [status EXCEPT ![x] = "submitted"]
    /\ UNCHANGED <<holder, cursor, local, account, past, owner, spot,
                   inflight, shown, events, taken, doubt>>

-----------------------------------------------------------------------------
\* A command goes on, whatever the server answers.
Advance(p) ==
    \/ CheckActor(p) \/ RefuseActor(p)
    \/ ReadSummary(p) \/ RefuseSummary(p) \/ StartIntent(p)
    \/ StartRefused(p) \/ StartCreates(p) \/ StartReopens(p) \/ StartFails(p)
    \/ Seal(p) \/ SealRefused(p) \/ OpenAttempt(p) \/ OpenRefused(p)
    \/ SettlePage(p) \/ ReadPage(p) \/ ReadFails(p)
    \/ Intent(p) \/ IntentTimeUp(p) \/ WriteRefused(p)
    \/ PostAnswer(p) \/ AnswersTimeUp(p) \/ AnswerStored(p) \/ AnswerUnknown(p)
    \/ CommitAnswers(p)
    \/ PostTurn(p) \/ PostTurnLost(p) \/ CommitTurn(p) \/ TurnUnknown(p)
    \/ SendFinish(p) \/ Confirm(p) \/ ConfirmUnknown(p) \/ SubmitUnanswered(p)
    \/ SendSubmission(p) \/ CommitSubmit(p) \/ SubmitUnknown(p)
    \/ VerifySubmitted(p) \/ VerifyNotSubmitted(p)

Person(p) == (\E c \in Commands \ {"none"} : Run(p, c)) \/ RunUnread(p) \/ Forget(p)

Environment ==
    \/ DeadlinePasses \/ ServerSubmits \/ DeliverSubmission \/ SwitchAccount
    \/ BrowserStarts \/ BrowserMoves \/ BrowserSubmits

Next ==
    \/ \E p \in Procs : Advance(p) \/ Stop(p) \/ Person(p)
    \/ Environment

Spec == Init /\ [][Next]_vars

-----------------------------------------------------------------------------
(* Properties.                                                             *)

\* The comment of start: until the CLI's attempt is verified submitted only that
\* attempt may be continued.  No account ever has two attempts the CLI created
\* or continued and has neither verified nor been told to forget, as long as its
\* checkpoints could be read: a start that replaces one it cannot read answers no
\* more for the attempt in it, and may use another.
OneUnsettledAttempt ==
    \A x, y \in taken : owner[x] = owner[y] => x = y

\* While the outcome of a write to an attempt is unknown, by a lost reply, a
\* late request or a killed process, no command sends another write to it.
NoWriteInDoubt ==
    \A p \in Procs : pc[p] \in {"answers", "post", "finish", "rpc"} =>
        st[p].attempt \notin doubt

\* Requesting a page past the last one broke attempts: the CLI only asks for
\* pages the server showed of that attempt.
OnlyShownPages ==
    \A p \in Procs :
        /\ pc[p] = "read" => st[p].page \in shown[st[p].attempt]
        /\ pc[p] = "moved" => Target(p) \in shown[st[p].attempt]

\* A checkpoint says "submitted" only of an attempt Brightspace has submitted.
SubmittedIsVerified ==
    cursor.status = "submitted" => status[cursor.attempt] = "submitted"

\* The checkpoint never leaves an attempt for another one before it is known
\* to be submitted, except for another account, and another account never
\* replaces an unsettled one; a person may always forget it.  Only a start that
\* could not read it does not keep to this.
KeepsItsAttempt ==
    [][(\A p \in Procs : ~ReplacesUnread(p)) =>
       /\ cursor.attempt # 0 /\ cursor'.attempt # cursor.attempt =>
             \/ cursor.status = "submitted"
             \/ cursor'.actor # cursor.actor
       /\ cursor.status = "uncertain" /\ cursor'.actor # cursor.actor =>
             cursor' = NoCursor \/ cursor'.status # "uncertain"]_vars

\* The deadline alone ends a batch of answers midway with the cursor restored:
\* every form is built before the first is sent, and what was sent is settled.
OnlyTimeCutsABatch ==
    [][\A p \in Procs :
          /\ pc[p] = "answers" /\ batch[p] /\ todo[p] > 0
          /\ cursor.status = "uncertain" /\ cursor'.status = "active"
          => TimeUp(st[p]) /\ st[p].attempt \notin doubt]_vars

\* docs/agent-quizzes.md, "Recover without replaying a write": the checkpoint is
\* WriteLedger's entry.  No write follows one in doubt, and an entry in doubt is
\* settled by reading back, withdrawn before anything was sent, or forgotten.
EntryOf == CASE cursor.status = "uncertain" -> "pending"
             [] cursor.status = "active"    -> "clear"
             [] OTHER                       -> "blank"
AboutOf == IF EntryOf = "blank" THEN 0 ELSE cursor.attempt
ReadyOf == \E p \in Procs : pc[p] \in {"answers", "post", "finish", "rpc"}

Ledger == INSTANCE WriteLedger WITH Things <- Attempts, None <- 0,
              entry <- EntryOf, about <- AboutOf, ready <- ReadyOf
ImplementsLedger == Ledger!LedgerSpec
=============================================================================
