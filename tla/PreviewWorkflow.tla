-------------------------- MODULE PreviewWorkflow --------------------------
(***************************************************************************)
(* An instructor's previews of one quiz, taken through the checkpoint file *)
(* of quiz_preview_session.py: PreviewWorkflow's commands with the         *)
(* requests they send (quiz_preview_transport.py, quiz_preview_finish.py), *)
(* the server, and the instructor's browser.                               *)
(*                                                                         *)
(* Every command holds the flock on the checkpoint's lock file from its    *)
(* first read to its last write, and a second one is refused, so one `pc`  *)
(* is enough for all lighthouse processes.  A command that is refused      *)
(* leaves everything as it is and is not a step.  A page has one question; *)
(* attempts are numbered as Brightspace creates them (0: none).  A killed  *)
(* command leaves the checkpoint as its last write left it.                *)
(***************************************************************************)
EXTENDS Integers, FiniteSets

CONSTANTS
    Actors,       \* accounts a person signs in as
    Choices,      \* the choices of a question
    NoChoice,     \* no choice
    Pages,        \* pages of the quiz; one: all questions at once
    MaxAttempts,  \* bound: previews of this quiz
    MaxLost       \* bound: lost replies and killed commands

ASSUME ChoiceAssumption == NoChoice \notin Choices
ASSUME SizeAssumption == Pages \in Nat \ {0} /\ MaxAttempts \in Nat /\ MaxLost \in Nat

VARIABLES
    file,    \* preview-<course>-<quiz>.json
    pc,      \* where the command that holds the lock is
    old,     \* the checkpoint it restores when nothing was sent (previous)
    fresh,   \* the attempt its start named
    made,    \* server: attempts created so far
    owner,   \* server: whose attempt it is
    state,   \* server: what became of each attempt
    spot,    \* server: the page it holds
    chosen,  \* server: the choice saved on each page
    late,    \* writes sent and not yet processed
    lost,    \* lost replies and killed commands so far
    unseen,  \* history: attempts a start of the CLI created that no checkpoint
             \* ever named, and no operator has accounted for
    doubt,   \* history: attempts with a write whose outcome the CLI ignores
    touched  \* history: attempts a browser or a delayed write has changed

server == <<made, owner, state, spot, chosen>>
local  == <<pc, old, fresh>>
vars   == <<file, local, server, late, lost, unseen, doubt, touched>>

Attempts == 1 .. MaxAttempts
PageNums == 1 .. Pages
Writes   == [attempt : Attempts, op : {"answer", "next", "submit"}, page : PageNums,
             choice : Choices \union {NoChoice}]
\* marker is "unresolved_start"; based says whether a baseline was recorded.
Files    == [status : {"absent", "active", "uncertain", "submitted", "abandoned"},
             op : {"none", "start", "answer", "next", "submit"},
             actor : Actors, attempt : Attempts \union {0}, page : PageNums \union {0},
             choice : Choices \union {NoChoice}, marker : {"none", "yes", "no"},
             baseline : SUBSET Attempts, based : BOOLEAN]

\* A checkpoint also names its attempt and page once it is active, as _load
\* requires of the file.
TypeOK ==
    /\ file \in Files
    /\ (file.attempt # 0 \/ file.status \in {"active", "submitted"}) =>
          (file.attempt # 0 /\ file.page # 0)
    /\ pc \in {"idle", "send", "post", "named", "read"}
    /\ old \in Files
    /\ fresh \in Attempts \union {0}
    /\ made \in 0 .. MaxAttempts
    /\ owner \in [Attempts -> Actors]
    /\ state \in [Attempts -> {"none", "open", "done"}]
    /\ spot \in [Attempts -> PageNums]
    /\ chosen \in [Attempts -> [PageNums -> Choices \union {NoChoice}]]
    /\ late \subseteq Writes
    /\ lost \in 0 .. MaxLost
    /\ unseen \subseteq Attempts
    /\ doubt \subseteq Attempts
    /\ touched \subseteq Attempts

\* No checkpoint, or one an earlier version left after an abandoned start: it
\* has no marker and no baseline, and may hide an attempt.
Blank(u) == [status |-> "absent", op |-> "none", actor |-> u, attempt |-> 0, page |-> 0,
             choice |-> NoChoice, marker |-> "none", baseline |-> {}, based |-> FALSE]

Init ==
    /\ \E u \in Actors, legacy \in BOOLEAN, hidden \in 0 .. 1 :
          /\ hidden <= MaxAttempts
          /\ legacy \/ hidden = 0
          /\ file = [Blank(u) EXCEPT !.status = IF legacy THEN "abandoned" ELSE "absent"]
          /\ old = Blank(u)
          /\ owner = [a \in Attempts |-> u]
          /\ made = hidden
          /\ unseen = 1 .. hidden
    /\ state = [a \in Attempts |-> IF a <= made THEN "open" ELSE "none"]
    /\ spot = [a \in Attempts |-> 1]
    /\ chosen = [a \in Attempts |-> [g \in PageNums |-> NoChoice]]
    /\ pc = "idle" /\ fresh = 0 /\ late = {} /\ lost = 0 /\ doubt = {} /\ touched = {}

-----------------------------------------------------------------------------
(* Helpers.                                                                *)

\* _attempt_listing: the attempts of the quiz, whoever made them.
Listing == 1 .. made

Own(u) == {a \in Listing : owner[a] = u}

\* A page reads back only where the attempt is.
Readable(a, page) == state[a] = "open" /\ spot[a] = page

\* read_server_current_preview: the page the server shows, whichever was asked for.
ServerPage(a) == spot[a]

Answered(a, page) == chosen[a][page] # NoChoice

\* Faulty variant: abandoning a start settles it.
UnresolvedUnlessAbandoned(f) == f.status = "uncertain" /\ f.op = "start"

\* _unresolved_start: a start that may have created a preview nobody has named.
Unresolved(f) ==
    \/ f.status = "uncertain" /\ f.op = "start"
    \/ f.marker = "yes"
    \/ f.marker = "none" /\ f.status = "abandoned" /\ f.attempt = 0 /\ ~f.based

Active(f, page) == [f EXCEPT !.status = "active", !.op = "none", !.page = page]
Submitted(f) == [f EXCEPT !.status = "submitted", !.op = "none"]

\* The command ends and lets go of the lock.
EndWith(f) ==
    /\ file' = f
    /\ old' = Blank(f.actor)
    /\ pc' = "idle" /\ fresh' = 0

\* The server creates the next attempt.
Creates(u) ==
    /\ made < MaxAttempts
    /\ made' = made + 1
    /\ owner' = [owner EXCEPT ![made'] = u]
    /\ state' = [state EXCEPT ![made'] = "open"]
    /\ UNCHANGED <<spot, chosen>>

\* The server processes a write: a save or a turn of the page it holds, a
\* submission of an open attempt; anything else changes nothing.
Process(w) ==
    LET a == w.attempt
        here == Readable(a, w.page)
    IN  /\ chosen' = IF w.op = "answer" /\ here THEN [chosen EXCEPT ![a][w.page] = w.choice] ELSE chosen
        /\ spot' = IF w.op = "next" /\ here /\ w.page < Pages THEN [spot EXCEPT ![a] = w.page + 1] ELSE spot
        /\ state' = IF w.op = "submit" /\ state[a] = "open" THEN [state EXCEPT ![a] = "done"] ELSE state
        /\ UNCHANGED <<made, owner>>

-----------------------------------------------------------------------------
(* Starting a preview.                                                     *)

\* The intent is on disk before anything is sent, with the attempts the
\* account has on this quiz already.
Start(u) ==
    /\ pc = "idle"
    /\ ~Unresolved(file)
    /\ file.status \in {"absent", "submitted", "abandoned"}
    /\ file' = [Blank(u) EXCEPT !.status = "uncertain", !.op = "start",
                                !.baseline = Own(u), !.based = TRUE]
    /\ old' = file
    /\ pc' = "send"
    /\ UNCHANGED <<fresh, server, late, lost, unseen, doubt, touched>>

\* The summary offers a start and the form protection holds.
PrepareStart ==
    /\ pc = "send" /\ file.op = "start"
    /\ pc' = "post"
    /\ UNCHANGED <<file, old, fresh, server, late, lost, unseen, doubt, touched>>

\* The last request of the chain creates an attempt and names it.
StartCreates ==
    /\ pc = "post" /\ file.op = "start"
    /\ Creates(file.actor)
    /\ pc' = "named" /\ fresh' = made'
    /\ unseen' = unseen \union {made'}
    /\ UNCHANGED <<file, old, late, lost, doubt, touched>>

\* Any failure from the first request on leaves the start unknown.
StartUnknown ==
    /\ pc = "post" /\ file.op = "start"
    /\ \/ /\ lost < MaxLost /\ lost' = lost + 1
          /\ Creates(file.actor) /\ unseen' = unseen \union {made'}
       \/ UNCHANGED <<server, lost, unseen>>
    /\ EndWith(file)
    /\ UNCHANGED <<late, doubt, touched>>

\* seal_identity: the attempt is on disk before its page is read.
Seal ==
    /\ pc = "named"
    /\ file' = [file EXCEPT !.attempt = fresh, !.page = 1]
    /\ unseen' = unseen \ {fresh}
    /\ pc' = "read"
    /\ UNCHANGED <<old, fresh, server, late, lost, doubt, touched>>

-----------------------------------------------------------------------------
(* Answering, moving on and submitting.                                    *)

\* Faulty variant: a checkpoint in doubt may be written from.
MayWriteAgain == file.status \in {"active", "uncertain"} /\ file.attempt # 0 /\ state[file.attempt] = "open"

MayWrite == file.status = "active" /\ state[file.attempt] = "open"

Intend(o, c) ==
    /\ pc = "idle"
    /\ MayWrite
    /\ file' = [file EXCEPT !.status = "uncertain", !.op = o, !.choice = c]
    /\ old' = file
    /\ pc' = "send"
    /\ UNCHANGED <<fresh, server, late, lost, unseen, doubt, touched>>

\* The form comes from the page as the server shows it now.
Allowed ==
    /\ Readable(file.attempt, file.page)
    /\ file.op = "next" => file.page < Pages /\ Answered(file.attempt, file.page)
    /\ file.op = "submit" => file.page = Pages /\ Answered(file.attempt, file.page)

Prepare ==
    /\ pc = "send" /\ file.op # "start"
    /\ Allowed
    /\ pc' = "post"
    /\ UNCHANGED <<file, old, fresh, server, late, lost, unseen, doubt, touched>>

\* Nothing was sent: the checkpoint is as it was before the command.
RefuseWrite ==
    /\ pc = "send"
    /\ EndWith(IF old.status # "absent" THEN old
               ELSE [file EXCEPT !.status = "abandoned", !.op = "none"])
    /\ UNCHANGED <<server, late, lost, unseen, doubt, touched>>

Sent == [attempt |-> file.attempt, op |-> file.op, page |-> file.page, choice |-> file.choice]

\* The server says 200, whether it took the write or not.
Post ==
    /\ pc = "post" /\ file.op # "start"
    /\ Process(Sent) \/ UNCHANGED server
    /\ pc' = "read"
    /\ doubt' = doubt \union {file.attempt}
    /\ UNCHANGED <<file, old, fresh, late, lost, unseen, touched>>

\* The reply is lost: the write was processed, is still under way, or is lost
\* as well.  The checkpoint stays in doubt.
PostLost ==
    /\ pc = "post" /\ file.op # "start"
    /\ lost < MaxLost /\ lost' = lost + 1
    /\ \/ Process(Sent) /\ UNCHANGED late
       \/ late' = late \union {Sent} /\ UNCHANGED server
       \/ UNCHANGED <<server, late>>
    /\ doubt' = doubt \union {file.attempt}
    /\ EndWith(file)
    /\ UNCHANGED <<unseen, touched>>

Settled == doubt' = doubt \ {file.attempt}

\* Faulty variant: a reply of 200 is enough.
CommitUnread ==
    /\ pc = "read" /\ file.op \in {"start", "answer", "next"}
    /\ EndWith(Active(file, IF file.op = "next" THEN file.page + 1 ELSE file.page))
    /\ Settled
    /\ UNCHANGED <<server, late, lost, unseen, touched>>

\* The readback shows what was meant: the started page, the answer, the next page.
Commit ==
    /\ pc = "read" /\ file.op \in {"start", "answer", "next"}
    /\ LET page == IF file.op = "next" THEN file.page + 1 ELSE file.page
       IN  /\ Readable(file.attempt, page)
           /\ file.op = "answer" => chosen[file.attempt][page] = file.choice
           /\ EndWith(Active(file, page))
    /\ Settled
    /\ UNCHANGED <<server, late, lost, unseen, touched>>

\* Faulty variant: the reply to the submission is enough.
CommitSubmitUnread ==
    /\ pc = "read" /\ file.op = "submit"
    /\ EndWith(Submitted(file))
    /\ Settled
    /\ UNCHANGED <<server, late, lost, unseen, touched>>

\* The receipt and the attempt's record say it is complete.
CommitSubmit ==
    /\ pc = "read" /\ file.op = "submit"
    /\ state[file.attempt] = "done"
    /\ EndWith(Submitted(file))
    /\ Settled
    /\ UNCHANGED <<server, late, lost, unseen, touched>>

\* The readback fails or shows something else: in doubt.
ReadFails ==
    /\ pc = "read"
    /\ EndWith(file)
    /\ UNCHANGED <<server, late, lost, unseen, doubt, touched>>

Killed ==
    /\ pc # "idle"
    /\ lost < MaxLost /\ lost' = lost + 1
    /\ EndWith(file)
    /\ UNCHANGED <<server, late, unseen, doubt, touched>>

-----------------------------------------------------------------------------
(* Settling what is in doubt.                                              *)

\* Any command but a start that finds the attempt complete says so first.
FoundSubmitted ==
    /\ pc = "idle"
    /\ file.status \in {"active", "uncertain"} /\ file.attempt # 0
    /\ state[file.attempt] = "done"
    /\ EndWith(Submitted(file))
    /\ Settled
    /\ UNCHANGED <<server, late, lost, unseen, touched>>

\* Faulty variant: a readable page settles an answer.
RecoverReadable ==
    /\ pc = "idle"
    /\ file.status = "uncertain" /\ file.op \in {"start", "answer"} /\ file.attempt # 0
    /\ Readable(file.attempt, file.page)
    /\ EndWith(Active(file, file.page))
    /\ Settled
    /\ UNCHANGED <<server, late, lost, unseen, touched>>

\* _recover: `page` settles a start or an answer that reads back as meant; a
\* turn of the page stays in doubt.
Recover ==
    /\ pc = "idle"
    /\ file.status = "uncertain" /\ file.op \in {"start", "answer"} /\ file.attempt # 0
    /\ Readable(file.attempt, file.page)
    /\ file.op = "answer" => chosen[file.attempt][file.page] = file.choice
    /\ EndWith(Active(file, file.page))
    /\ Settled
    /\ UNCHANGED <<server, late, lost, unseen, touched>>

\* abandon forgets the cursor, never that a start is unresolved.
Abandon ==
    /\ pc = "idle" /\ file.status # "absent"
    /\ EndWith([file EXCEPT !.status = "abandoned", !.op = "none",
                            !.marker = IF Unresolved(file) THEN "yes" ELSE "no"])
    /\ UNCHANGED <<server, late, lost, unseen, doubt, touched>>

Reconciles == pc = "idle" /\ file.status # "absent" /\ Unresolved(file)
Resolved(f) == [f EXCEPT !.marker = "no"]

\* reconcile with a known attempt: complete, or resumed where it is.
ReconcileBound ==
    /\ Reconciles /\ file.attempt # 0
    /\ EndWith(Resolved(IF state[file.attempt] = "done" THEN Submitted(file)
                        ELSE Active(file, ServerPage(file.attempt))))
    /\ UNCHANGED <<server, late, lost, unseen, doubt, touched>>

\* Faulty variant: any open attempt of the account may be bound.
CandidatesOfAnyAge(f) == {a \in Own(f.actor) : state[a] = "open"}

\* _start_candidates: open attempts of the account that are not of before.
Candidates(f) == {a \in Own(f.actor) : state[a] = "open" /\ a \notin f.baseline}

\* reconcile --attempt-id: the operator's choice among them accounts for the start.
ReconcileBind(a) ==
    /\ Reconciles /\ file.attempt = 0
    /\ a \in Candidates(file)
    /\ EndWith(Resolved([Active(file, ServerPage(a)) EXCEPT !.attempt = a]))
    /\ unseen' = {}
    /\ UNCHANGED <<server, late, lost, doubt, touched>>

\* reconcile --confirm-no-remote-attempt: the operator has looked, and the
\* listing, which may lag behind, has no candidate either.
ReconcileNone ==
    /\ Reconciles /\ file.attempt = 0
    /\ \A a \in unseen : state[a] # "open"
    /\ EndWith(Resolved([file EXCEPT !.status = "abandoned", !.op = "none"]))
    /\ unseen' = {}
    /\ UNCHANGED <<server, late, lost, doubt, touched>>

-----------------------------------------------------------------------------
(* The network and the browser.                                            *)

Deliver ==
    /\ \E w \in late : Process(w) /\ late' = late \ {w}
    /\ touched' = touched \union {w.attempt : w \in late \ late'}
    /\ UNCHANGED <<file, local, lost, unseen, doubt>>

BrowserStarts(u) ==
    /\ Creates(u)
    /\ UNCHANGED <<file, local, late, lost, unseen, doubt, touched>>

BrowserWrites(w) ==
    /\ state[w.attempt] = "open" /\ spot[w.attempt] = w.page
    /\ (w.op = "answer") <=> (w.choice \in Choices)
    /\ w.op # "answer" => Answered(w.attempt, w.page)
    /\ Process(w)
    /\ touched' = touched \union {w.attempt}
    /\ UNCHANGED <<file, local, late, lost, unseen, doubt>>

-----------------------------------------------------------------------------
Command ==
    \/ \E u \in Actors : Start(u)
    \/ \E c \in Choices : Intend("answer", c)
    \/ Intend("next", NoChoice)
    \/ Intend("submit", NoChoice)
    \/ FoundSubmitted \/ Recover \/ Abandon
    \/ ReconcileBound \/ ReconcileNone \/ \E a \in Attempts : ReconcileBind(a)

Request ==
    \/ PrepareStart \/ StartCreates \/ StartUnknown \/ Seal
    \/ Prepare \/ RefuseWrite \/ Post \/ PostLost
    \/ Commit \/ CommitSubmit \/ ReadFails \/ Killed

Environment ==
    \/ Deliver
    \/ \E u \in Actors : BrowserStarts(u)
    \/ \E w \in Writes : BrowserWrites(w)

Next == Command \/ Request \/ Environment

Spec == Init /\ [][Next]_vars

-----------------------------------------------------------------------------
(* Properties.                                                             *)

\* README: while a start's outcome is uncertain, starting again is refused,
\* even after abandon.  A start is on its way only if every attempt an earlier
\* start created was named in the checkpoint or accounted for by the operator.
NoStartInDoubt == pc \in {"send", "post"} /\ file.op = "start" => unseen = {}

\* A write is sent only when the outcome of every earlier write to the same
\* attempt is known, whatever was lost, killed or abandoned in between.
NoWriteInDoubt == pc = "post" /\ file.op # "start" => file.attempt \notin doubt

\* The answer last confirmed, or settled by `page`, is the one the server has,
\* unless a browser or a write that was under way for long has changed it.
ConfirmedAnswerHolds ==
    file.status = "active" /\ file.choice # NoChoice /\ file.attempt \notin touched =>
        chosen[file.attempt][file.page] = file.choice

\* The cursor is never ahead of the server's: a page past it, once asked for,
\* breaks a forward-only attempt.
CursorNeverAhead == file.attempt # 0 => file.page <= spot[file.attempt]

\* A checkpoint says submitted only of an attempt the server has as complete.
SubmittedIsVerified == file.status = "submitted" => state[file.attempt] = "done"

\* The attempt a checkpoint names is its account's, and one that did not exist
\* when its start was meant.
NeverAnOlderAttempt ==
    file.attempt # 0 => owner[file.attempt] = file.actor /\ file.attempt \notin file.baseline

\* The comments "durable intent before any mutation" and "keep the durable intent
\* uncertain": the checkpoint is WriteLedger's entry.  A start is a write too, about
\* no attempt yet, and stays in doubt until one is named or accounted for, whatever
\* is abandoned in between.
EntryOf == CASE file.status = "uncertain" -> "pending"
             [] file.status = "active"    -> "clear"
             [] OTHER                     -> "blank"
AboutOf == IF EntryOf = "blank" THEN 0 ELSE file.attempt
DoubtOf == doubt \union (IF unseen = {} THEN {} ELSE {0})

Ledger == INSTANCE WriteLedger WITH Things <- Attempts, None <- 0,
              entry <- EntryOf, about <- AboutOf, ready <- pc \in {"send", "post"},
              doubt <- DoubtOf
ImplementsLedger == Ledger!LedgerSpec
=============================================================================
