------------------------------ MODULE MfaLogin ------------------------------
(***************************************************************************)
(* The second factor of a sign-in (ms_auth.py, ms_mfa.py), the commands    *)
(* that lead to it (auth.py) and the checkpoint mfa_pending.json that      *)
(* carries a begun sign-in from `auth login` to `auth verify` (config.py). *)
(*                                                                         *)
(* A challenge is what BeginAuth starts; it is a number, and so are the    *)
(* tokens EndAuth hands out for it and the session that comes of them.     *)
(* Other stands for a session that needed no challenge, 0 for none.  One   *)
(* step is one exchange with Microsoft or D2L, or one access to a file.    *)
(* The password stage before the challenge is one step.                    *)
(***************************************************************************)
EXTENDS Integers, Sequences, FiniteSets

CONSTANTS
    Procs,         \* processes
    Commands,      \* [Procs -> sets of commands]
    Methods,       \* verification methods of the account
    Served,        \* pages Microsoft may serve after EndAuth, as sets of features
    Polls,         \* _MAX_ENDAUTH_POLLS
    Hops,          \* _MAX_POST_MFA_HOPS
    Reloads,       \* _MAX_SSO_RELOADS
    MaxChallenges, \* bound: challenges
    MaxCommands,   \* bound: commands
    MaxCrashes     \* bound: crashes

ASSUME SizeAssumption ==
    /\ {Polls, Hops} \subseteq Nat \ {0}
    /\ {Reloads, MaxChallenges, MaxCommands, MaxCrashes} \subseteq Nat

VARIABLES
    pending,  \* mfa_pending.json: whose BeginAuth, EndAuth tokens and KMSI page it holds
    cookies,  \* cookies.json: the session it holds
    how,      \* the method of each challenge begun so far
    accepted, \* Microsoft: challenges whose code it has accepted
    job,      \* what each process is at
    used,     \* commands so far
    crashes   \* crashes so far

remote == <<how, accepted>>
vars   == <<pending, cookies, remote, job, used, crashes>>

Challenges == 1 .. MaxChallenges
Other      == MaxChallenges + 1
Absent     == [begin |-> 0, end |-> 0, kmsi |-> 0]
Pending    == [begin : Challenges \union {0}, end : Challenges \union {0},
               kmsi : Challenges \union {0}]
Features   == {"saml", "change", "mfa", "reload", "redirect", "hidden", "kmsi", "request"}
ASSUME ServedAssumption == Served \subseteq SUBSET Features

Places     == {"idle", "plan", "clear", "password", "begin", "defer", "load", "end", "lookup",
               "merge", "write", "process", "walk", "kmsi", "acs", "finish", "persist",
               "supersede", "reload", "discard"}

\* A process's command and where it is in it; whether it resumes a checkpoint
\* ("verify") or answers with the stored authenticator ("stored"); the challenge it
\* works on and the EndAuth tokens in its hands; the checkpoint update_mfa_pending has
\* read; the page Microsoft served last; the EndAuth polls, hops and session-pull pages
\* so far; and how its last command ended.
Job == [pc : Places, cmd : {"none", "login", "defer", "app", "verify", "stored", "auto", "refresh"},
        mode : {"fresh", "verify", "stored"}, ch : Challenges \union {0},
        tok : Challenges \union {0, Other}, snap : Pending,
        page : SUBSET Features, polls : 0 .. Polls, hops : 0 .. Hops, reloads : 0 .. Reloads,
        told : {"none", "done", "pending", "failed", "expired", "store"}]

Idle == [pc |-> "idle", cmd |-> "none", mode |-> "fresh", ch |-> 0, tok |-> 0,
         snap |-> Absent, page |-> {}, polls |-> 0, hops |-> 0, reloads |-> 0, told |-> "none"]

TypeOK ==
    /\ pending \in Pending
    /\ cookies \in Challenges \union {0, Other}
    /\ how \in Seq(Methods) /\ Len(how) <= MaxChallenges
    /\ accepted \subseteq 1 .. Len(how)
    /\ job \in [Procs -> Job]
    /\ used \in 0 .. MaxCommands
    /\ crashes \in 0 .. MaxCrashes

Init ==
    /\ pending = Absent
    /\ cookies = 0
    /\ how = <<>>
    /\ accepted = {}
    /\ job = [p \in Procs |-> Idle]
    /\ used = 0
    /\ crashes = 0

-----------------------------------------------------------------------------
(* Helpers.                                                                *)

\* Where the kind of a page is looked for, first to last.
MfaBeforeChange == <<"saml", "mfa", "change", "reload", "redirect", "hidden", "kmsi", "request">>
KindOrder       == <<"saml", "change", "mfa", "reload", "redirect", "hidden", "kmsi", "request">>

First(order, pg) ==
    IF pg = {} THEN "stop"
    ELSE order[CHOOSE i \in 1 .. Len(order) :
                  order[i] \in pg /\ \A j \in 1 .. i - 1 : order[j] \notin pg]

\* Faulty variant: an expired password's page is taken for a verification page.
ClassifyMfaFirst(pg) == First(MfaBeforeChange, pg)

\* classify_post_mfa: an expired password's page also has what looks like a code field.
Classify(pg) == First(KindOrder, pg)

\* The page of an expired password, unless an assertion came with it.
Expired(pg) == "change" \in pg /\ "saml" \notin pg

\* Faulty variant: any checkpoint is resumed.
ResumeAny(c) == c.begin # 0

\* plan_login: a code on the command line is one of the app's, and resumes only a
\* checkpoint of that method.
Resumes(c) == c.begin # 0 /\ how[c.begin] = "app"

\* A sign-in with the stored authenticator keeps off the checkpoint.
Checkpointing(j) == j.mode # "stored"

Becomes(p, j) == job' = [job EXCEPT ![p] = j]

Goto(p, place) == job' = [job EXCEPT ![p].pc = place]

End(p, result) == Becomes(p, [Idle EXCEPT !.told = result])

\* A MicrosoftSSOError: `auth verify` looks after its checkpoint first.
Fail(p) == IF job[p].mode = "verify" THEN Goto(p, "reload") ELSE End(p, "failed")

\* Any other exception leaves the checkpoint as it is.
Abort(p) == End(p, "failed")

-----------------------------------------------------------------------------
(* The commands.                                                           *)

\* A command c of the process starts.
Starts(p, c) ==
    /\ job[p].pc = "idle"
    /\ c \in Commands[p]
    /\ used < MaxCommands
    /\ used' = used + 1
    /\ UNCHANGED <<pending, cookies, remote, crashes>>

\* `auth login` with a person ("login") or without ("defer"), or with a code of the
\* app on the command line ("app").
Login(p) ==
    \E c \in {"login", "defer", "app"} :
        /\ Starts(p, c)
        /\ Becomes(p, [Idle EXCEPT !.cmd = c, !.pc = IF c = "app" THEN "plan" ELSE "clear"])

\* `auth login` with the stored authenticator.
LoginStored(p) ==
    /\ Starts(p, "stored")
    /\ Becomes(p, [Idle EXCEPT !.cmd = "stored", !.mode = "stored", !.pc = "password"])

\* The client signs in by itself, unless a sign-in waits for its code.
Renew(p) ==
    /\ Starts(p, "auto")
    /\ pending.begin = 0
    /\ Becomes(p, [Idle EXCEPT !.cmd = "auto", !.mode = "stored", !.pc = "password"])

\* `auth verify` needs a checkpoint, and one that opens.
Verify(p) ==
    /\ Starts(p, "verify")
    /\ \/ /\ pending.begin # 0
          /\ Becomes(p, [Idle EXCEPT !.cmd = "verify", !.mode = "verify", !.pc = "load"])
       \/ End(p, IF pending.begin = 0 THEN "failed" ELSE "store")

\* `auth refresh` takes the session of the person's browser, if one is signed in.
Refresh(p) ==
    /\ Starts(p, "refresh")
    /\ \/ Becomes(p, [Idle EXCEPT !.cmd = "refresh", !.tok = Other, !.pc = "persist"])
       \/ End(p, "failed")

\* cmd_auth_login reads the checkpoint for a code it was given; one that cannot be
\* opened is not resumed.
PlanLogin(p) ==
    /\ job[p].pc = "plan"
    /\ \/ Resumes(pending) /\ job' = [job EXCEPT ![p].mode = "verify", ![p].pc = "load"]
       \/ Goto(p, "clear")
    /\ UNCHANGED <<pending, cookies, remote, used, crashes>>

\* Faulty variant: a new sign-in leaves the checkpoint of the last.
ClearNothing(p) ==
    /\ job[p].pc = "clear"
    /\ Goto(p, "password")
    /\ UNCHANGED <<pending, cookies, remote, used, crashes>>

\* A new sign-in gives up the last one.
ClearPending(p) ==
    /\ job[p].pc = "clear"
    /\ pending' = Absent
    /\ Goto(p, "password")
    /\ UNCHANGED <<cookies, remote, used, crashes>>

\* Username, password and the pages in between; a known account may need no code.
PasswordStage(p) ==
    /\ job[p].pc = "password"
    /\ \/ Fail(p)
       \/ Goto(p, "begin")
       \/ job' = [job EXCEPT ![p].pc = "acs", ![p].tok = Other]
    /\ UNCHANGED <<pending, cookies, remote, used, crashes>>

\* _select_user_proof: the app for a code at hand, else any that was asked for.
Choices(c) == IF c \in {"app", "stored", "auto"} THEN Methods \intersect {"app"} ELSE Methods

\* BeginAuth starts a challenge; then the code is there: the stored authenticator's,
\* the one on the command line, or what the person types.
BeginAuth(p) ==
    /\ job[p].pc = "begin"
    /\ \/ Fail(p) /\ UNCHANGED how
       \/ LET n == Len(how) + 1 IN
          /\ n <= MaxChallenges
          /\ \E m \in Choices(job[p].cmd) : how' = Append(how, m)
          /\ job' = [job EXCEPT ![p].ch = n,
                                ![p].pc = IF job[p].cmd = "defer" THEN "defer" ELSE "end"]
    /\ UNCHANGED <<pending, cookies, accepted, used, crashes>>

\* save_mfa_pending, and the person is told to verify.
DeferToPending(p) ==
    /\ job[p].pc = "defer"
    /\ \/ pending' = [Absent EXCEPT !.begin = job[p].ch] /\ End(p, "pending")
       \/ End(p, "store") /\ UNCHANGED pending
    /\ UNCHANGED <<cookies, remote, used, crashes>>

\* complete_mfa_pending goes on where the checkpoint says: at the KMSI page, after
\* EndAuth, or with the code the person has given.
LoadPending(p) ==
    /\ job[p].pc = "load"
    /\ \/ /\ pending.begin # 0
          /\ job' = [job EXCEPT
                  ![p].ch = pending.begin, ![p].tok = pending.end,
                  ![p].pc = CASE pending.kmsi # 0 -> "kmsi"
                              [] pending.kmsi = 0 /\ pending.end # 0 -> "process"
                              [] OTHER -> "end"]
       \/ End(p, IF pending.begin = 0 THEN "failed" ELSE "store")
    /\ UNCHANGED <<pending, cookies, remote, used, crashes>>

-----------------------------------------------------------------------------
(* EndAuth.                                                                *)

\* Retry, until the polls are used up.
Retry(p) ==
    IF job[p].polls + 1 < Polls THEN job' = [job EXCEPT ![p].polls = @ + 1] ELSE Fail(p)

\* _poll_end_auth sends the code once and reads the answer: Microsoft may take it or
\* refuse it.  The stored authenticator's code has one try; a lost answer may hide
\* an accepted code.
EndAuth(p) ==
    /\ job[p].pc = "end"
    /\ LET j == job[p] IN
       \/ /\ j.ch \notin accepted
          /\ accepted' = accepted \union {j.ch}
          /\ \/ job' = [job EXCEPT ![p].tok = j.ch,
                                   ![p].pc = IF Checkpointing(j) THEN "merge" ELSE "process"]
             \/ Fail(p) \/ Abort(p)
       \/ j.ch \in accepted /\ Checkpointing(j) /\ Goto(p, "lookup") /\ UNCHANGED accepted
       \/ Checkpointing(j) /\ Retry(p) /\ UNCHANGED accepted
       \/ (Fail(p) \/ Abort(p)) /\ UNCHANGED accepted
    /\ UNCHANGED <<pending, cookies, how, used, crashes>>

\* AuthenticationPreviouslyCompleted: the tokens may be in the checkpoint.
LookUpTokens(p) ==
    /\ job[p].pc = "lookup"
    /\ \/ pending.end # 0 /\ job' = [job EXCEPT ![p].tok = pending.end, ![p].pc = "process"]
       \/ pending.end = 0 /\ Fail(p)
       \/ End(p, "store")
    /\ UNCHANGED <<pending, cookies, remote, used, crashes>>

\* After EndAuth, or with a KMSI page to be answered.
AfterMerge(j) == IF j.page = {} THEN "process" ELSE "kmsi"

\* update_mfa_pending reads the checkpoint; none is not created.
MergeReads(p) ==
    /\ job[p].pc = "merge"
    /\ \/ pending.begin # 0 /\ job' = [job EXCEPT ![p].snap = pending, ![p].pc = "write"]
       \/ pending.begin = 0 /\ Goto(p, AfterMerge(job[p]))
       \/ pending.begin # 0 /\ End(p, "store")
    /\ UNCHANGED <<pending, cookies, remote, used, crashes>>

\* Then it writes it with the tokens, or with the KMSI page.
MergeWrites(p) ==
    /\ job[p].pc = "write"
    /\ LET j == job[p] IN
       \/ /\ pending' = IF j.page = {} THEN [j.snap EXCEPT !.end = j.tok]
                        ELSE [j.snap EXCEPT !.kmsi = j.tok]
          /\ job' = [job EXCEPT ![p].snap = Absent, ![p].pc = AfterMerge(j)]
       \/ End(p, "store") /\ UNCHANGED pending
    /\ UNCHANGED <<cookies, remote, used, crashes>>

-----------------------------------------------------------------------------
(* The pages after it.                                                     *)

\* A request is answered with a page, with a server error, or not at all.
Answer(p, j) ==
    \/ \E pg \in Served : Becomes(p, [j EXCEPT !.page = pg, !.pc = "walk"])
    \/ Fail(p) \/ Abort(p)

\* ProcessAuth with the tokens.
ProcessAuth(p) ==
    /\ job[p].pc = "process"
    /\ Answer(p, job[p])
    /\ UNCHANGED <<pending, cookies, remote, used, crashes>>

\* Faulty variant: a hop over a KMSI page is not counted.
CountFetches(j, kind) ==
    [j EXCEPT !.hops = IF kind = "kmsi" THEN @ ELSE @ + 1,
              !.reloads = IF kind = "reload" THEN @ + 1 ELSE @]

\* A hop is counted, and so is a session-pull page.
CountHop(j, kind) ==
    [j EXCEPT !.hops = @ + 1, !.reloads = IF kind = "reload" THEN @ + 1 ELSE @]

\* _advance_to_saml, one page: an expired password drops the checkpoint, whoever
\* walks; a KMSI page is kept in it before it is answered; the others are followed,
\* while hops and session-pull pages are left.
Walk(p) ==
    /\ job[p].pc = "walk"
    /\ LET j     == job[p]
           kind  == Classify(j.page)
           spent == j.hops = Hops \/ (kind = "reload" /\ j.reloads = Reloads)
       IN
       \/ (spent \/ kind \in {"mfa", "stop"}) /\ Fail(p) /\ UNCHANGED pending
       \/ ~spent /\ kind = "saml" /\ Goto(p, "acs") /\ UNCHANGED pending
       \/ ~spent /\ kind = "change" /\ pending' = Absent /\ Fail(p)
       \/ /\ ~spent /\ kind = "kmsi"
          /\ Becomes(p, [CountHop(j, kind) EXCEPT
                            !.pc = IF Checkpointing(j) THEN "merge" ELSE "kmsi"])
          /\ UNCHANGED pending
       \/ /\ ~spent /\ kind \in {"reload", "redirect", "hidden", "request"}
          /\ Answer(p, CountHop(j, kind))
          /\ UNCHANGED pending
    /\ UNCHANGED <<cookies, remote, used, crashes>>

\* _submit_kmsi, "stay signed in".
SubmitKmsi(p) ==
    /\ job[p].pc = "kmsi"
    /\ Answer(p, job[p])
    /\ UNCHANGED <<pending, cookies, remote, used, crashes>>

\* _step_post_saml: D2L makes a session of the assertion, at once or on its homepage.
PostSaml(p) ==
    /\ job[p].pc = "acs"
    /\ \/ Goto(p, IF Checkpointing(job[p]) THEN "finish" ELSE "persist")
       \/ Fail(p) \/ Abort(p)
    /\ UNCHANGED <<pending, cookies, remote, used, crashes>>

\* The checkpoint goes once the session's cookies are there.
FinishPending(p) ==
    /\ job[p].pc = "finish"
    /\ pending' = Absent
    /\ Goto(p, "persist")
    /\ UNCHANGED <<cookies, remote, used, crashes>>

\* _persist_check_report: under the sign-in lock the cookies are saved and checked;
\* the lock may be taken, and the session may be refused.
Persist(p) ==
    /\ job[p].pc = "persist"
    /\ \/ /\ cookies' = job[p].tok
          /\ \/ job[p].cmd \in {"stored", "refresh"} /\ Goto(p, "supersede")
             \/ job[p].cmd \notin {"stored", "refresh"} /\ End(p, "done")
             \/ End(p, "failed")
       \/ End(p, "failed") /\ UNCHANGED cookies
    /\ UNCHANGED <<pending, remote, used, crashes>>

\* A sign-in with the stored authenticator, or the browser's, replaces a begun one.
Supersede(p) ==
    /\ job[p].pc = "supersede"
    /\ pending' = Absent
    /\ End(p, "done")
    /\ UNCHANGED <<cookies, remote, used, crashes>>

-----------------------------------------------------------------------------
(* What `auth verify` does when it fails.                                  *)

\* How it ends.
Outcome(j) ==
    CASE j.told = "store" -> "store"
      [] j.told # "store" /\ Expired(j.page) /\ j.hops < Hops -> "expired"
      [] OTHER -> "failed"

\* Faulty variant: the checkpoint is discarded after any failure.
ReloadNothing(p) ==
    /\ job[p].pc = "reload"
    /\ Goto(p, "discard")
    /\ UNCHANGED <<pending, cookies, remote, used, crashes>>

\* The checkpoint is read again: with EndAuth tokens it stays, without, or when it
\* cannot be opened, it is discarded.
ReloadPending(p) ==
    /\ job[p].pc = "reload"
    /\ \/ pending.end # 0 /\ End(p, Outcome(job[p]))
       \/ pending.end = 0 /\ Goto(p, "discard")
       \/ pending.begin # 0 /\ job' = [job EXCEPT ![p].told = "store", ![p].pc = "discard"]
    /\ UNCHANGED <<pending, cookies, remote, used, crashes>>

DiscardPending(p) ==
    /\ job[p].pc = "discard"
    /\ pending' = Absent
    /\ End(p, Outcome(job[p]))
    /\ UNCHANGED <<cookies, remote, used, crashes>>

\* A process is killed, at any place.
Crash(p) ==
    /\ job[p].pc # "idle"
    /\ crashes < MaxCrashes
    /\ crashes' = crashes + 1
    /\ Becomes(p, Idle)
    /\ UNCHANGED <<pending, cookies, remote, used>>

Advance(p) ==
    \/ PlanLogin(p) \/ ClearPending(p) \/ PasswordStage(p) \/ BeginAuth(p)
    \/ DeferToPending(p) \/ LoadPending(p) \/ EndAuth(p) \/ LookUpTokens(p)
    \/ MergeReads(p) \/ MergeWrites(p) \/ ProcessAuth(p) \/ Walk(p) \/ SubmitKmsi(p)
    \/ PostSaml(p) \/ FinishPending(p) \/ Persist(p) \/ Supersede(p)
    \/ ReloadPending(p) \/ DiscardPending(p)

Next ==
    \E p \in Procs :
        \/ Login(p) \/ LoginStored(p) \/ Renew(p) \/ Verify(p) \/ Refresh(p)
        \/ Advance(p) \/ Crash(p)

Spec == Init /\ [][Next]_vars

\* Every request has a timeout, and the lock is waited for a bounded time.
FairSpec == Spec /\ \A p \in Procs : WF_vars(Advance(p))

-----------------------------------------------------------------------------
(* Properties.                                                             *)

\* What the checkpoint holds, and what `auth verify` has in its hands, is all of one
\* BeginAuth: tokens or a KMSI page are never merged into another sign-in's
\* checkpoint (update_mfa_pending, config.py).
SameChallenge ==
    /\ {pending.end, pending.kmsi} \subseteq {0, pending.begin}
    /\ \A p \in Procs : job[p].pc # "idle" /\ job[p].mode = "verify" => job[p].tok \in {0, job[p].ch}

\* A code of the app, given on the command line or by the stored authenticator, is
\* never submitted to a challenge of another method (plan_login, auth.py).
LiteralCodeFits ==
    \A p \in Procs :
        job[p].pc = "end" /\ job[p].cmd \in {"app", "stored", "auto"} => how[job[p].ch] = "app"

\* Once Microsoft has accepted the code, an `auth verify` that fails on a later step
\* leaves the tokens in the checkpoint, for the next one to go on with them
\* (complete_mfa_pending, ms_auth.py).
AcceptedIsKept ==
    [][\A p \in Procs :
          (/\ job[p].mode = "verify" /\ job[p].pc # "idle"
           /\ job[p].tok # 0 /\ pending.begin = job[p].tok /\ pending.end = job[p].tok
           /\ job'[p].told = "failed")
          => pending'.end = job[p].tok]_vars

\* An `auth verify` that ends on the page of an expired password leaves no
\* checkpoint that would only lead to it again (_advance_to_saml, ms_auth.py).
ExpiredIsDiscarded ==
    [][\A p \in Procs :
          job[p].mode = "verify" /\ job[p].told # "expired" /\ job'[p].told = "expired"
          => pending'.begin # job[p].ch]_vars

\* Every command ends: no answer of Microsoft's keeps a sign-in going for ever.
CommandsEnd == \A p \in Procs : []<>(job[p].pc = "idle")
=============================================================================
