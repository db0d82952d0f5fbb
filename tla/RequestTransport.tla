-------------------------- MODULE RequestTransport --------------------------
(***************************************************************************)
(* The HTTP client of api.py: how one request is retried, when an expired  *)
(* session is recovered, what a lost reply means, and the commands built   *)
(* from such requests: reads, paginated lists, the creation of a quiz or   *)
(* an assignment (assessment_api.py), the upload of a file (submit.py) and *)
(* the start of a preview.                                                 *)
(*                                                                         *)
(* Each client belongs to a process or a worker thread of its own and      *)
(* keeps a copy of the cookies; all share cookies.json, the sessions D2L   *)
(* knows and a person's browser.  A session is a number, 0 standing for    *)
(* missing cookies; sessions never come back to life.  One step is one     *)
(* HTTP exchange, or one access to cookies.json.  renew_session is one     *)
(* step, since it holds the sign-in lock (SessionRenewal has its steps).   *)
(***************************************************************************)
EXTENDS Integers, Sequences, FiniteSets, Functions

CONSTANTS
    Clients,     \* processes and worker threads, with a LighthouseClient each
    Commands,    \* [Clients -> sets of commands]: what each is used for
    Unattended,  \* whether automatic sign-in is configured
    Retries,     \* _MAX_RETRIES
    Pages,       \* pages of a list
    MaxPages,    \* _MAX_PAGINATION_PAGES
    MaxSessions, \* bound: sessions D2L issues
    MaxCalls     \* bound: commands

ASSUME SizeAssumption ==
    /\ Unattended \in BOOLEAN
    /\ {Retries, MaxSessions, MaxCalls} \subseteq Nat
    /\ MaxPages \in Nat \ {0}
    /\ Pages # {}

CommandNames == {"show", "list", "status", "start", "create", "submit", "tryout"}
ASSUME CommandAssumption == \A c \in Clients : Commands[c] \subseteq CommandNames

VARIABLES
    disk,      \* cookies.json: its session, and whether it is sealed
    alive,     \* D2L: the sessions it accepts
    issued,    \* D2L: the sessions issued so far
    browser,   \* the session of the person's browser
    mine,      \* a client's _cookies
    loaded,    \* its _loaded
    token,     \* its _csrf_token, as the session whose homepage it is from
    cmd,       \* the command it runs
    todo,      \* the requests still to make for it
    pc,        \* where it is
    tries,     \* attempts of _do_request so far
    refreshed, \* refresh_attempted of _request
    link,      \* the link _paginate_list follows
    seen,      \* its seen_urls
    got,       \* its all_items, as the pages they are from
    copied,    \* the browser's session it has extracted
    outcome,   \* what the command told the person
    applied,   \* history: how often D2L carried the command's write out
    answered,  \* history: D2L's whole reply to the command's write came
    calls      \* commands so far

server == <<alive, issued, browser>>
vars   == <<disk, server, mine, loaded, token, cmd, todo, pc, tries, refreshed, link, seen,
            got, copied, outcome, applied, answered, calls>>

Sessions == 1 .. MaxSessions
\* Brightspace may write a page's address in more than one way: with the scheme, host
\* and port or without, from the root or from the API's base.
Links    == [page : Pages, form : {"absolute", "relative"}]
FirstPage == CHOOSE p \in Pages : TRUE

\* submit_file: one POST, with a protection token only if the client holds one; the
\* homepage is not asked for it.
UploadPlan == <<"post">>

\* cmd_submit: course and folder are found in lists, the folder's details may say
\* that it takes no file, the person confirms, and the file goes up.
SubmitPlan == <<"courses", "folders", "peek", "confirm">> \o UploadPlan

\* The same with dry_run ends before the confirmation.
TryoutPlan == SubSeq(SubmitPlan, 1, 3)

\* quiz-create and assignment-create: the homepage's token, then the write.
CreatePlan == <<"token", "post">>

\* check_auth: whoami must name an account.
StatusPlan == <<"whoami">>

\* The requests of a command: "pages", "courses" and "folders" read a list; "get" and
\* "peek" read one thing, and a failed peek is ignored; "once" is a GET that creates (the start of a preview); "whoami"
\* asks who is signed in.
Plan(command) ==
    CASE command = "show"   -> <<"get">>
      [] command = "list"   -> <<"pages">>
      [] command = "status" -> StatusPlan
      [] command = "start"  -> <<"once">>
      [] command = "create" -> CreatePlan
      [] command = "submit" -> SubmitPlan
      [] command = "tryout" -> TryoutPlan

Lists == {"pages", "courses", "folders"}
Ops   == {"get", "whoami", "once", "token", "post", "peek", "confirm"} \union Lists

TypeOK ==
    /\ disk \in [session : Sessions \union {0}, sealed : BOOLEAN]
    /\ alive \subseteq 1 .. issued
    /\ issued \in Sessions \union {0}
    /\ browser \in 0 .. issued
    /\ mine \in [Clients -> Sessions \union {0}]
    /\ loaded \in [Clients -> BOOLEAN]
    /\ token \in [Clients -> Sessions \union {0}]
    /\ cmd \in [Clients -> CommandNames \union {"none"}]
    /\ todo \in [Clients -> Seq(Ops)]
    /\ pc \in [Clients -> {"idle", "open", "migrate", "ready", "check", "renew", "browser", "save"}]
    /\ tries \in [Clients -> 0 .. Retries]
    /\ refreshed \in [Clients -> BOOLEAN]
    /\ link \in [Clients -> Links]
    /\ seen \in [Clients -> SUBSET Links]
    /\ got \in [Clients -> Seq(Pages)]
    /\ copied \in [Clients -> Sessions \union {0}]
    /\ outcome \in [Clients -> {"none", "done", "failed", "unknown", "cancelled", "refused"}]
    /\ applied \in [Clients -> Nat]
    /\ answered \in [Clients -> BOOLEAN]
    /\ calls \in 0 .. MaxCalls

Init ==
    /\ issued \in {0, 1} /\ issued <= MaxSessions
    /\ alive \in SUBSET (1 .. issued)
    /\ disk \in [session : {issued}, sealed : BOOLEAN]
    /\ browser = 0
    /\ mine = [c \in Clients |-> 0]
    /\ loaded = [c \in Clients |-> FALSE]
    /\ token = [c \in Clients |-> 0]
    /\ cmd = [c \in Clients |-> "none"]
    /\ todo = [c \in Clients |-> <<>>]
    /\ pc = [c \in Clients |-> "idle"]
    /\ tries = [c \in Clients |-> 0]
    /\ refreshed = [c \in Clients |-> FALSE]
    /\ link = [c \in Clients |-> [page |-> FirstPage, form |-> "relative"]]
    /\ seen = [c \in Clients |-> {}]
    /\ got = [c \in Clients |-> <<>>]
    /\ copied = [c \in Clients |-> 0]
    /\ outcome = [c \in Clients |-> "none"]
    /\ applied = [c \in Clients |-> 0]
    /\ answered = [c \in Clients |-> FALSE]
    /\ calls = 0

-----------------------------------------------------------------------------
(* Helpers.                                                                *)

Op(c) == Head(todo[c])

\* Faulty variant: every GET may be sent again.
ReplayableByMethod(op) == op # "post"

\* Methods and routes whose repetition cannot create anything.
Replayable(op) == op \notin {"post", "once"}

\* A client of a dry run is built with read_only_auth.
ReadOnly(command) == command = "tryout"

CanRecover(c) == Replayable(Op(c)) /\ ~ReadOnly(cmd[c])

\* max_attempts - 1
MoreTries(op) == IF Replayable(op) THEN Retries ELSE 0

\* Faulty variant: a link is compared as the server wrote it.
AsWritten(l) == l

\* canonical_url, as far as cycles are concerned: one value for each page, however its
\* scheme, host, port and base are written.  Other spellings stay apart.
Canonical(l) == [page |-> l.page, form |-> "absolute"]

\* Faulty variant: the token outlives its session.
InstallKeepingToken(c, s) ==
    /\ mine' = [mine EXCEPT ![c] = s]
    /\ loaded' = [loaded EXCEPT ![c] = TRUE]
    /\ UNCHANGED token

\* Faulty variant: a client without cookies loads them again each time.
InstallIfComplete(c, s) ==
    /\ mine' = [mine EXCEPT ![c] = s]
    /\ token' = [token EXCEPT ![c] = 0]
    /\ loaded' = [loaded EXCEPT ![c] = s # 0]

\* _recover_session copies a session in, and the token of the old one goes.
Install(c, s) ==
    /\ mine' = [mine EXCEPT ![c] = s]
    /\ token' = [token EXCEPT ![c] = 0]
    /\ loaded' = [loaded EXCEPT ![c] = TRUE]

\* Faulty variant: an expired session is taken to mean that nothing was created.
CreationExpiredIsFailed(why) ==
    IF why \in {"network", "limited", "error", "shape"} THEN "unknown" ELSE "failed"

\* AssessmentAPI.write: a creation that may have happened is unknown.
CreationFailed(why) ==
    IF why \in {"network", "expired", "limited", "error", "shape"} THEN "unknown" ELSE "failed"

\* _submission_response_result: so is an upload whose success could not be read.
UploadFailed(why) == IF why = "shape" THEN "unknown" ELSE "failed"

\* What the person is told when a request fails.
Report(command, op, why) ==
    CASE op = "post" /\ command = "create" -> CreationFailed(why)
      [] op = "post" /\ command = "submit" -> UploadFailed(why)
      [] OTHER -> "failed"

\* _run and the other commands: the result is shown, or a failure told.
Finish(c, result) ==
    /\ outcome' = [outcome EXCEPT ![c] = result]
    /\ pc' = [pc EXCEPT ![c] = "idle"]
    /\ todo' = [todo EXCEPT ![c] = <<>>]

\* On to the command's next request, or to its end.
Proceed(c) ==
    IF Len(todo[c]) = 1 THEN Finish(c, "done")
    ELSE /\ todo' = [todo EXCEPT ![c] = Tail(@)]
         /\ pc' = [pc EXCEPT ![c] = "open"]
         /\ UNCHANGED outcome

\* A failed request ends the command, but for the read of the folder's details.
Fail(c, why) ==
    IF Op(c) = "peek" THEN Proceed(c) ELSE Finish(c, Report(cmd[c], Op(c), why))

Goto(c, place) == pc' = [pc EXCEPT ![c] = place] /\ UNCHANGED <<todo, outcome>>

-----------------------------------------------------------------------------
(* Cookies.                                                                *)

\* cookie_file_is_legacy: cookies of before sealing.
Legacy == ~disk.sealed /\ disk.session # 0

\* load_cookies for a client that must not write: a legacy file is ignored.
Load == IF Legacy THEN 0 ELSE disk.session

\* save_cookies always seals.
SaveCookies(s) == disk' = [session |-> s, sealed |-> TRUE]

\* A command starts, with a client that may have run others before.
Begin(c) ==
    /\ pc[c] = "idle"
    /\ calls < MaxCalls
    /\ \E command \in Commands[c] :
          /\ ReadOnly(command) \/ ReadOnly(cmd[c]) => ~loaded[c]
          /\ cmd' = [cmd EXCEPT ![c] = command]
          /\ todo' = [todo EXCEPT ![c] = Plan(command)]
    /\ pc' = [pc EXCEPT ![c] = "open"]
    /\ outcome' = [outcome EXCEPT ![c] = "none"]
    /\ applied' = [applied EXCEPT ![c] = 0]
    /\ answered' = [answered EXCEPT ![c] = FALSE]
    /\ calls' = calls + 1
    /\ UNCHANGED <<disk, server, mine, loaded, token, tries, refreshed, link, seen, got, copied>>

\* The start of _request: cookies are read on first use, where a legacy file
\* sends a client that may write it to the migration; without any, only
\* automatic sign-in can help.  A token held already is not fetched again, and
\* a list starts at its first page.
Open(c) ==
    /\ pc[c] = "open"
    /\ Op(c) # "confirm"
    /\ tries' = [tries EXCEPT ![c] = 0]
    /\ LET s == IF loaded[c] THEN mine[c] ELSE Load
       IN IF ~loaded[c] /\ Legacy /\ ~ReadOnly(cmd[c])
          THEN /\ Goto(c, "migrate")
               /\ UNCHANGED <<mine, loaded, token, refreshed>>
          ELSE /\ IF loaded[c] THEN UNCHANGED <<mine, loaded, token>> ELSE Install(c, s)
               /\ refreshed' = [refreshed EXCEPT ![c] = (s = 0)]
               /\ CASE Op(c) = "token" /\ loaded[c] /\ token[c] # 0 -> Proceed(c)
                    [] s = 0 /\ CanRecover(c) /\ Unattended -> Goto(c, "renew")
                    [] s = 0 /\ ~(CanRecover(c) /\ Unattended) -> Fail(c, "expired")
                    [] OTHER -> Goto(c, "ready")
    /\ IF Op(c) \in Lists
       THEN /\ link' = [link EXCEPT ![c] = [page |-> FirstPage, form |-> "relative"]]
            /\ seen' = [seen EXCEPT ![c] = {}]
            /\ got' = [got EXCEPT ![c] = <<>>]
       ELSE UNCHANGED <<link, seen, got>>
    /\ UNCHANGED <<disk, server, cmd, copied, applied, answered, calls>>

\* Faulty variant: the document read before the lock is the one sealed.
MigrateUnread(c) ==
    /\ pc[c] = "migrate"
    /\ SaveCookies(1)
    /\ Install(c, 1)
    /\ Goto(c, "open")
    /\ UNCHANGED <<server, cmd, tries, refreshed, link, seen, got, copied,
                   applied, answered, calls>>

\* _try_upgrade_plaintext_cookies seals the cookies it has just read, or cannot, and
\* then they are not used.
Upgrade(c) ==
    \/ SaveCookies(disk.session) /\ Install(c, disk.session)
    \/ UNCHANGED disk /\ Install(c, 0)

\* _load_migrating_legacy_cookies: under the lock the file is read again, and
\* sealed when it still needs to be and can.
Migrate(c) ==
    /\ pc[c] = "migrate"
    /\ \/ /\ disk.sealed
          /\ Install(c, disk.session)
          /\ Goto(c, "open")
          /\ UNCHANGED disk
       \/ ~disk.sealed /\ Upgrade(c) /\ Goto(c, "open")
       \/ /\ Fail(c, "expired")
          /\ UNCHANGED <<disk, mine, loaded, token>>
    /\ UNCHANGED <<server, cmd, tries, refreshed, link, seen, got, copied,
                   applied, answered, calls>>

-----------------------------------------------------------------------------
(* One exchange with D2L.                                                  *)

\* get_raw: a body is complete, or cannot be used: too long, cut short, or of
\* another shape than expected.
Bodies == {"ok", "shape"}

\* What D2L may answer: a session may end with the answer, and a dead one gets
\* 401, a redirect to the login page, or 403, which whoami has for no other.
Replies(c) ==
    {"network", "limited", "error", "expired"} \union
    (IF mine[c] \in alive THEN Bodies ELSE {}) \union
    (IF mine[c] \notin alive \/ Op(c) # "whoami" THEN {"denied"} ELSE {})

\* D2L carries a write out before it answers, and does not say so when the
\* answer is lost, delayed or about something else.
Apply(c, reply) ==
    \E n \in IF Op(c) \notin {"post", "once"} \/ mine[c] \notin alive \/ reply = "denied"
             THEN {0}
             ELSE IF reply \in Bodies THEN {1} ELSE {0, 1} :
        applied' = [applied EXCEPT ![c] = @ + n]

\* An expired session is recovered once for each request, never for one that
\* may have created something.
Expired(c) ==
    IF CanRecover(c) /\ ~refreshed[c]
    THEN /\ refreshed' = [refreshed EXCEPT ![c] = TRUE]
         /\ Goto(c, "renew")
    ELSE Fail(c, "expired") /\ UNCHANGED refreshed

\* Faulty variant: each 403 is taken for an expired session.
DeniedIsExpired(c) == Expired(c)

\* A 403 is a refusal, unless whoami says that the session is over.
Denied(c) ==
    CASE Op(c) = "whoami" -> Expired(c)
      [] Op(c) # "whoami" /\ CanRecover(c) -> Goto(c, "check") /\ UNCHANGED refreshed
      [] OTHER -> Fail(c, "denied") /\ UNCHANGED refreshed

\* resolve_course_id: a name must be that of one course; a number need not be listed.
ResolveCourse(c) == Proceed(c) \/ Finish(c, "refused")

\* _resolve_folder_id: the folder must be on the list, and no other have the name.
ResolveFolder(c) == Proceed(c) \/ Finish(c, "refused")

\* All pages are there.
Listed(c) ==
    CASE Op(c) = "courses" -> ResolveCourse(c)
      [] Op(c) = "folders" -> ResolveFolder(c)
      [] OTHER             -> Proceed(c)

\* A page of a list: the last, or one that names the next.
PageRead(c) ==
    /\ got' = [got EXCEPT ![c] = Append(@, link[c].page)]
    /\ seen' = [seen EXCEPT ![c] = @ \union {Canonical(link[c])}]
    /\ \/ Listed(c) /\ UNCHANGED link
       \/ \E next \in Links :
             IF Len(got'[c]) >= MaxPages \/ Canonical(next) \in seen'[c]
             THEN Fail(c, "network") /\ UNCHANGED link
             ELSE link' = [link EXCEPT ![c] = next] /\ Goto(c, "ready")

\* _get_folder: a folder that takes no file ends the command.
FolderRead(c) == Proceed(c) \/ Finish(c, "refused")

\* project: the reply to a creation may be too large to show, which _run tells as a
\* failure.  (So it is of a read, like a body that cannot be used.)
Shown(c) == Proceed(c) \/ Finish(c, "failed")

\* A page, a token, a folder's details, or anything else that was asked for.
Success(c) ==
    /\ token' = [token EXCEPT ![c] = IF Op(c) = "token" THEN mine[c] ELSE @]
    /\ refreshed' = [refreshed EXCEPT ![c] = FALSE]
    /\ IF Op(c) \in Lists THEN PageRead(c)
       ELSE /\ CASE Op(c) = "peek" -> FolderRead(c)
                 [] Op(c) = "post" /\ cmd[c] = "create" -> Shown(c)
                 [] OTHER -> Proceed(c)
            /\ UNCHANGED <<link, seen, got>>

\* One attempt of _do_request, and what _request makes of its answer.
Exchange(c) ==
    /\ pc[c] = "ready"
    /\ \E reply \in Replies(c) :
          /\ Apply(c, reply)
          /\ answered' = [answered EXCEPT ![c] = @ \/ (reply = "ok" /\ Op(c) \in {"post", "once"})]
          /\ alive' = IF reply = "expired" THEN alive \ {mine[c]} ELSE alive
          /\ LET again == reply \in {"network", "limited"} /\ tries[c] < MoreTries(Op(c))
             IN /\ tries' = [tries EXCEPT ![c] = IF again THEN @ + 1 ELSE 0]
                /\ IF reply = "ok" THEN Success(c)
                   ELSE /\ CASE again -> Goto(c, "ready") /\ UNCHANGED refreshed
                             [] reply = "expired" -> Expired(c)
                             [] reply = "denied" -> Denied(c)
                             [] OTHER -> Fail(c, reply) /\ UNCHANGED refreshed
                        /\ UNCHANGED <<token, link, seen, got>>
    /\ UNCHANGED <<disk, issued, browser, mine, loaded, cmd, copied, calls>>

\* _whoami_signed_out: one short request tells a 403 of a dead session from a
\* refusal.  Only a positive answer counts.
Check(c) ==
    /\ pc[c] = "check"
    /\ \/ mine[c] \notin alive /\ Expired(c)
       \/ Fail(c, "denied") /\ UNCHANGED refreshed
    /\ UNCHANGED <<disk, server, mine, loaded, token, cmd, tries, link, seen, got, copied,
                   applied, answered, calls>>

-----------------------------------------------------------------------------
(* Recovery.                                                               *)

\* probe_cookies, which never signs in.
Probe(s) == s \in alive

\* renew_session, when automatic sign-in is configured: a session another caller
\* has saved is used again, or a new one is signed in; else the browser, unless
\* there were no cookies at all.
Renew(c) ==
    /\ pc[c] = "renew"
    /\ LET other == disk.sealed /\ disk.session \notin {0, mine[c]}
       IN \/ /\ Unattended /\ other /\ Probe(disk.session)
             /\ Install(c, disk.session)
             /\ Goto(c, "ready")
             /\ UNCHANGED <<disk, alive, issued>>
          \/ /\ Unattended /\ ~(other /\ Probe(disk.session))
             /\ issued < MaxSessions
             /\ issued' = issued + 1
             /\ alive' = alive \union {issued'}
             /\ SaveCookies(issued')
             /\ Install(c, issued')
             /\ Goto(c, "ready")
          \/ /\ Unattended
             /\ Fail(c, "expired")
             /\ UNCHANGED <<disk, alive, issued, mine, loaded, token>>
          \/ /\ IF mine[c] = 0 THEN Fail(c, "expired") ELSE Goto(c, "browser")
             /\ UNCHANGED <<disk, alive, issued, mine, loaded, token>>
    /\ UNCHANGED <<browser, cmd, tries, refreshed, link, seen, got, copied,
                   applied, answered, calls>>

\* The helper program yields the cookies of the browser's session, or nothing when
\* it is not installed, fails or prints something else.
HarnessCookies == {browser, 0}

\* So does the browser's debugging port.
PortCookies == {browser, 0}

\* refresh_auth_from_browser: the port is asked when the helper yields nothing.
Copy(c) ==
    /\ pc[c] = "browser"
    /\ \E h \in HarnessCookies : \E s \in IF h # 0 THEN {h} ELSE PortCookies :
          IF s = 0 THEN Fail(c, "expired") /\ UNCHANGED copied
          ELSE copied' = [copied EXCEPT ![c] = s] /\ Goto(c, "save")
    /\ UNCHANGED <<disk, server, mine, loaded, token, cmd, tries, refreshed, link, seen, got,
                   applied, answered, calls>>

\* They are saved under the sign-in lock, which may be taken for too long.
Save(c) ==
    /\ pc[c] = "save"
    /\ copied' = [copied EXCEPT ![c] = 0]
    /\ \/ /\ SaveCookies(copied[c])
          /\ Install(c, copied[c])
          /\ Goto(c, "ready")
       \/ /\ Fail(c, "expired")
          /\ UNCHANGED <<disk, mine, loaded, token>>
    /\ UNCHANGED <<server, cmd, tries, refreshed, link, seen, got,
                   applied, answered, calls>>

-----------------------------------------------------------------------------
(* The person, and the rest of the world.                                  *)

\* The person confirms an upload, or does not; then its file may be unreadable.
Confirm(c) ==
    /\ pc[c] = "open" /\ Op(c) = "confirm"
    /\ \/ Proceed(c)
       \/ \E result \in {"cancelled", "failed"} : Finish(c, result)
    /\ UNCHANGED <<disk, server, mine, loaded, token, cmd, tries, refreshed, link, seen, got,
                   copied, applied, answered, calls>>

\* A process ends, and the next command has a client of its own.
NewClient(c) ==
    /\ pc[c] = "idle"
    /\ loaded' = [loaded EXCEPT ![c] = FALSE]
    /\ mine' = [mine EXCEPT ![c] = 0]
    /\ token' = [token EXCEPT ![c] = 0]
    /\ UNCHANGED <<disk, server, cmd, todo, pc, tries, refreshed, link, seen, got, copied,
                   outcome, applied, answered, calls>>

SessionEnds ==
    /\ \E s \in alive : alive' = alive \ {s}
    /\ UNCHANGED <<disk, issued, browser, mine, loaded, token, cmd, todo, pc, tries, refreshed,
                   link, seen, got, copied, outcome, applied, answered, calls>>

\* `auth login` of another process, or the person signs in in the browser.
SignInElsewhere ==
    /\ issued < MaxSessions
    /\ issued' = issued + 1
    /\ alive' = alive \union {issued'}
    /\ \/ SaveCookies(issued') /\ UNCHANGED browser
       \/ browser' = issued' /\ UNCHANGED disk
    /\ UNCHANGED <<mine, loaded, token, cmd, todo, pc, tries, refreshed, link, seen, got,
                   copied, outcome, applied, answered, calls>>

Advance(c) ==
    \/ Open(c) \/ Migrate(c) \/ Exchange(c) \/ Check(c) \/ Renew(c) \/ Copy(c) \/ Save(c)

Next ==
    \/ \E c \in Clients : Begin(c) \/ Advance(c) \/ Confirm(c) \/ NewClient(c)
    \/ SessionEnds
    \/ SignInElsewhere

Spec == Init /\ [][Next]_vars

\* Every request has a timeout and every wait between attempts a bound.
FairSpec == Spec /\ \A c \in Clients : WF_vars(Advance(c))

-----------------------------------------------------------------------------
(* Properties.                                                             *)

\* One command carries a write out at most once, whatever is lost, limited,
\* refused or expired on the way.
WrittenOnce == \A c \in Clients : applied[c] <= 1

\* What the person is told of a write is true: done means that D2L has it; an upload
\* that was cancelled or refused has not happened, nor has a creation said to have
\* failed, unless D2L's whole reply came and was too large to show.  Only an upload's
\* failure leaves it open.
OutcomeIsTrue ==
    \A c \in Clients :
        /\ outcome[c] = "done" /\ cmd[c] \in {"create", "submit", "start"} => applied[c] = 1
        /\ outcome[c] = "failed" /\ cmd[c] = "create" => applied[c] = 0 \/ answered[c]
        /\ outcome[c] \in {"cancelled", "refused"} => applied[c] = 0

\* No client signs in again, or copies a browser's session, unless the session it
\* used is over: a refusal of something else must not end in a sign-in.
RecoveryIsDue ==
    \A c \in Clients : pc[c] \in {"renew", "browser", "save"} => mine[c] \notin alive

\* The protection token a client holds is that of the session it uses.
TokenOfSession == \A c \in Clients : token[c] \in {0, mine[c]}

\* A list never holds a page twice, however the server writes its links.
EachPageOnce == \A c \in Clients : IsInjective(got[c])

\* Cookies sealed while a client was about to upgrade a legacy file stay.
UpgradeKeepsNewer ==
    [][\A c \in Clients :
          pc[c] = "migrate" /\ pc'[c] # "migrate" /\ disk.sealed => disk' = disk]_vars

\* Every command ends, or waits for the person's word.
CallsEnd ==
    \A c \in Clients : []<>(pc[c] = "idle" \/ (pc[c] = "open" /\ Op(c) = "confirm"))
=============================================================================
