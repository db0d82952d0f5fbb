# Formal model of lighthouse-cli

`lighthouse-cli` is a command line client for D2L Brightspace. A person (or a
cron job, or an agent) runs it to read courses, to keep a local copy of course
files, to hand in work, to take graded quiz attempts and, as an instructor, to
preview quizzes. It has no server of its own: every command is a short-lived
process, several may run at once, and all they share is a few files and what
Brightspace and Microsoft remember. What is hard about it is therefore between
the commands: what one leaves behind when it fails, is killed or never gets its
reply, and what the next one makes of it.

This directory holds TLA+ modules of those parts, TLC configurations that check
them on small instances, and TLAPS proofs for all instances of some of them.
`PROJECT.json` maps every definition to the source lines it stands for, and
lists the runs, a mutant for each property, the hazards and the findings.

## Inventory

Paths are under `src/lighthouse_cli/`.

| Component | State it keeps | Operations | What is hard | What makes it correct | Module |
|---|---|---|---|---|---|
| Unattended sign-in (`session_renewal`, `totp`) | `relogin.lock` (flock) and a thread lock per process, `relogin_state.json` (the breaker), `authenticator.json` (key and last step used), `cookies.json` | `renew_session`, `stored_authenticator_sign_in`, `store_authenticator`, `remove_authenticator`, `renewal_lock` | processes and threads race for two locks; kills between a password and its outcome; clocks that jump; waits for a fresh code | one sign-in at a time; a bad secret costs one refused sign-in, never more; no code sent twice; no sign-in over a session that works; nothing wedges | `SessionRenewal`, `SignInGate` |
| Authentication commands (`auth`, `session_import`) | none of their own | login, verify, status, totp-setup, totp-remove, import | they write cookies and clear the breaker under the same lock; a login is deferred and resumed later | as above and below | callers in `SessionRenewal`; planning, deferring, resuming in `MfaLogin` |
| Microsoft flow (`ms_auth`, `ms_mfa`, `ms_session`, `ms_errors`, `ms_parse`) | `mfa_pending.json` between login and verify | BeginAuth, EndAuth polls, ProcessAuth, the walk from SAML to cookies, the two-step login | a step after the accepted code fails; a killed process; a checkpoint of which half is from another challenge | a checkpoint is of one challenge, outlives every failure after an accepted code that can be resumed, and is gone once it expired | `MfaLogin`; what touches breaker and codes: `SessionRenewal` |
| Sealed store (`credential_store`, `config`, `connection`) | sealed JSON files, a key in the keyring or from a passphrase | preflight, save, load, remove, migrate | the keyring locks and unlocks; two processes create its key; a migration cut short | what was sealed opens with the source it names; loading locks nobody out | `SealedStore` |
| API client (`api`) | cookies of the process, their session's CSRF token, the cookie file | `_request`, `_do_request`, `_recover_session`, `_paginate_list`, the upgrade of a plain cookie file | retries of reads, never of writes; recovery once; 403 or expired; endless pages; a token of a session that is gone | a request that changes something is sent once; what a command reports is true | `RequestTransport` |
| Learner attempts (`quiz_learner_session`, `_transport`, `_finish`) | `learner-<course>-<quiz>.json` and its lock | start, page, images, answer, next, previous, submit, verify, forget | graded attempts are limited; every lost reply leaves the outcome open; time limits; the browser moves the same attempt; two accounts on one file | no second attempt by accident; no write after an unknown one; submitted only when verified; no request for a page the server did not show | `LearnerAttempt` |
| Instructor previews (`quiz_preview_session`, `_transport`, `_finish`) | `preview-<course>-<quiz>.json` and its lock | start, answer, next, page, submit, abandon, reconcile | a start's reply is lost and no attempt id is known; writes processed late; a 200 that took nothing | no start while one is in doubt; the checkpoint names the attempt its start created; the confirmed answer is the server's | `PreviewWorkflow` |
| Form protection (`request_protection`) | last tick and counter of a page | `next_hit_code` | more than ten codes per millisecond; a clock set back | no code twice per page | `FormProtection` |
| Course copy (`sync_engine`, `manifest`) | the course folder and `.lighthouse.json` in it | `sync`, `download`, `--force`, `--dry-run` | nothing locks the folder; the server changes under a run; name collisions; kills before the one save; the person's own edits | a complete run leaves every topic in step; what is skipped is current; topics never share a file | `CourseSync` |
| Assignment files (`assignments`) | the same manifest and folder | attachments of a course (sync, download, `--force`), of one folder | two attachments claim one path; entries of old releases without paths; the person's own files | no attachment overwrites another's file, or one of the person's; what is skipped is current | `AssignmentFiles` |
| Submission (`submit`) | none | one upload | an unknown outcome, then a second try | one POST per confirmation | a plan of `RequestTransport` |
| Attempt pages, forms (`quiz_attempt_page`, `quiz_learner_browser`) | none | parse pages, build form fields | untrusted HTML | a page is read or refused | input of the quiz modules |
| Tracked courses (`course_config`, `course_read_commands`) | one JSON file | list, add, remove | two commands at once | last save wins | not modelled: one interactive file |
| Displays (`show`, `display`, `quiz_math`) | none | read-only queries (five worker threads), formatting | - | - | not modelled: read-only |
| Quiz and assessment commands (`quiz_learner_commands`, `quiz_preview_commands`, `assessment_commands`, `assessment_api`, `quiz_rules`) | none | create a quiz or assignment and read it back; dispatch to the attempt commands | the reply of the creation is lost | created at most once, and reported as it is | `RequestTransport` (creation); the rest acts through the modules above |
| Command line (`cli`, `commands`, `utils`) | none | parsing, prompts, dispatch | - | - | its effects are in the modules above |

How they interact: every command builds an `api.LighthouseClient`, which reads
the cookies and, when a read finds the session expired, calls
`renew_session`, which drives the Microsoft flow under the sign-in lock; the
cookies come and go through the sealed store. Quiz
commands wrap the client's single requests in a checkpoint: *intent* is saved
before a request, its outcome after. Sync reads through the client and writes
files and the manifest by atomic replacement (`utils.atomic_write`), which all
modules take as one step; a bulk run ends with the assignment phase, which uses
the same folder and manifest.

## Modules

| Module | Stands for | State to code |
|---|---|---|
| `SignInGate` | what unattended sign-in promises | abstract |
| `SessionRenewal` | sign-in lock, breaker, code steps, cookies; calls from `api.py` and `auth.py` | `threadLock`/`fileLock`: the two locks; `breaker`, `totp`, `cookies`, `pending`: the files; `live`, `issued`: D2L; `pc`, `base`, `auth`, ...: a call's locals |
| `SessionRenewalProofs` | theorems about it | |
| `LearnerAttemptProofs`, `PreviewWorkflowProofs`, `RequestTransportProofs`, `MfaLoginProofs`, `CourseSyncProofs`, `AssignmentFilesProofs` | theorems about the six modules | |
| `WriteLedger` | what the checkpoint of an attempt promises: a write is intended, sent, then known or in doubt | abstract; `LearnerAttempt` and `PreviewWorkflow` define what it maps to at their end |
| `LearnerAttempt` | learner's commands, lock, checkpoint, server, browser | `cursor`: the file; `st`/`old`: `state`/`previous`; `status`, `owner`, `spot`, `past`, `inflight`: Brightspace |
| `CourseSync` | runs of `run_course`, manifest, folder, server, person | `saved`/`mem`: manifest on disk/in memory; `files`; `toc`; `owners`: `path_owners` |
| `PreviewWorkflow` | instructor's commands, checkpoint, server, browser | `file`: the checkpoint; `unresolved_start` is `file.marker`; `late`: requests still under way |
| `FormProtection` | `next_hit_code`; its theorems are at the end of `PreviewWorkflowProofs` | `lastTick`, `counter`, `holder`: the fields of the class |
| `RequestTransport` | clients of `api.py` and the commands made of their requests: reads, lists, creations, uploads, preview starts, session import | `disk`: `cookies.json`; `mine`, `loaded`, `token`: `_cookies`, `_loaded`, `_csrf_token`; `tries`, `refreshed`, `link`, `seen`, `got`: locals of the request and list loops; `alive`, `applied`: Brightspace |
| `MfaLogin` | second factor, the walk to D2L, login, verify, the checkpoint | `pending`: `mfa_pending.json`; `cookies`; `job`: a command's place, challenge, tokens, page and counters; `accepted`: Microsoft |
| `SealedStore` | key sources, sealing, opening, migration | `file`: the artifacts; `entry`, `ring`: the keyring's key and whether it answers; `job`: a call's locals |
| `SealedStoreProofs` | theorems about it | |
| `AssignmentFiles` | runs over the attachments, manifest, folder, server, person | `saved`, `run.mem`, `run.prior`: manifest on disk, to be saved, as found; `run.claimed`: `claimed_paths`; `run.asked`, `run.target`: the attachment awaited and the path of its `write_entry`; `files` |
| `MC*` | constants and symmetry for TLC | |

One action is one access to a shared file, or one request. Everything the code
does between two such points is in the action: a command refused before it
touched anything is no step. In `PreviewWorkflow` one `pc` serves all
processes, since a command holds the flock from its first read to its last
write and a second one is refused at once. In `LearnerAttempt` the same lock is
modelled, because there `forget` and commands of two processes alternate on a
checkpoint that another account may own. In `CourseSync`, `AssignmentFiles`,
`MfaLogin` and `SealedStore` nothing is locked, and each step interleaves with
whoever else is there: another run, the server, the person, a keyring that
locks itself.

The modules meet at what one takes from another as a single step.
`RequestTransport` takes `renew_session` as a step that saves a session, adopts
one saved meanwhile, or fails: `SessionRenewal` has its inside and, through
`SignInGate`, its promise. `SessionRenewal` in turn takes the pages of the flow
as the branch they lead to, which `MfaLogin` has, and a file of the sealed store
as readable or not, which `SealedStore` has. `CourseSync` and `AssignmentFiles`
are the two phases of a run; their manifests have no entry in common.

Definitions named `...Unread`, `...Unlocked`, `...Again` and so on, commented
"Faulty variant", are the mutants: a definition as a plausible bug would have
it. No specification uses them; with one in place of the original, TLC violates
the property it is paired with in `PROJECT.json`.

What is abstracted: cookies are a session number, page content is whether it
could be read, an answer is a choice or a request of a batch, a topic's bytes
are one of two or three values, a page of Microsoft's is the set of features the
code looks for, a key is a number, an error is the branch it takes. The six
blocking categories of the breaker are one. Several bounds count more than one
kind of event (`MaxMishaps`, `MaxEvents`, `MaxLost`): each hazard takes one
fault, of whatever kind, and the next steps of the code do the harm.

## Runs

| Run | Instance | Shows |
|---|---|---|
| `sign_in` | 2 threads of one process and 1 of another, 1 key, 1 session, 2 calls, steps of 2 ticks, clock to 2, 1 kill | one sign-in at a time, one strike at most, no code submitted twice, no sign-in over a live session, implements `SignInGate`; every call ends and frees both locks (liveness) |
| `attempt_commands` | 2 processes, 2 accounts, 2 attempts, 2 pages forward only, batches of 2, a deadline, 1 kill, change of account or checkpoint that a start cannot read | no second attempt as long as starts can read the checkpoint, implements `WriteLedger` (no write after one in doubt), submitted is verified, only shown pages requested, a start that has read the checkpoint keeps its attempt, only the deadline cuts a batch |
| `course_sync` | 1 process, 2 topics of one name (html and file), 2 directories, 1 change of the server, 1 kill or change by the person | a complete run puts every topic in step and the next is quiet; writing one topic never takes the other out of step |
| `course_two_runs` | 2 runs at once, 1 topic, 1 change of the server, 1 kill or change by the person at any step | what is skipped is current, even so |
| `preview_commands` | 2 accounts, 2 choices, 2 pages, 2 attempts, 1 loss or kill | no start in doubt, implements `WriteLedger`, the confirmed answer is the server's, the right attempt, verified submission |
| `hit_codes` | 2 threads, counter of 3 values, 5 clock values | no hit code twice |
| `requests` | 2 clients, one that writes and one that reads, 1 retry, lists of 2 pages (each addressed two ways), 2 sessions, 2 commands | no write sent twice, no result reported falsely (a creation told as failed was not carried out, or its reply came and was too large to show), recovery only when due, no token of another session, each page once, an upgrade keeps the newer file; every command ends (liveness) |
| `pending_login` | a person's process and a client's, 2 methods, 2 challenges, 2 polls, 2 hops, 1 reload, 3 commands, 1 kill | a checkpoint is of one challenge, its code fits its method, what Microsoft accepted is kept, what expired is not; every command ends (liveness) |
| `sealed_store` | 2 processes, 2 artifacts, 2 passphrases, 2 keys, 2 saves, 4 calls, 1 kill | the keyring's key opens what it sealed, a load locks nobody out, what names its source opens with it |
| `assignment_files` | 1 process, 2 attachments of one name, 2 directories, 3 bodies (two of one size), 1 change or kill | what is skipped is current, only the attachment's own recorded file is replaced, for an entry without a path no file that was there when the attachment was asked for, two whole syncs settle everything |

Two more runs expect a violation, `attempt_overwritten` and
`attachment_overwritten`; see Findings. The whole check takes over half an hour
on four cores, and the runs are few for that.

Why the bounds are enough. Each hazard needs at most two actors (two callers,
the CLI and the browser, two runs), two of what may be confused (attempts,
keys, topics, pages, challenges) and one fault. Bounds on calls, sessions and
attempts leave room for a fault, the recovery from it and one more command that
could do harm. Two choices and two bodies tell "unchanged" from "changed", the
third body is a change that keeps the size; three counter values let the counter
start anew in a short run. In `sign_in`, a sequence of two calls sees the second
come after, during or over the wreck of the first; longer sequences are covered
by the theorems, which hold for all values of the constants, in particular for
any number of calls, keys and sessions. `attempt_commands` has a forward-only
quiz, so `previous` is refused there: going back is the same code as going on
with the sign of the page changed. Every constant whose comment starts
with "bound:" is such a bound. Deadlock is checked in every run but `pending_login`, whose
bounds on challenges and commands let the system stop when all are used up.

### Findings

Runs that expect a violation, of something the repository's text says:

- `attempt_overwritten`: two accounts alternate on a checkpoint; another
  account replaces an *active* one, and the first account's next start takes a
  second graded attempt without `forget` (`quiz_learner_session.py:418`).
- `attachment_overwritten`: an attachment may claim the path its entry records
  after the same run has given that path, free because the person deleted the
  file, to another attachment; both are then reported and recorded there, and the
  first one's bytes are gone, though the claim is documented to keep manifest
  aliases from overwriting (`assignments.py:428`). Two later syncs repair it
  (`TwoSyncsSettle`).

Divergences the models have as behaviours, and no run states:

- `store_authenticator` says only totp-remove forgets used steps, and
  `docs/auth-unattended.md` that a step is never used twice; setting up key A,
  B and A again forgets A's step, and after a clock that went back it is sent
  again (`session_renewal.py:347`). `CodeNeverReplayed` leaves replaced keys
  out.
- A sign-in with the stored authenticator is documented never to touch the
  pending two-step checkpoint (`ms_auth.py:870`); when Microsoft answers the code
  with an expired password, it deletes it (`ms_auth.py:2464`).
- `docs/auth-microsoft-sso.md` says to run `auth verify` again when it failed
  before the cookies were saved; when it is their saving that failed, the
  checkpoint has been cleared before, and the second verify finds none.
- The README says that orphaned files are not deleted automatically; a topic
  that moves to the orphan's name is written over it (`sync_engine.py:866`).
- `submit.py:158` says that callers must not be told to retry an upload blindly;
  an upload whose reply is lost ends as a plain network error, which says
  nothing of the file that may have arrived.
- `_intent` restores the checkpoint on failures "before the request was sent";
  when the deadline passes inside a batch, answers were sent before
  (`quiz_learner_transport.py:635`). `OnlyTimeCutsABatch` shows that this is
  the only way, and that what was sent is settled.
- `docs/agent-quizzes.md:155` says to stop on an unreadable checkpoint and to
  inspect the attempt first. `start` takes a checkpoint it cannot open, or that
  is not valid, for none (`quiz_learner_session.py:413`): it is not bound to
  continue, may use another graded attempt without `forget`, puts its intent
  over that checkpoint, and removes it when the start is refused
  (`quiz_learner_session.py:471`). `RunUnread` is such a start;
  `OneUnsettledAttempt` and `KeepsItsAttempt` leave out what it does to the
  checkpoint it has not read (`ReplacesUnread`), and nothing else.
- A quiz or assignment that was created, but whose reply is too large or too deep
  to show (`assessment_api.py:133`), is told as a plain failure
  (`assessment_commands.py:38`), which says nothing of what now exists.
  `OutcomeIsTrue` says what is left: a creation told as failed was not carried
  out, or its reply came and could not be shown.
- `_write_entry_for_claim` is documented to reuse a legacy entry's path only when
  no local file would be replaced (`assignments.py:443`). It looks before the
  attachment is requested (`assignments.py:454`), and the answer is written
  without another look (`assignments.py:504`): a file that appears there
  meanwhile is replaced. `Ask` and `Download` are the two steps;
  `UnownedFilesStay` keeps the files that were there when the attachment was
  asked for.
- `docs/agent-quizzes.md` says no attempt changes are sent after expiry; next,
  previous and submit check the deadline once, before their requests
  (`quiz_learner_session.py:378`).

## Fairness

Three runs are about liveness, `sign_in` and `requests` (`CallsEnd`) and
`pending_login` (`CommandsEnd`): every command comes back. Their `FairSpec`
assumes weak fairness of each caller's `Advance`: a caller that can take a step
does so in time. The code justifies it: waits for the lock are polls with a
deadline and end in `busy`, waits for a code end after one period and its slack,
every request has a timeout, and no caller waits for another except by polling.
`FairSpec` assumes nothing of the clock, of answers, of a keyring, or of a
person: that the loops end although answers may be anything is what these
properties show (retries, recoveries, pages, polls, hops and reloads are all
counted or remembered). Kills are in all three; a killed process frees its
flock. The quiz, sync, store and form modules state no liveness: a command ends
by the same timeouts, and no command waits for another.

## Proofs

The eight `...Proofs` modules are checked by TLAPS, for all values of the
constants that meet the modules' named assumptions: processes, threads, keys,
accounts and choices are any sets, the bounds and the clock's constants natural
numbers, a passphrase's key none of the keyring's, no choice or process the
value that stands for none, a list has at least one page, a client runs the
commands there are (`CommandAssumption`), Microsoft serves pages made of the
features the code looks for (`ServedAssumption`), a course has finitely many
topics, with positive ids (`TopicAssumption`), and finitely many attachments, more
than one (`NumberAssumption` of `AssignmentFiles`). TLC evaluates each of them on the
runs. Three hypotheses are stated in the theorems that need them: `OneAccount`,
`OnePerson` and `OneRun`, below.

Each proof has the same shape. The safety properties are not inductive; `IInv`
says in addition what every process knows of the shared files at each place of
its code. A lemma per action shows that its step keeps `TypeOK` and `IInv`;
`NextHolds` or `Inductive` collects them, `Invariance` is the theorem, and each
property follows from `IInv`, an action property from `IInv` and one step. TLC
has checked each `IInv` on the instance of its run before it was proved.

`SessionRenewal`. `OneSignInAtATime`, `AtMostOneStrike`, `CodeNeverReplayed`
and `NoSignInOverLiveSession` are not inductive: that the file lock's holder is
the only one past the lock says nothing about where calls of each kind can be,
and that there was one strike says nothing about what keeps the next away.
`IInv` adds what each call knows:

- `LockInv`: being past the lock and holding the flock are the same;
- `PlaceInv`: which kinds of call reach which places;
- `StrikeInv`: a strike is covered by a block, an automatic call that has sent
  the password has the block on disk, and a call that may write an earlier
  breaker back knows that it was no block;
- `CodeInv`: each code known to Microsoft is at or below the recorded step of
  its key, and the step about to be sent has been recorded;
- `SessionInv`: an automatic caller past the reuse check has seen the saved
  session dead.

Each part has a lemma with one step per action; `Inductive` collects them, and
`TypeCorrect`, `MutualExclusion`, `OneStrike`, `NoReplay`, `Reuse` follow.
`ImplementsSignInGate` shows that each step of the code, under the mapping of
lock, call kind and breaker to `holder`, `role` and `gate`, is a step of
`SignInGate` or a stutter; it needs the same invariant. The fairness of
`FairSpec` plays no part in these.

`FormProtection`, in `PreviewWorkflowProofs`. Who has read the clock holds the lock,
so its reading is not before the last code's tick (`CriticalSection`); a code drawn
then is later than all of before, by tick or by counter (`CodeIsLater`).
`HitInvariance` and `CodesAreFresh` follow, for any number of threads and digits and
any clock.

`SealedStore`. What a call has read may be old when it acts on it: another call
may have replaced the file, or a race the keyring's key. `IInv` says what stays
true all the same, because keys only get newer:

- `EntryInv`, `FileInv`: the entry is the key generated last, and what is sealed
  has a key, of the keyring's none newer than the entry;
- `JobsInv`: a load knows which source the document it read names, its key is not
  older than the document's, and only a load of the old form gets to seal;
- `OnceInv`: unless there was a race, nobody is creating a key while there is
  one, and whatever is or will be sealed with the keyring has the entry's key.

`KeyIsKept` follows from `OnceInv`. `LoadsAreHarmless` and `SourceOpens` are
action properties: a migration by a load that could open the document seals with
a key between the document's and the entry's, so if the two are equal nothing
changes; a load whose key failed holds one newer than the document's, so the
entry is newer too. Neither excludes races.

`PreviewWorkflow`. One command at a time holds the flock, so the invariant is
about the checkpoint and the server; what breaks knowledge is a lost reply, a
kill, a browser, and `abandon` and `reconcile`.

- `FileInv`: what the checkpoint names exists, is its account's and new, its page
  is not ahead, its choice is the server's unless that attempt was touched;
- `OldInv`: the same of the checkpoint a refused write puts back;
- `PlaceInv`: a command that is about to send has its intent on disk, and nothing
  in doubt for what it writes;
- `UnseenInv`, `DoubtInv`: an attempt nobody has named, and a write nobody knows
  the outcome of, is one the file is marked unresolved for.

`StartsKnowing`, `WritesKnowing`, `AnswersHold`, `CursorBehind`,
`SubmittedHolds` and `BindsItsOwn` follow: the five invariants of the run, and
`NoWriteInDoubt`.

`RequestTransport`. A command is a list of requests; `RunInv` says that what is left
of it is a rest of its plan and that a command still under way has carried nothing
out and told nothing, so the one request that writes is sent once (`AtMostOnce`) and
what is told at the end is true (`ToldTruly`): done is done, and a creation told as
failed was not carried out or was answered (`answered`), so that only its showing
failed. `SessionInv` has the token and the cookies of a session that was issued, and
a client that recovers refused (`RecoversTheDead`, `TokensAreCurrent`), `ListInv`
the pages of a list among those it has seen (`PagesOnce`). `UpgradesKeepNewer` is
the action property. Its proof showed that `Apply` had said nothing of the reply to
a read, and the model was corrected. It also needs a list to have a first page.

`LearnerAttempt`. Several processes alternate on a checkpoint, but the one past the
lock has it as the file has it (`Read`), or is a start that could not read it
(`Unread`) and takes it for none until its intent replaces it (`LockInv`);
`StartInv` and `WriteInv` are what it knows at each place of a start and of the
other commands, `Fits` what holds of every checkpoint on disk: the page was shown,
an active one has no write in doubt, a submitted one is. `WritesKnowing`,
`SubmittedHolds`, `PagesWereShown` and the action properties `NeverAnother` and
`BatchesAreCutByTime` hold for any number of accounts. `OneAtATime` is
`OneUnsettledAttempt` under `OneAccount`: with two it is false, as
`attempt_overwritten` shows. It has an invariant of its own, `TakenInv`: what the
CLI answers for is the attempt of the checkpoint, or of the start under way.
`NeverAnother` and `OneAtATime` say nothing of an attempt whose checkpoint a start
replaced unread: the code does leave it (see Findings).

`WriteLedger`, in both. A ledger has one entry, blank, clear or pending, the thing
it is about, and the writes in doubt. An intent makes the entry pending before
anything is sent; only reading back takes a write out of doubt; a pending entry
becomes clear by that, or by withdrawing what was not sent, and leaves its thing
otherwise only when a person forgets it, or a start replaces it unread
(`Overwrite`); both keep the doubt. `LedgerPromise`
says what follows: what is sent is in the file, and nothing is sent while the
last write to the same thing is in doubt. `ImplementsWriteLedger` of each proofs
module maps every step to one of these or a stutter. A checkpoint that is absent,
submitted or abandoned is blank. For the instructor a start is a write to no
attempt yet, so `abandon` keeps it in doubt until `reconcile`; for the learner it
is none, since starting again continues the same attempt, and the ledger takes
its reply for what names the entry. Each mapping needs one fact that the
invariants above do not have: `OverInv`, a submitted attempt is in no doubt, and
`BeforeInv`, what a refused command would write back is of the same attempt. Two
more mutants, `SealAny` and `CandidatesOfAnyAge`, also break the refinement.

`MfaLogin`. Between `auth login` and `auth verify` only the checkpoint remembers;
`PendingInv` says that it is of one challenge, `Shape` what a command has in hand
at each place, `Fits` that a code of the app is for a challenge of the app, and
`Holds` what a command of the person knows of a checkpoint no one else creates:
it is gone or of the command's own challenge, it has no tokens when it is about
to be discarded, and it is gone once an expired password was seen.
`OneChallenge`, `CodesFit`, `TokensStay` and `ExpiredGoes` are proved under
`OnePerson`: one process runs the commands that write a checkpoint, and any
number sign in with the stored authenticator or the browser. It is needed, since
nothing locks `update_mfa_pending`. The proof showed that `Outcome` took a page
with an assertion for one of an expired password's, which `classify_post_mfa`
does not; `Expired` is the correction, and the run now has such a page.

`CourseSync`. A manifest, on disk or in memory, is believed by runs that did not
write it, so the first invariant is about all of them.

- `CurrentInv`: the bytes any manifest records of a topic are bytes the topic has
  had at the recorded date or since (`Known`), and so are those a run has just
  downloaded, of the date of the tree it read. No lock is needed for this: every
  run writes entries of bytes it downloaded itself. `SkipsForCurrentBytes`
  (`SkipsAreCurrent`) follows for any number of runs, kills and edits.
- `OwnInv`: a path recorded for one topic alone is that topic's in `path_owners`,
  a path in memory is its topic's or contested, and the path about to be written
  is the topic's.
- `QuietInv`: a run that nothing interfered with has the server's tree, and each
  topic it is done with, or that was in step before, is in step in its manifest at
  a path it owns (`Keeps`); nothing was done that it will not save.

`CompleteRunsAreInSync` (`CompleteRunsSync`) follows for any number of processes,
because a run that overlaps another counts as interfered with, and unsettles
what was settled. This is needed: a download may give a topic's copy
a freed name which the other run, with its own map of owners, gives to another
topic. For the same reason `NoTopicTakesAnothers` (`TopicsDoNotCollide`) has the
hypothesis `OneRun`: one process works on the folder. `OwnersOf` needs a least
topic id, which `Least` proves of every finite set of numbers.

Preparing the proof showed that `TopicsDoNotCollide` had held because of the run's
bound of one change: with two, a topic that moves away and back around a `--force`
run, which reads the tree in between, is not owned in that run's map at the path it
is recorded at, and another topic is written there. The property now says what the
code does provide: it speaks of topics that lie where the run's tree has them.

`AssignmentFiles`. Two attachments of one name may have entries that name one
path, entries of an old release have none, and a kill leaves files nobody owns; yet
two undisturbed syncs put everything right. The invariant says why, in two parts.

- `HadInv`: the bytes any manifest records of an attachment, on disk or in a run,
  are bytes it has had. `SkipsAlwaysCurrent` follows, and needs nothing else.
- `SettleInv`: what a sync that is alone and undisturbed knows (`SyncInv`), and what
  the last ones left (`QuietInv`). In a first sync, each attachment the run is done
  with gets an entry of its folder, of the size the server has, with some file at
  its path (`Settled`); two may still share it, as `attachment_overwritten` shows.
  In a second, every claim is of a recorded path that has a file, so a fresh path is
  nobody's: the run's paths, each the recorded one or nobody's, differ, and have the
  bytes recorded (`Apart`, `OwnClaim`). In a third, each attachment's file matches at
  a path it can claim, so nothing is written (`NothingToWrite`), and what the second
  left stays. `TwoSyncsSettleAlways` follows.

It holds for any number of processes, as a run that overlaps another counts as a
disturbance of both. `UnownedFilesAlwaysStay` rests on `AskInv`, what a run knows
while it awaits an attachment: the path to be replaced is one it claimed, for an
entry without a path one that had no file then. After two quiet syncs nothing is
asked for. `MinIsIn` and `MaxIsIn` prove of the library's `Min` and `Max` what the
free name and an old folder's files need.

Only model-checked: liveness (`CallsEnd` of two runs and `CommandsEnd`), which is
out of the prover's reach. Every other property of a passing run is a theorem.

## Assumptions and what is left out

- A file is replaced as a whole (`atomic_write`), a flock ends with its process.
- `SessionRenewal`: Microsoft refuses or accepts at will; a code is known by its
  key and step. The HMAC, the pages of the flow and prompts are left out.
- `LearnerAttempt`: a checkpoint is unreadable to one command, as when the
  passphrase it was sealed with is not at hand, and may be readable to the next;
  every command but `start` and `forget` then ends before it has done anything,
  which is no step, and `forget` removes it unread. Brightspace continues an open
  attempt instead of creating a second one for the same account, as
  `quiz_learner_transport.py` relies on.
- `PreviewWorkflow`: an operator who reconciles or abandons tells the truth
  about the browser, and the list of attempts read before a start is complete;
  a request that creates a preview does so when sent, never later. A save whose
  reply was lost may arrive late and overwrite a later answer: the model shows
  it, and `ConfirmedAnswerHolds` excludes those attempts.
- `CourseSync`: the traversal of the content tree (its depth and node bounds)
  is the set of topics it yields, or its failure; dry runs change nothing. Two runs
  at once may leave one topic's file under another's entry (no lock,
  `sync_engine.py:820`); the next sync notices, as `SkipsAreCurrent` holds.
- `AssignmentFiles`: a run claims a path, and looks whether a legacy one is free,
  before it asks for an attachment (`Ask`); with the answer it chooses a new path if
  it claimed none, and writes (`Download`). The server, the person, a kill and
  another run come between the two. The choice of a new path and the write to it are
  one step, as no request lies between these; two runs at once on one folder are
  checked in `CourseSync` only. The code does not notice a replacement of the same
  size, and `SkipsAreCurrent` says what a skip then means. The checks of symbolic
  links and unsafe names are left out.
- `RequestTransport`: the two links of a page stand for spellings the code brings
  to one form, by scheme, host, port and the base of a relative link
  (`api.py:784`); a server that spells one page in other ways without end is
  stopped by the bound on pages. Session numbers never come back to life; a browser import
  may overwrite a newer saved session, as the code does. The client's cache of
  courses is left out.
- `MfaLogin`: one process runs the commands that checkpoint. Nothing locks
  `update_mfa_pending` (`config.py:417`), and two persons' commands at once can
  mix two challenges; the run has one such process and one that signs in
  automatically. What `plan_login` has checked is read again by verify, and may
  be another checkpoint by then. A keyring that fails during that reading makes
  the code discard a checkpoint that had been accepted; `AcceptedIsKept` leaves
  that out.
- `SealedStore`: the cipher is perfect. Two processes that both find no key in
  the keyring each create one, and what the first has sealed with its own is
  lost; `raced` marks these behaviours and `KeyringStaysGood` leaves them out.
  The migration of old credentials is unlocked, and may write an older value
  over a newer save.
- `FormProtection`: of the milliseconds eight digits are sent, so codes repeat
  after 27 hours, longer than a page lives.
- Links and the permission checks on files, parsing, formatting and wording are
  not modelled.

## Plan

In order of importance; all but 10 are done.

1. `SessionRenewal` with `SignInGate`, proofs of its safety and refinement.
2. `LearnerAttempt`.
3. `CourseSync`.
4. `PreviewWorkflow`.
5. `FormProtection` with proofs.
6. `RequestTransport`, with submission and the creation of assessments.
7. `MfaLogin`.
8. `AssignmentFiles`.
9. `SealedStore` with proofs.
10. Pure algorithms against reference definitions: traversal of the content tree
    with its bounds, the choice of a free file name.
11. Proofs of `PreviewWorkflow`, `RequestTransport`, `LearnerAttempt` and
    `MfaLogin` (done).
12. Proofs of `CourseSync` and of `AssignmentFiles` (done).
13. `WriteLedger`, the abstract promise both quiz modules make (a write is
    intended, sent, known or in doubt, and none follows one in doubt), with
    `LearnerAttempt` and `PreviewWorkflow` shown to implement it (done).
