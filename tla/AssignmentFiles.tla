-------------------------- MODULE AssignmentFiles --------------------------
(***************************************************************************)
(* The attachments of a course's assignment folders, copied under          *)
(* Assignments/ by assignments.py: with the bulk commands (sync, download  *)
(* and download --force, which sync_engine.py's run_course ends with) and  *)
(* one at a time.                                                          *)
(*                                                                         *)
(* Each attachment stands in an assignment folder of its own; two folders  *)
(* may have the same name, and so share a directory.  Bytes are numbers,   *)
(* two to a size; 0 is no file.  A file name is the server's and the       *)
(* number disambiguate_filename appends.  The manifest entries of releases *)
(* before paths were recorded have none ("legacy").  A run takes the       *)
(* attachments in the order the server lists them, any order here, and     *)
(* saves the manifest at its end.  What it makes of the folder before it   *)
(* asks for an attachment, and what it does with the answer, are two       *)
(* steps: the path a legacy entry may have is chosen in the first.         *)
(***************************************************************************)
EXTENDS Integers, FiniteSets, FiniteSetsExt

CONSTANTS
    Procs,      \* lighthouse processes
    Atts,       \* attachments: positive integers
    Dirs,       \* directories, named after assignment folders
    NoDir,      \* not a directory
    Names,      \* file names the server gives
    Bodies,     \* bytes: positive integers
    MaxTries,   \* bound: numbers appended to a name
    MaxEvents   \* bound: changes of the server, or by the person, and runs killed

ASSUME NumberAssumption ==
    /\ Atts \subseteq Nat \ {0} /\ IsFiniteSet(Atts) /\ Cardinality(Atts) > 1
    /\ Bodies \subseteq Nat \ {0}
    /\ {MaxTries, MaxEvents} \subseteq Nat
ASSUME DirAssumption == NoDir \notin Dirs

VARIABLES
    server,   \* the attachments: live or not, the directory of the folder, name, bytes
    had,      \* history: all the bytes each attachment has had
    files,    \* the course folder
    saved,    \* the manifest on disk
    run,      \* what each process is at
    quiet,    \* history: undisturbed whole syncs without error in a row
    events    \* changes and crashes so far

vars == <<server, had, files, saved, run, quiet, events>>

Size(body) == body \div 2
Paths      == Dirs \X Names \X (0 .. MaxTries)
Attachment == [live : BOOLEAN, dir : Dirs, name : Names, body : Bodies]
Entry      == [legacy : BOOLEAN, path : Paths, body : Bodies \union {0}]
NoEntry    == [legacy |-> FALSE, path |-> <<NoDir>>, body |-> 0]
Empty      == [a \in Atts |-> NoEntry]
Manifests  == [Atts -> Entry \union {NoEntry}]

NoList == [a \in Atts |-> [live |-> FALSE, dir |-> NoDir,
                           name |-> CHOOSE n \in Names : TRUE,
                           body |-> CHOOSE b \in Bodies : TRUE]]

\* A run: the folders it was given, the attachments still to take, the manifest it
\* found and the one it will save, the paths claimed; the attachment it has asked for,
\* if any, and the path that may be replaced by it; whether it wrote or adopted a
\* file, had an error, found a manifest; history: the paths that had no file when it
\* asked, the paths it wrote or kept, and whether it may still count as a whole,
\* undisturbed sync.
Run  == [pc : {"idle", "load", "list", "take", "finish"},
         mode : {"sync", "download", "force", "single"},
         wanted : SUBSET Atts, listed : [Atts -> Attachment] \union {NoList}, todo : SUBSET Atts,
         prior : Manifests, mem : Manifests, claimed : SUBSET Paths,
         asked : SUBSET Atts, target : SUBSET Paths, vacant : SUBSET Paths,
         dirty : BOOLEAN, failed : BOOLEAN, existed : BOOLEAN,
         mine : SUBSET Paths, alone : BOOLEAN]

Idle == [pc |-> "idle", mode |-> "sync", wanted |-> {}, listed |-> NoList, todo |-> {},
         prior |-> Empty, mem |-> Empty, claimed |-> {},
         asked |-> {}, target |-> {}, vacant |-> {}, dirty |-> FALSE,
         failed |-> FALSE, existed |-> FALSE, mine |-> {}, alone |-> FALSE]

TypeOK ==
    /\ server \in [Atts -> Attachment]
    /\ had \in [Atts -> SUBSET Bodies]
    /\ files \in [Paths -> Bodies \union {0}]
    /\ saved.state \in {"absent", "corrupt", "good"} /\ saved.entries \in Manifests
    /\ run \in [Procs -> Run]
    /\ quiet \in 0 .. 2
    /\ events \in 0 .. MaxEvents

\* The folder is new, or has the files and entries of an old release, which did not
\* keep attachments of one name apart.
Init ==
    /\ server \in [Atts -> {a \in Attachment : a.live}]
    /\ had = [a \in Atts |-> {server[a].body}]
    /\ \E old \in SUBSET Atts :
          LET at(a) == <<server[a].dir, server[a].name, 0>>
              on(q) == {a \in old : at(a) = q}
          IN /\ saved = [state |-> IF old = {} THEN "absent" ELSE "good",
                         entries |-> [a \in Atts |->
                             IF a \in old
                             THEN [legacy |-> TRUE, path |-> at(a), body |-> server[a].body]
                             ELSE NoEntry]]
             /\ files = [q \in Paths |->
                            IF on(q) = {} THEN 0 ELSE server[Max(on(q))].body]
    /\ run = [p \in Procs |-> Idle]
    /\ quiet = 0
    /\ events = 0

-----------------------------------------------------------------------------
(* The manifest's paths.                                                   *)

\* _manifest_attachment_path, for the directory of the attachment's folder: the
\* recorded path if it is in it, a legacy entry's name there.  No path is {}.
PathIn(entry, dir) ==
    CASE entry.body = 0 -> {}
      [] entry.body # 0 /\ entry.legacy -> {<<dir, entry.path[2], entry.path[3]>>}
      [] OTHER -> IF entry.path[1] = dir THEN {entry.path} ELSE {}

\* _assignment_path_owners: the attachments whose entries record the path; two
\* contest it.
Owners(manifest, q) ==
    {a \in Atts : manifest[a].body # 0 /\ ~manifest[a].legacy /\ manifest[a].path = q}

\* Faulty variant: a path claimed already can be claimed again.
ClaimTwice(r, a) ==
    {q \in PathIn(r.prior[a], r.listed[a].dir) :
        \/ Owners(r.prior, q) = {a}
        \/ r.mode # "single" /\ Cardinality(Owners(r.prior, q)) # 1}

\* _claim_assignment_entry: its own path, or in a bulk run one that is nobody's or
\* contested and not claimed yet.
Claim(r, a) ==
    {q \in PathIn(r.prior[a], r.listed[a].dir) :
        \/ Owners(r.prior, q) = {a}
        \/ r.mode # "single" /\ Cardinality(Owners(r.prior, q)) # 1 /\ q \notin r.claimed}

\* Faulty variant: the digest is not compared.
MatchesBySize(r, a) ==
    {q \in Claim(r, a) :
        /\ r.mode \in {"sync", "download"}
        /\ Size(r.listed[a].body) = Size(r.prior[a].body)
        /\ files[q] # 0 /\ Size(files[q]) = Size(r.prior[a].body)}

\* _matching_local_attachment: of the size the server lists, with the recorded bytes.
Matches(r, a) ==
    {q \in Claim(r, a) :
        /\ r.mode \in {"sync", "download"}
        /\ Size(r.listed[a].body) = Size(r.prior[a].body)
        /\ files[q] = r.prior[a].body}

\* Faulty variant: what a legacy entry names is replaced.
ReplaceLegacy(r, a) == Claim(r, a)

\* _write_entry_for_claim: the path it may replace; a legacy one only if no file is
\* there.
Replaces(r, a) == {q \in Claim(r, a) : r.prior[a].legacy => files[q] = 0}

\* disambiguate_filename: the first name no file and no claim has.
FreshPath(r, a) ==
    LET path(k) == <<r.listed[a].dir, r.listed[a].name, k>>
        free    == {k \in 0 .. MaxTries :
                       files[path(k)] = 0 /\ path(k) \notin r.claimed \union Claim(r, a)}
    IN  IF free = {} THEN {} ELSE {path(Min(free))}

-----------------------------------------------------------------------------
(* A run.                                                                  *)

At(p, place) == run[p].pc = place

\* With nobody else running.
Alone(p) == \A q \in Procs \ {p} : At(q, "idle")

\* Two runs at once, or any change by the server or the person, are a disturbance.
Disturbed == [p \in Procs |-> [run[p] EXCEPT !.alone = FALSE]]

\* A run of chosen folders, or of one attachment, reads the folders first; the others
\* load the manifest first.
Selected(r) == r.wanted # Atts

Begins(p, m, wanted) ==
    /\ At(p, "idle")
    /\ run' = [Disturbed EXCEPT ![p] =
                  [Idle EXCEPT !.pc = IF wanted = Atts THEN "load" ELSE "list",
                               !.mode = m, !.wanted = wanted, !.alone = Alone(p)]]
    /\ quiet' = IF Alone(p) /\ m = "sync" THEN quiet ELSE 0
    /\ UNCHANGED <<server, had, files, saved, events>>

\* sync, or a download of all folders or of a chosen one.
Start(p) ==
    \/ Begins(p, "sync", Atts)
    \/ \E m \in {"download", "force"} :
          Begins(p, m, Atts) \/ \E a \in Atts : Begins(p, m, {a})

\* download_single_attachment never skips, and claims no contested path.
StartSingle(p) == \E a \in Atts : Begins(p, "single", {a})

\* The rest of the attachments, or the end, for which only the new manifest matters.
Goes(r) ==
    IF r.todo # {} THEN [r EXCEPT !.pc = "take"]
    ELSE [r EXCEPT !.pc = "finish", !.listed = NoList, !.prior = Empty,
                   !.claimed = {}, !.mine = {}]

Found == IF saved.state = "good" THEN saved.entries ELSE Empty

\* --force starts from no entries but keeps to the paths of before; a corrupt
\* manifest counts as none, and ends the download of a single attachment.
Load(p) ==
    /\ At(p, "load")
    /\ LET r == [run[p] EXCEPT !.prior = Found,
                               !.mem = IF run[p].mode = "force" THEN Empty ELSE Found,
                               !.existed = saved.state # "absent",
                               !.failed = @ \/ (saved.state = "corrupt"
                                                 /\ run[p].mode # "force")]
       IN run' = [run EXCEPT ![p] =
              CASE ~Selected(r) -> [r EXCEPT !.pc = "list"]
                [] r.mode = "single" /\ saved.state = "corrupt" -> Idle
                [] OTHER -> Goes(r)]
    /\ UNCHANGED <<server, had, files, saved, quiet, events>>

\* The wanted attachments the server has, from the list of the folders or the detail of
\* a folder listed without them.
Live(wanted) == {a \in wanted : server[a].live}

\* _preflight_assignment_selector: a run ends before it has done anything when the
\* folder it was given is not listed.  A folder may be there without the attachment.
Preflight(r) ==
    IF r.todo = {} /\ r.mode = "single" THEN {Idle}
    ELSE {[r EXCEPT !.pc = "load"]} \union (IF r.todo = {} THEN {Idle} ELSE {})

\* The folders are read.
List(p) ==
    /\ At(p, "list")
    /\ LET r == [run[p] EXCEPT !.listed = server, !.todo = Live(run[p].wanted)]
       IN \E s \in IF Selected(r) THEN Preflight(r) ELSE {Goes(r)} :
             run' = [run EXCEPT ![p] = s]
    /\ UNCHANGED <<server, had, files, saved, quiet, events>>

\* The folders cannot be read: a whole run has an error and no attachments.
ListFails(p) ==
    /\ At(p, "list")
    /\ run' = [run EXCEPT ![p] =
           IF Selected(@) THEN Idle ELSE [@ EXCEPT !.pc = "finish", !.failed = TRUE]]
    /\ UNCHANGED <<server, had, files, saved, quiet, events>>

\* The path a run claims for an attachment is its own from here on.
Claimed(r, a) == [r EXCEPT !.claimed = @ \union Claim(r, a), !.todo = @ \ {a},
                           !.asked = {}, !.target = {}, !.vacant = {}]

\* The next attachment, once the answer for the one before is dealt with.
Takes(p, a) == At(p, "take") /\ run[p].asked = {} /\ a \in run[p].todo

\* The file is as recorded: the entry takes its path.
Skip(p, a) ==
    /\ Takes(p, a)
    /\ LET r == run[p]
       IN \E q \in Matches(r, a) :
             run' = [run EXCEPT ![p] =
                 Goes([Claimed(r, a) EXCEPT
                          !.mem[a] = [@ EXCEPT !.legacy = FALSE, !.path = q],
                          !.dirty = @ \/ r.prior[a].legacy,
                          !.mine = @ \union {q}])]
    /\ UNCHANGED <<server, had, files, saved, quiet, events>>

\* The file is not as recorded: the attachment is asked for, and if there is a path
\* that may be replaced, that is where the answer will go.
Ask(p, a) ==
    /\ Takes(p, a)
    /\ Matches(run[p], a) = {}
    /\ LET r == run[p]
       IN run' = [run EXCEPT ![p] =
              [r EXCEPT !.asked = {a}, !.target = Replaces(r, a),
                        !.vacant = {q \in Paths : files[q] = 0}]]
    /\ UNCHANGED <<server, had, files, saved, quiet, events>>

\* _download_and_record: the bytes the server has now replace whatever file is at that
\* path by now, or go to a new name.
Download(p, a) ==
    /\ At(p, "take")
    /\ a \in run[p].asked
    /\ server[a].live
    /\ LET r == run[p]
       IN \E q \in IF r.target # {} THEN r.target ELSE FreshPath(r, a) :
             /\ files' = [files EXCEPT ![q] = server[a].body]
             /\ run' = [run EXCEPT ![p] =
                    Goes([Claimed(r, a) EXCEPT
                             !.claimed = @ \union {q},
                             !.mem[a] = [legacy |-> FALSE, path |-> q, body |-> server[a].body],
                             !.dirty = TRUE,
                             !.mine = @ \union {q}])]
    /\ UNCHANGED <<server, had, saved, quiet, events>>

\* The request, or the write, fails: bulk runs go on, a single one ends.
DownloadFails(p, a) ==
    /\ At(p, "take")
    /\ a \in run[p].asked
    /\ run' = [run EXCEPT ![p] =
           IF @.mode = "single" THEN Idle ELSE Goes([Claimed(@, a) EXCEPT !.failed = TRUE])]
    /\ UNCHANGED <<server, had, files, saved, quiet, events>>

\* The folder's detail cannot be read: a bulk run goes on without its attachments.
FolderFails(p, a) ==
    /\ Takes(p, a)
    /\ run[p].mode # "single"
    /\ LET r == run[p]
       IN run' = [run EXCEPT ![p] = Goes([r EXCEPT !.todo = @ \ {a}, !.failed = TRUE])]
    /\ UNCHANGED <<server, had, files, saved, quiet, events>>

\* Manifest.save replaces the manifest as a whole.
Save(entries) == saved' = [state |-> "good", entries |-> entries]

\* The manifest is saved when an attachment or a topic was written or a path changed,
\* and when --force had no error.  A whole sync without error counts.
Finish(p) ==
    /\ At(p, "finish")
    /\ LET r == run[p] IN
       /\ \E topics, bad \in BOOLEAN :
             IF \/ r.dirty
                \/ r.mode # "single" /\ topics
                \/ r.mode = "force" /\ r.existed /\ ~r.failed /\ ~bad
             THEN Save(r.mem) ELSE UNCHANGED saved
       /\ quiet' = IF r.mode = "sync" /\ ~r.failed /\ r.alone
                   THEN IF quiet = 2 THEN 2 ELSE quiet + 1 ELSE 0
    /\ run' = [run EXCEPT ![p] = Idle]
    /\ UNCHANGED <<server, had, files, events>>

\* One more of the things that go wrong.
Event == events < MaxEvents /\ events' = events + 1

\* The process is killed, or cannot save the manifest.
Crash(p) ==
    /\ ~At(p, "idle")
    /\ Event
    /\ run' = [run EXCEPT ![p] = Idle]
    /\ quiet' = 0
    /\ UNCHANGED <<server, had, files, saved>>

-----------------------------------------------------------------------------
(* The server and the person.                                              *)

\* The teacher replaces, renames or removes the attachment, or renames its folder.
ServerChanges(a) ==
    /\ Event
    /\ server[a].live
    /\ \/ \E b \in Bodies \ {server[a].body} : server' = [server EXCEPT ![a].body = b]
       \/ \E m \in Names \ {server[a].name} : server' = [server EXCEPT ![a].name = m]
       \/ \E d \in Dirs \ {server[a].dir} : server' = [server EXCEPT ![a].dir = d]
       \/ server' = [server EXCEPT ![a].live = FALSE]
    /\ had' = [had EXCEPT ![a] = @ \union {server'[a].body}]
    /\ run' = Disturbed
    /\ quiet' = 0
    /\ UNCHANGED <<files, saved>>

PersonUses ==
    /\ Event
    /\ run' = Disturbed
    /\ quiet' = 0
    /\ UNCHANGED <<server, had>>

\* The person edits or deletes an attachment's file, or puts one of their own there.
PersonWrites ==
    /\ \E q \in Paths, b \in Bodies \union {0} :
          files[q] # b /\ files' = [files EXCEPT ![q] = b]
    /\ UNCHANGED saved
    /\ PersonUses

\* The person deletes or damages the manifest.
ManifestDamaged ==
    /\ \E s \in {"absent", "corrupt"} :
          s # saved.state /\ saved' = [state |-> s, entries |-> Empty]
    /\ UNCHANGED files
    /\ PersonUses

-----------------------------------------------------------------------------
Next ==
    \/ \E p \in Procs :
          \/ Start(p) \/ StartSingle(p) \/ Load(p) \/ List(p) \/ ListFails(p) \/ Finish(p) \/ Crash(p)
          \/ \E a \in Atts : Skip(p, a) \/ Ask(p, a) \/ Download(p, a)
                          \/ DownloadFails(p, a) \/ FolderFails(p, a)
    \/ \E a \in Atts : ServerChanges(a)
    \/ PersonWrites \/ ManifestDamaged

Spec == Init /\ [][Next]_vars

-----------------------------------------------------------------------------
(* Properties.                                                             *)

\* A manifest record is only a hint: an attachment is skipped only when a file of its
\* own directory has bytes the attachment has had, of the size listed now; not when
\* another attachment's file or the person's stands at its path
\* (_matching_local_attachment).
SkipsAreCurrent ==
    [][\A p \in Procs, a \in Atts :
          Skip(p, a) =>
             LET q == run'[p].mem[a].path IN
             /\ files[q] \in had[a]
             /\ Size(files[q]) = Size(run[p].listed[a].body)
             /\ q[1] = run[p].listed[a].dir]_vars

\* A file is replaced only at the path the manifest records for that very attachment:
\* what a person or an interrupted run left at any other place stays; for a legacy
\* entry, whose path is only inferred, no file is replaced that was there when the
\* attachment was asked for (_write_entry_for_claim, disambiguate_filename).  One put
\* there while the answer is awaited is lost: the code does not look again.
UnownedFilesStay ==
    [][\A p \in Procs, a \in Atts :
          Download(p, a) =>
             \A q \in Paths : files'[q] # files[q] /\ files[q] # 0 =>
                IF run[p].prior[a].legacy THEN q \in run[p].vacant
                ELSE run[p].prior[a].path = q]_vars

\* Whatever the folder, two whole syncs without error that nothing disturbs leave every
\* attachment in its folder's directory under a path of its own, with the bytes
\* recorded and of the size the server has: contested paths are taken apart again.
TwoSyncsSettle ==
    quiet = 2 =>
        \A a \in {b \in Atts : server[b].live} :
            LET kept == saved.entries[a] IN
            /\ kept.body # 0 /\ ~kept.legacy /\ kept.path[1] = server[a].dir
            /\ files[kept.path] = kept.body
            /\ Size(kept.body) = Size(server[a].body)
            /\ Owners(saved.entries, kept.path) \intersect {b \in Atts : server[b].live} = {a}

\* _claim_assignment_entry, assignments.py: "Claim one safe prior path without letting
\* manifest aliases overwrite."  No write replaces the file the same run has just
\* written, or kept, for another attachment.
AliasesDoNotOverwrite ==
    [][\A p \in Procs, a \in Atts :
          Download(p, a) => \A q \in run[p].mine : files'[q] = files[q]]_vars
=============================================================================
