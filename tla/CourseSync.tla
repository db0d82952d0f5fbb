----------------------------- MODULE CourseSync -----------------------------
(***************************************************************************)
(* The topics of one course, copied into its folder by sync_engine.py's    *)
(* run_course for `lighthouse sync` and `lighthouse download`, with or     *)
(* without --force, and the manifest (.lighthouse.json) that remembers     *)
(* which file holds which topic.                                           *)
(*                                                                         *)
(* A run reads the content tree, then the manifest, takes the topics one   *)
(* by one (skip, or download, reserve a path, write) and saves the         *)
(* manifest once at its end.  Nothing keeps two runs, or a run and the     *)
(* person's own use of the folder, apart.  The server changes under the    *)
(* run.  A topic's bytes are a member of Bodies, its LastModifiedDate a    *)
(* number, a path a directory, a file name and the topic and number of a   *)
(* collision suffix.  A dry run (PLAN) changes nothing and is left out, as *)
(* is the assignment phase.                                                *)
(***************************************************************************)
EXTENDS Integers, FiniteSets, Sequences

CONSTANTS
    Procs,       \* lighthouse processes
    Topics,      \* topic ids: positive integers
    HtmlTopics,  \* the topics of type html; the others are files
    Dirs,        \* directories of the course folder
    NoDir,       \* not a directory
    Names,       \* file names the server gives
    Bodies,      \* what a topic's bytes may be
    Own,         \* bytes of the person's own making
    Gone,        \* no such file
    MaxTries,    \* bound: collision names tried for one topic
    MaxChanges,  \* bound: changes of the server
    MaxMishaps,  \* bound: changes the person makes to the folder, and runs
                 \* that are killed or fail to save, together
    EditsAnyTime \* bound: whether the person changes it during a run, too

ASSUME TopicAssumption ==
    Topics \subseteq Nat \ {0} /\ IsFiniteSet(Topics) /\ HtmlTopics \subseteq Topics
ASSUME NameAssumption == Names # {}
ASSUME BytesAssumption == Own \notin Bodies /\ Gone \notin Bodies \union {Own}
ASSUME DirAssumption == NoDir \notin Dirs
ASSUME BoundAssumption == {MaxTries, MaxChanges, MaxMishaps} \subseteq Nat /\ EditsAnyTime \in BOOLEAN

VARIABLES
    toc,        \* server: each topic's place, name, date and bytes
    versions,   \* history: the bytes each topic had at each date
    files,      \* the course folder
    saved,      \* the manifest on disk
    pc,         \* where each run is
    mode,       \* its mode
    snap,       \* the content tree it read
    todo,       \* topics it still has to take, in the tree's order
    chosen,     \* topics its type filter selects
    mem,        \* the manifest it will save
    owners,     \* path_owners: who each path belongs to
    got,        \* the bytes and name it downloaded
    path,       \* the path it reserved
    dirty,      \* whether it wrote a topic
    errs,       \* whether it recorded an error
    existed,    \* whether --force found a manifest
    disturbed,  \* history: runs under way that something else interfered with
    settled,    \* history: topics a completed run left in sync, since untouched
                \* by anything but one run at a time
    changes, mishaps

run    == <<pc, mode, snap, todo, chosen, mem, owners, got, path, dirty, errs, existed>>
server == <<toc, versions>>
folder == <<files, saved>>
counts == <<changes, mishaps>>
vars   == <<server, folder, run, disturbed, settled, counts>>

Modes    == {"sync", "download", "force"}
Plain    == {<<n, 0, 0>> : n \in Names}
FileName == Plain \union (Names \X Topics \X (1 .. MaxTries))
Paths    == Dirs \X FileName
Dates    == 0 .. MaxChanges
Entries  == [file : FileName, date : Dates, body : Bodies]
NoEntry  == [file |-> CHOOSE n \in Plain : TRUE, date |-> 0, body |-> Gone]
NoPath   == <<NoDir, NoEntry.file>>
Contested == -1
Unowned   == 0
Manifests == [Topics -> Entries \union {NoEntry}]
EmptyManifest == [t \in Topics |-> NoEntry]
Items    == [live : BOOLEAN, dir : Dirs, name : Names, date : Dates, body : Bodies \union {Gone}]
NoItem   == [live |-> FALSE, dir |-> NoDir,
             name |-> CHOOSE n \in Names : TRUE, date |-> 0, body |-> Gone]
NoTree   == [t \in Topics |-> NoItem]
NoCopy   == [body |-> Gone, name |-> CHOOSE n \in Names : TRUE]
Places   == {"idle", "load", "topic", "fetch", "reserve", "write", "finish"}

TypeOK ==
    /\ toc \in [Topics -> Items]
    /\ versions \in [Topics -> [Dates -> Bodies \union {Gone}]]
    /\ files \in [Paths -> Bodies \union {Own, Gone}]
    /\ saved \in [state : {"absent", "corrupt", "good"}, entries : Manifests]
    /\ pc \in [Procs -> Places]
    /\ mode \in [Procs -> Modes]
    /\ snap \in [Procs -> [Topics -> Items] \union {NoTree}]
    /\ todo \in [Procs -> Seq(Topics)]
    /\ chosen \in [Procs -> SUBSET Topics]
    /\ mem \in [Procs -> Manifests]
    /\ owners \in [Procs -> [Paths -> Topics \union {Unowned, Contested}]]
    /\ got \in [Procs -> [body : Bodies \union {Gone}, name : Names]]
    /\ path \in [Procs -> Paths \union {NoPath}]
    /\ dirty \in [Procs -> BOOLEAN]
    /\ errs \in [Procs -> BOOLEAN]
    /\ existed \in [Procs -> BOOLEAN]
    /\ disturbed \subseteq Procs
    /\ settled \subseteq Topics
    /\ changes \in 0 .. MaxChanges /\ mishaps \in 0 .. MaxMishaps

Init ==
    /\ \E f \in [Topics -> {i \in Items : i.live /\ i.date = 0 /\ i.body # Gone}] : toc = f
    /\ versions = [t \in Topics |-> [d \in Dates |-> IF d = 0 THEN toc[t].body ELSE Gone]]
    /\ files = [q \in Paths |-> Gone]
    /\ saved = [state |-> "absent", entries |-> EmptyManifest]
    /\ pc = [p \in Procs |-> "idle"]
    /\ mode = [p \in Procs |-> "sync"]
    /\ snap = [p \in Procs |-> NoTree]
    /\ todo = [p \in Procs |-> <<>>]
    /\ chosen = [p \in Procs |-> {}]
    /\ mem = [p \in Procs |-> EmptyManifest]
    /\ owners = [p \in Procs |-> [q \in Paths |-> Unowned]]
    /\ got = [p \in Procs |-> NoCopy]
    /\ path = [p \in Procs |-> NoPath]
    /\ dirty = [p \in Procs |-> FALSE]
    /\ errs = [p \in Procs |-> FALSE]
    /\ existed = [p \in Procs |-> FALSE]
    /\ disturbed = {} /\ settled = {}
    /\ changes = 0 /\ mishaps = 0

-----------------------------------------------------------------------------
(* Helpers.                                                                *)

Live(content) == {t \in Topics : content[t].live}
TypeOf(t) == IF t \in HtmlTopics THEN "html" ELSE "file"

\* Where a manifest's entry lies in a content tree: the folder keeps a topic's
\* file in the directory the tree gives it now, under the recorded name.
PathOf(content, manifest, t) == <<content[t].dir, manifest[t].file>>
Recorded(content, manifest) == {t \in Live(content) : manifest[t] # NoEntry}

\* _matching_local_topic_file: the file is there with the recorded bytes.
Matches(content, manifest, t) == files[PathOf(content, manifest, t)] = manifest[t].body

\* The owners map of a run that found `manifest`: one topic, or contested.
\* --force settles a contest for the smallest topic id.
OwnersOf(content, manifest, m) ==
    [q \in Paths |->
        LET claim == {t \in Recorded(content, manifest) : PathOf(content, manifest, t) = q}
        IN  IF claim = {} THEN Unowned
            ELSE IF Cardinality(claim) > 1 /\ m # "force" THEN Contested
            ELSE CHOOSE t \in claim : \A u \in claim : t <= u]

\* The order the tree gives, each topic once.
Orders(S) == {o \in [1 .. Cardinality(S) -> S] : \A i, j \in DOMAIN o : o[i] = o[j] => i = j}

Goto(p, place) == pc' = [pc EXCEPT ![p] = place]
Topic(p) == Head(todo[p])

\* The run goes on with the next topic, or ends.
NextTopic(p) ==
    /\ todo' = [todo EXCEPT ![p] = Tail(@)]
    /\ Goto(p, IF Len(todo[p]) = 1 THEN "finish" ELSE "topic")

\* A topic that failed is recorded; the rest of the course goes on.
TopicFails(p) ==
    /\ errs' = [errs EXCEPT ![p] = TRUE]
    /\ NextTopic(p)
    /\ got' = [got EXCEPT ![p] = NoCopy]
    /\ path' = [path EXCEPT ![p] = NoPath]
    /\ UNCHANGED <<server, folder, mode, snap, chosen, mem, owners, dirty, existed,
                   disturbed, settled, counts>>

\* The process is done with the course: nothing of the run remains.
Leave(p) ==
    /\ Goto(p, "idle")
    /\ mode' = [mode EXCEPT ![p] = "sync"]
    /\ snap' = [snap EXCEPT ![p] = NoTree]
    /\ todo' = [todo EXCEPT ![p] = <<>>]
    /\ chosen' = [chosen EXCEPT ![p] = {}]
    /\ mem' = [mem EXCEPT ![p] = EmptyManifest]
    /\ owners' = [owners EXCEPT ![p] = [q \in Paths |-> Unowned]]
    /\ got' = [got EXCEPT ![p] = NoCopy]
    /\ path' = [path EXCEPT ![p] = NoPath]
    /\ dirty' = [dirty EXCEPT ![p] = FALSE]
    /\ errs' = [errs EXCEPT ![p] = FALSE]
    /\ existed' = [existed EXCEPT ![p] = FALSE]

Running == {p \in Procs : pc[p] # "idle"}

-----------------------------------------------------------------------------
(* A run reads the content tree, then the manifest.                        *)

\* The tree is flattened, filtered by --types, and each topic taken once.
Begin(p, m, types) ==
    /\ pc[p] = "idle"
    /\ LET sel == {t \in Live(toc) : TypeOf(t) \in types}
       IN  /\ chosen' = [chosen EXCEPT ![p] = sel]
           /\ \E o \in Orders(sel) : todo' = [todo EXCEPT ![p] = o]
    /\ snap' = [snap EXCEPT ![p] = toc]
    /\ mode' = [mode EXCEPT ![p] = m]
    /\ Goto(p, "load")
    /\ disturbed' = IF Running = {} THEN {} ELSE Running \union {p}
    /\ settled' = IF Running = {} THEN settled ELSE {}
    /\ UNCHANGED <<server, folder, mem, owners, got, path, dirty, errs, existed, counts>>

\* Manifest.load: a corrupt one counts as empty, and as an error but for --force.
Found == IF saved.state = "good" THEN saved.entries ELSE EmptyManifest

Load(p) ==
    /\ pc[p] = "load"
    /\ mem' = [mem EXCEPT ![p] = IF mode[p] = "force" THEN EmptyManifest ELSE Found]
    /\ owners' = [owners EXCEPT ![p] = OwnersOf(snap[p], Found, mode[p])]
    /\ errs' = [errs EXCEPT ![p] = @ \/ (saved.state = "corrupt" /\ mode[p] # "force")]
    /\ existed' = [existed EXCEPT ![p] = mode[p] = "force" /\ saved.state # "absent"]
    /\ Goto(p, IF todo[p] = <<>> THEN "finish" ELSE "topic")
    /\ UNCHANGED <<server, folder, mode, snap, todo, chosen, got, path, dirty,
                   disturbed, settled, counts>>

-----------------------------------------------------------------------------
(* One topic.                                                              *)

\* sync skips a topic whose date and local bytes match the manifest, if the
\* path is the topic's alone.
Unchanged(p, t) ==
    /\ mode[p] = "sync"
    /\ mem[p][t] # NoEntry
    /\ mem[p][t].date = snap[p][t].date
    /\ Matches(snap[p], mem[p], t)
    /\ owners[p][PathOf(snap[p], mem[p], t)] = t

Skip(p) ==
    /\ pc[p] = "topic"
    /\ Unchanged(p, Topic(p))
    /\ NextTopic(p)
    /\ UNCHANGED <<server, folder, mode, snap, chosen, mem, owners, got, path, dirty,
                   errs, existed, disturbed, settled, counts>>

TakeTopic(p) ==
    /\ pc[p] = "topic"
    /\ ~Unchanged(p, Topic(p))
    /\ Goto(p, "fetch")
    /\ UNCHANGED <<server, folder, mode, snap, todo, chosen, mem, owners, got, path,
                   dirty, errs, existed, disturbed, settled, counts>>

\* The bytes and the name are the server's now, the tree's date from before.
Fetch(p) ==
    /\ pc[p] = "fetch"
    /\ toc[Topic(p)].live
    /\ got' = [got EXCEPT ![p] = [body |-> toc[Topic(p)].body, name |-> toc[Topic(p)].name]]
    /\ Goto(p, "reserve")
    /\ UNCHANGED <<server, folder, mode, snap, todo, chosen, mem, owners, path, dirty,
                   errs, existed, disturbed, settled, counts>>

FetchFails(p) == pc[p] = "fetch" /\ TopicFails(p)

\* The server's name, then the name with the topic's id and a number.
Candidate(p, k) ==
    <<snap[p][Topic(p)].dir,
      IF k = 0 THEN <<got[p].name, 0, 0>> ELSE <<got[p].name, Topic(p), k>>>>

\* Faulty variant: a path another topic owns is taken when no file is there.
MayUseAbsent(p, q) ==
    \/ owners[p][q] = Topic(p)
    \/ owners[p][q] = Contested /\ mode[p] = "force"
    \/ mode[p] = "force" \/ files[q] = Gone

MayUse(p, q) ==
    \/ owners[p][q] = Topic(p)
    \/ owners[p][q] = Contested /\ mode[p] = "force"
    \/ owners[p][q] = Unowned /\ (mode[p] = "force" \/ files[q] = Gone)

\* _reserve_topic_path: the first candidate the topic may use.
Reserve(p) ==
    /\ pc[p] = "reserve"
    /\ \E k \in 0 .. MaxTries :
          /\ MayUse(p, Candidate(p, k))
          /\ \A j \in 0 .. k - 1 : ~MayUse(p, Candidate(p, j))
          /\ owners' = [owners EXCEPT ![p][Candidate(p, k)] = Topic(p)]
          /\ path' = [path EXCEPT ![p] = Candidate(p, k)]
    /\ Goto(p, "write")
    /\ UNCHANGED <<server, folder, mode, snap, todo, chosen, mem, got, dirty, errs,
                   existed, disturbed, settled, counts>>

\* Faulty variant: the entry takes the date the server has now.
RecordCurrentDate(p) ==
    mem' = [mem EXCEPT ![p][Topic(p)] =
               [file |-> path[p][2], date |-> toc[Topic(p)].date, body |-> got[p].body]]

\* Faulty variant: the entry takes the server's name, not the reserved one.
RecordServerName(p) ==
    mem' = [mem EXCEPT ![p][Topic(p)] =
               [file |-> <<got[p].name, 0, 0>>, date |-> snap[p][Topic(p)].date,
                body |-> got[p].body]]

\* Manifest.add_entry: the bytes as written, the date of the tree.
Record(p) ==
    mem' = [mem EXCEPT ![p][Topic(p)] =
               [file |-> path[p][2], date |-> snap[p][Topic(p)].date, body |-> got[p].body]]

\* The file is replaced at once; the manifest only in memory.
Write(p) ==
    /\ pc[p] = "write"
    /\ files' = [files EXCEPT ![path[p]] = got[p].body]
    /\ Record(p)
    /\ dirty' = [dirty EXCEPT ![p] = TRUE]
    /\ got' = [got EXCEPT ![p] = NoCopy]
    /\ path' = [path EXCEPT ![p] = NoPath]
    /\ NextTopic(p)
    /\ UNCHANGED <<server, saved, mode, snap, chosen, owners, errs, existed,
                   disturbed, settled, counts>>

\* The disk is full, or the path is not a file's: the reservation stays.
WriteFails(p) == pc[p] \in {"reserve", "write"} /\ TopicFails(p)

-----------------------------------------------------------------------------
(* The end of a run.                                                       *)

\* The manifest is saved when something was written, or when --force without
\* an error replaces one.
Saves(p, failed) == dirty[p] \/ (existed[p] /\ ~failed)

\* What an undisturbed run without errors leaves in sync.
Settles(p, failed) ==
    settled' = IF p \in disturbed \/ failed
               THEN IF mode[p] = "force" THEN {} ELSE settled
               ELSE IF mode[p] = "force" THEN chosen[p] ELSE settled \union chosen[p]

\* A record of the tree that is no valid topic (bad) is an error too: it was
\* recorded at the start, and counts only here.
Finish(p, bad) ==
    /\ pc[p] = "finish"
    /\ saved' = IF Saves(p, errs[p] \/ bad) THEN [state |-> "good", entries |-> mem[p]] ELSE saved
    /\ Settles(p, errs[p] \/ bad)
    /\ disturbed' = disturbed \ {p}
    /\ Leave(p)
    /\ UNCHANGED <<server, files, counts>>

\* The process is killed, or the manifest cannot be written.
Crash(p) ==
    /\ pc[p] # "idle"
    /\ mishaps < MaxMishaps
    /\ mishaps' = mishaps + 1
    /\ disturbed' = disturbed \ {p}
    /\ Leave(p)
    /\ UNCHANGED <<server, folder, settled, changes>>

-----------------------------------------------------------------------------
(* The server and the person.                                              *)

ServerChanges(t, item) ==
    /\ changes < MaxChanges
    /\ changes' = changes + 1
    /\ toc' = [toc EXCEPT ![t] = item]
    /\ versions' = [versions EXCEPT ![t][item.date] = item.body]
    /\ disturbed' = Running
    /\ settled' = {}
    /\ UNCHANGED <<folder, run, mishaps>>

\* A new file: its date moves on.
UpdateTopic(t) ==
    /\ toc[t].live
    /\ \E b \in Bodies, n \in Names :
          ServerChanges(t, [toc[t] EXCEPT !.date = changes + 1, !.body = b, !.name = n])
MoveTopic(t) ==
    /\ toc[t].live
    /\ \E d \in Dirs \ {toc[t].dir} : ServerChanges(t, [toc[t] EXCEPT !.dir = d])
RemoveTopic(t) == toc[t].live /\ ServerChanges(t, [toc[t] EXCEPT !.live = FALSE])

PersonUses ==
    /\ EditsAnyTime \/ Running = {}
    /\ mishaps < MaxMishaps
    /\ mishaps' = mishaps + 1
    /\ disturbed' = Running
    /\ settled' = {}

\* The person saves a file of their own, or over one of the course's.
PersonWrites ==
    /\ PersonUses
    /\ \E d \in Dirs, n \in Plain : files' = [files EXCEPT ![<<d, n>>] = Own]
    /\ UNCHANGED <<server, saved, run, changes>>

PersonDeletes ==
    /\ PersonUses
    /\ \E q \in Paths : files[q] # Gone /\ files' = [files EXCEPT ![q] = Gone]
    /\ UNCHANGED <<server, saved, run, changes>>

ManifestDamaged ==
    /\ PersonUses
    /\ \E s \in {"absent", "corrupt"} :
          s # saved.state /\ saved' = [state |-> s, entries |-> EmptyManifest]
    /\ UNCHANGED <<server, files, run, changes>>

-----------------------------------------------------------------------------
Step(p) ==
    \/ Load(p) \/ Skip(p) \/ TakeTopic(p) \/ Fetch(p) \/ FetchFails(p)
    \/ Reserve(p) \/ Write(p) \/ WriteFails(p)
    \/ \E bad \in BOOLEAN : Finish(p, bad)

Start(p) ==
    \E m \in Modes, types \in SUBSET {"file", "html"} \ {{}} : Begin(p, m, types)

Environment ==
    \/ \E t \in Topics : UpdateTopic(t) \/ MoveTopic(t) \/ RemoveTopic(t)
    \/ PersonWrites \/ PersonDeletes \/ ManifestDamaged

Next == (\E p \in Procs : Step(p) \/ Start(p) \/ Crash(p)) \/ Environment

Spec == Init /\ [][Next]_vars

-----------------------------------------------------------------------------
(* Properties.                                                             *)

\* A topic's copy is in step: the manifest has the tree's date, and the file is
\* there with the bytes recorded, which the topic has had at that date or since.
InStep(t) ==
    /\ toc[t].live /\ saved.entries[t] # NoEntry
    /\ saved.entries[t].date = toc[t].date
    /\ Matches(toc, saved.entries, t)
    /\ saved.entries[t].body = toc[t].body

OwnPath(t) ==
    \A u \in Recorded(toc, saved.entries) \ {t} :
        PathOf(toc, saved.entries, u) # PathOf(toc, saved.entries, t)

\* ADR 0001: sync never skips a topic whose local file is not what the server
\* had at the date the tree gave, or later; not after edits, crashes or errors.
SkipsAreCurrent ==
    [][\A p \in Procs : Skip(p) =>
          \E d \in snap[p][Topic(p)].date .. MaxChanges :
              versions[Topic(p)][d] = files[PathOf(snap[p], mem[p], Topic(p))]]_vars

\* A run that nothing interfered with and that reports no error leaves every
\* topic it was asked for in step, whatever state it found the folder in, at a
\* path that is the topic's alone: the next sync downloads none of them again.
CompleteRunsSync == \A t \in settled : InStep(t) /\ OwnPath(t)

\* Which topics there are, and where they lie.
Placed(content) == [t \in Live(content) |-> content[t].dir]

\* While topics lie where they did when the run read the tree, writing one never
\* takes another, whose recorded path is no other topic's, out of step.
TopicsDoNotCollide ==
    [][\A p \in Procs : Write(p) /\ Placed(toc) = Placed(snap[p]) =>
          \A t \in Topics \ {Topic(p)} :
             InStep(t) /\ OwnPath(t) => InStep(t)']_vars
=============================================================================
