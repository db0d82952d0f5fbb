---------------------------- MODULE SealedStore ----------------------------
(***************************************************************************)
(* How credential_store.py finds the key for an artifact, seals it, opens  *)
(* it again and migrates the credentials of before sealing.                *)
(*                                                                         *)
(* The processes share the files and the keyring, which may be locked or   *)
(* missing; LIGHTHOUSE_SECRETS_PASSPHRASE may differ from one command to   *)
(* the next.  A key is a number: a passphrase's, whatever its salt, or the *)
(* keyring's; 0 is none.  A value is a number, counted up with each save.  *)
(* One step is one access to a file or to the keyring.                     *)
(***************************************************************************)
EXTENDS Integers, FiniteSets

CONSTANTS
    Procs,       \* processes
    Artifacts,   \* credentials.json, cookies.json and the others
    Credentials, \* the one that may be of before sealing
    Passphrases, \* keys of the passphrases a person may set
    MaxKeys,     \* bound: keys generated for the keyring
    MaxSaves,    \* bound: saves
    MaxCalls,    \* bound: calls
    MaxCrashes   \* bound: crashes

ASSUME SizeAssumption ==
    /\ Credentials \in Artifacts
    /\ MaxKeys \in Nat \ {0}
    /\ Passphrases \subseteq Nat \ (0 .. MaxKeys)
    /\ {MaxSaves, MaxCalls, MaxCrashes} \subseteq Nat

VARIABLES
    file,    \* the artifacts
    entry,   \* the keyring's key
    ring,    \* the keyring: "open", "locked" or "none"
    job,     \* what each process is at
    keys,    \* keys generated so far
    saves,   \* saves so far
    raced,   \* history: two processes were creating the keyring's key
    calls,   \* calls so far
    crashes  \* crashes so far

bounds == <<saves, calls, crashes>>
vars   == <<file, entry, ring, job, keys, raced, bounds>>

Keys   == (0 .. MaxKeys) \union Passphrases
Doc    == [form : {"none", "legacy", "sealed"}, source : {"passphrase", "keyring"},
           key : Keys, value : 0 .. MaxSaves]
NoFile == [form |-> "none", source |-> "keyring", key |-> 0, value |-> 0]

\* A call: where it is, what is wanted of which artifact, with which passphrase in the
\* environment; the document it has read; the source and the key it has; the value it
\* writes, or has opened; and how the last one ended.
Job  == [pc : {"idle", "select", "read", "ring", "reseal", "create", "open", "write"},
         op : {"none", "preflight", "save", "load"}, art : Artifacts,
         env : Passphrases \union {0}, doc : Doc, source : {"passphrase", "keyring"},
         key : Keys, value : 0 .. MaxSaves, told : {"none", "done", "failed"}]
Idle == [pc |-> "idle", op |-> "none", art |-> Credentials, env |-> 0, doc |-> NoFile,
         source |-> "keyring", key |-> 0, value |-> 0, told |-> "none"]

TypeOK ==
    /\ file \in [Artifacts -> Doc]
    /\ entry \in 0 .. MaxKeys
    /\ ring \in {"open", "locked", "none"}
    /\ job \in [Procs -> Job]
    /\ keys \in 0 .. MaxKeys
    /\ saves \in 0 .. MaxSaves
    /\ raced \in BOOLEAN
    /\ calls \in 0 .. MaxCalls
    /\ crashes \in 0 .. MaxCrashes

\* There may be a key from before, and credentials sealed with it in the old form.
Init ==
    /\ keys \in {0, 1}
    /\ entry = keys
    /\ \E credentials \in {NoFile, [NoFile EXCEPT !.form = "legacy", !.key = 1]} :
          /\ credentials # NoFile => entry = 1
          /\ file = [a \in Artifacts |-> IF a = Credentials THEN credentials ELSE NoFile]
    /\ ring \in {"open", "none"}
    /\ job = [p \in Procs |-> Idle]
    /\ saves = 0
    /\ raced = FALSE
    /\ calls = 0
    /\ crashes = 0

-----------------------------------------------------------------------------
(* Calls.                                                                  *)

At(p, place) == job[p].pc = place

Goto(p, place) == job' = [job EXCEPT ![p].pc = place]

End(p, result) == job' = [job EXCEPT ![p].pc = "idle", ![p].told = result]

\* A preflight, or the save or the load of an artifact.
Start(p) ==
    /\ At(p, "idle")
    /\ calls < MaxCalls
    /\ calls' = calls + 1
    /\ \E e \in Passphrases \union {0}, a \in Artifacts :
          \/ /\ job' = [job EXCEPT ![p] = [Idle EXCEPT !.pc = "select", !.op = "preflight", !.env = e]]
             /\ UNCHANGED saves
          \/ /\ saves < MaxSaves
             /\ saves' = saves + 1
             /\ job' = [job EXCEPT ![p] = [Idle EXCEPT !.pc = "select", !.op = "save", !.art = a,
                                                       !.env = e, !.value = saves']]
          \/ /\ job' = [job EXCEPT ![p] = [Idle EXCEPT !.pc = "read", !.op = "load", !.art = a,
                                                       !.env = e]]
             /\ UNCHANGED saves
    /\ UNCHANGED <<file, entry, ring, keys, raced, crashes>>

\* An artifact is removed: the authenticator, the session or the pending login.
Remove(p) ==
    /\ At(p, "idle")
    /\ calls < MaxCalls
    /\ calls' = calls + 1
    /\ \E a \in Artifacts : file' = [file EXCEPT ![a] = NoFile]
    /\ UNCHANGED <<entry, ring, job, keys, raced, saves, crashes>>

\* _select_source: the passphrase first, then the keyring, if there is one.
Select(p) ==
    /\ At(p, "select")
    /\ IF job[p].env # 0
       THEN IF job[p].op = "preflight" THEN End(p, "done")
            ELSE job' = [job EXCEPT ![p].source = "passphrase", ![p].key = job[p].env,
                                    ![p].pc = "write"]
       ELSE IF ring = "none" THEN End(p, "failed") ELSE Goto(p, "ring")
    /\ UNCHANGED <<file, entry, ring, keys, raced, bounds>>

\* Who may create the keyring's key: not a load, but for its migration.
Creates(p) == job[p].op # "load" \/ At(p, "reseal")

\* With the keyring's key.
HaveKey(p, key) ==
    IF job[p].op = "preflight" THEN End(p, "done")
    ELSE job' = [job EXCEPT ![p].key = key,
                            ![p].pc = IF Creates(p) \/ At(p, "create") THEN "write" ELSE "open"]

\* Faulty variant: a key is generated without a look at the entry.
ReadNoEntry(p) ==
    /\ At(p, "ring") \/ At(p, "reseal")
    /\ CASE ring # "open" -> End(p, "failed")
         [] ring = "open" /\ ~Creates(p) -> HaveKey(p, entry)
         [] OTHER -> Goto(p, "create")
    /\ UNCHANGED <<file, entry, ring, keys, raced, bounds>>

\* _keyring_key: the keyring must be there and readable; its entry is used as it is,
\* and a missing one created when the caller may.
ReadEntry(p) ==
    /\ At(p, "ring") \/ At(p, "reseal")
    /\ CASE ring = "open" /\ entry # 0 -> HaveKey(p, entry)
         [] ring = "open" /\ entry = 0 /\ Creates(p) -> Goto(p, "create")
         [] OTHER -> End(p, "failed")
    /\ UNCHANGED <<file, entry, ring, keys, raced, bounds>>

\* Nothing keeps two processes from creating it one after the other.
CreateEntry(p) ==
    /\ At(p, "create")
    /\ \/ /\ ring = "open" /\ keys < MaxKeys
          /\ keys' = keys + 1
          /\ entry' = keys'
          /\ raced' = (raced \/ \E q \in Procs \ {p} : At(q, "create"))
          /\ HaveKey(p, keys')
       \/ End(p, "failed") /\ UNCHANGED <<entry, keys, raced>>
    /\ UNCHANGED <<file, ring, bounds>>

\* atomic_write replaces the artifact, or leaves it.
Write(p) ==
    /\ At(p, "write")
    /\ LET j == job[p] IN
       \/ /\ file' = [file EXCEPT ![j.art] = [form |-> "sealed", source |-> j.source,
                                               key |-> j.key, value |-> j.value]]
          /\ End(p, "done")
       \/ End(p, "failed") /\ UNCHANGED file
    /\ UNCHANGED <<entry, ring, keys, raced, bounds>>

\* Faulty variant: the key is looked for as for sealing.
ReadEnvFirst(p) ==
    /\ At(p, "read")
    /\ LET j == [job[p] EXCEPT !.doc = file[job[p].art]] IN
       CASE j.doc.form = "none" -> End(p, "done")
         [] j.doc.form = "sealed" /\ j.env # 0 ->
                job' = [job EXCEPT ![p] = [j EXCEPT !.key = j.env, !.pc = "open"]]
         [] OTHER -> job' = [job EXCEPT ![p] = [j EXCEPT !.pc = "ring"]]
    /\ UNCHANGED <<file, entry, ring, keys, raced, bounds>>

\* The document names the source that sealed it, and no other is tried; in the old
\* form it is the keyring.
ReadFile(p) ==
    /\ At(p, "read")
    /\ LET j == [job[p] EXCEPT !.doc = file[job[p].art]] IN
       CASE j.doc.form = "none" -> End(p, "done")
         [] j.doc.source = "passphrase" /\ j.env # 0 ->
                job' = [job EXCEPT ![p] = [j EXCEPT !.key = j.env, !.pc = "open"]]
         [] j.doc.source = "passphrase" /\ j.env = 0 ->
                job' = [job EXCEPT ![p] = [j EXCEPT !.pc = "idle", !.told = "failed"]]
         [] OTHER -> job' = [job EXCEPT ![p] = [j EXCEPT !.pc = "ring"]]
    /\ UNCHANGED <<file, entry, ring, keys, raced, bounds>>

\* Faulty variant: credentials are migrated to the source that sealing would use.
MigrateSelecting(p) ==
    IF job[p].doc.form = "legacy"
    THEN job' = [job EXCEPT ![p].value = job[p].doc.value,
                            ![p].pc = IF job[p].env # 0 THEN "select" ELSE "reseal"]
    ELSE job' = [job EXCEPT ![p].value = job[p].doc.value, ![p].pc = "idle", ![p].told = "done"]

\* Opened credentials of the old form are sealed again, with the source they had.
Migrate(p) ==
    IF job[p].doc.form = "legacy"
    THEN job' = [job EXCEPT ![p].value = job[p].doc.value, ![p].pc = "reseal"]
    ELSE job' = [job EXCEPT ![p].value = job[p].doc.value, ![p].pc = "idle", ![p].told = "done"]

\* Fernet tells the right key from a wrong one.
OpenEnvelope(p) ==
    /\ At(p, "open")
    /\ IF job[p].key = job[p].doc.key THEN Migrate(p) ELSE End(p, "failed")
    /\ UNCHANGED <<file, entry, ring, keys, raced, bounds>>

-----------------------------------------------------------------------------
(* The rest of the world.                                                  *)

\* The person locks, unlocks, installs or removes the keyring.
RingChanges ==
    /\ ring' \in {"open", "locked", "none"} \ {ring}
    /\ UNCHANGED <<file, entry, job, keys, raced, bounds>>

\* A process is killed.
Crash(p) ==
    /\ ~At(p, "idle")
    /\ crashes < MaxCrashes
    /\ crashes' = crashes + 1
    /\ job' = [job EXCEPT ![p] = Idle]
    /\ UNCHANGED <<file, entry, ring, keys, raced, saves, calls>>

Next ==
    \/ \E p \in Procs :
          \/ Start(p) \/ Remove(p) \/ Select(p) \/ ReadEntry(p) \/ CreateEntry(p) \/ Write(p)
          \/ ReadFile(p) \/ OpenEnvelope(p) \/ Crash(p)
    \/ RingChanges

Spec == Init /\ [][Next]_vars

-----------------------------------------------------------------------------
(* Properties.                                                             *)

\* Whether a command with this passphrase in its environment, or none, can open the
\* artifact, the keyring being unlocked.
CanOpen(a, e) ==
    IF file[a].source = "passphrase" THEN file[a].key = e ELSE file[a].key = entry

\* What the keyring's key has sealed it can open: the key is never replaced, unless two
\* processes were creating it at the same time (_keyring_key, credential_store.py).
KeyringStaysGood ==
    ~raced => \A a \in Artifacts :
                 file[a].form # "none" /\ file[a].source = "keyring" => file[a].key = entry

\* Only a save decides anew who can open an artifact.  A load, which migrates it,
\* locks nobody out who could open it before, whatever the passphrase in its own
\* environment (_load_and_migrate_legacy), unless a save came in between.
LoadsLockNobodyOut ==
    [][\A p \in Procs, a \in Artifacts, e \in Passphrases \union {0} :
          /\ At(p, "write") /\ ~At(p, "write")'
          /\ job[p].op = "load" /\ job[p].art = a /\ file[a] = job[p].doc
          => (CanOpen(a, e) => CanOpen(a, e)')]_vars

\* A load fails only when the key of the source the document names is not at hand:
\* setting or clearing the passphrase orphans nothing sealed with the other source.
RecordedSourceOpens ==
    [][\A p \in Procs :
          LET doc == job'[p].doc IN
          /\ job[p].op = "load" /\ ~At(p, "idle")
          /\ job'[p].told = "failed" /\ doc.form = "sealed"
          => IF doc.source = "passphrase" THEN doc.key # job[p].env
             ELSE ring # "open" \/ doc.key # entry]_vars
=============================================================================
