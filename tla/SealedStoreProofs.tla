-------------------------- MODULE SealedStoreProofs --------------------------
(***************************************************************************)
(* Proofs about SealedStore, for any number of processes, artifacts,       *)
(* passphrases, keys, saves, calls and crashes.  IInv is inductive         *)
(* together with TypeOK: it adds to what a call has read what it may still *)
(* conclude from it after other calls have changed the files and the       *)
(* keyring, whose key only ever gets newer.                                *)
(***************************************************************************)
EXTENDS SealedStore, TLAPS

\* The entry is the key generated last.
EntryInv == entry = keys

\* What is sealed has a key; one of the keyring's is not newer than the entry; the
\* credentials of before were sealed with the keyring's.
DocInv(doc) ==
    /\ doc.form # "none" => doc.key # 0 /\ (doc.source = "keyring" => doc.key <= entry)
    /\ doc.form # "sealed" => doc.source = "keyring"
FileInv == \A a \in Artifacts : DocInv(file[a])

\* Where a load can be, and how the key in its hands relates to the document's.
LoadInv(j) ==
    j.op = "load" =>
        /\ j.pc # "select"
        /\ j.source = "keyring"
        /\ DocInv(j.doc)
        /\ j.pc = "ring" => j.doc.form # "none" /\ j.doc.source = "keyring"
        /\ j.pc \in {"reseal", "create", "write"} => j.doc.form = "legacy"
        /\ j.pc = "open" =>
              /\ j.doc.form # "none"
              /\ IF j.doc.source = "passphrase" THEN j.key = j.env
                 ELSE j.doc.key <= j.key /\ j.key <= entry
        /\ j.pc = "write" => j.doc.key <= j.key

JobInv(j) ==
    j.pc # "idle" =>
        /\ j.told = "none"
        /\ j.pc \in {"read", "open"} => j.op = "load"
        /\ LoadInv(j)
        /\ j.pc = "write" => j.key # 0 /\ (j.source = "keyring" => j.key <= entry)
JobsInv == \A p \in Procs : JobInv(job[p])

\* Unless two processes raced for it, the keyring's key is created once, and
\* whatever is sealed or about to be sealed with the keyring has that key.
OnceInv ==
    ~raced =>
        /\ \A a \in Artifacts :
              file[a].form # "none" /\ file[a].source = "keyring" => file[a].key = entry
        /\ \A p \in Procs : At(p, "create") => entry = 0
        /\ \A p \in Procs :
              At(p, "write") /\ job[p].source = "keyring" => job[p].key = entry

IInv == EntryInv /\ FileInv /\ JobsInv /\ OnceInv

\* What a call may be set to, field by field.
Pcs == {"idle", "select", "read", "ring", "reseal", "create", "open", "write"}

\* No file, and no call, are values of their types.
LEMMA Nothing == NoFile \in Doc /\ Idle \in Job
<1>1. 0 \in Keys /\ 0 \in 0 .. MaxSaves
  BY SizeAssumption DEF Keys
<1>2. NoFile \in Doc
  BY <1>1 DEF NoFile, Doc
<1> QED BY <1>1, <1>2, SizeAssumption DEF Idle, Job

\* Keys and their counter are natural numbers.
LEMMA KeysAreNumbers == Keys \subseteq Nat /\ 0 .. MaxKeys \subseteq Nat
  BY SizeAssumption DEF Keys

\* Replacing one call leaves the others.
LEMMA Replaced ==
    ASSUME job \in [Procs -> Job], NEW p \in Procs, NEW j \in Job, job' = [job EXCEPT ![p] = j]
    PROVE  job' \in [Procs -> Job]
  OBVIOUS

\* A call that ends keeps its type.
LEMMA Ends ==
    ASSUME job \in [Procs -> Job], NEW p \in Procs, NEW r \in {"done", "failed"}, End(p, r)
    PROVE  job' \in [Procs -> Job]
<1>1. job' = [job EXCEPT ![p] = [job[p] EXCEPT !.pc = "idle", !.told = r]]
  BY DEF End
<1>2. [job[p] EXCEPT !.pc = "idle", !.told = r] \in Job
  <2>1. ASSUME NEW j \in Job PROVE [j EXCEPT !.pc = "idle", !.told = r] \in Job
    BY DEF Job
  <2> QED BY <2>1
<1> QED BY <1>1, <1>2, Replaced

\* A call that goes on keeps its type.
LEMMA Goes ==
    ASSUME job \in [Procs -> Job], NEW p \in Procs, NEW place \in Pcs, Goto(p, place)
    PROVE  job' \in [Procs -> Job]
<1>1. job' = [job EXCEPT ![p] = [job[p] EXCEPT !.pc = place]]
  BY DEF Goto
<1>2. [job[p] EXCEPT !.pc = place] \in Job
  <2>1. \A j \in Job : [j EXCEPT !.pc = place] \in Job
    BY DEF Job, Pcs
  <2> QED BY <2>1
<1> QED BY <1>1, <1>2, Replaced

\* A call keeps its type when it gets the keyring's key.
LEMMA Takes ==
    ASSUME job \in [Procs -> Job], NEW p \in Procs, NEW n \in Keys, HaveKey(p, n)
    PROVE  job' \in [Procs -> Job]
<1>1. CASE End(p, "done")
  BY <1>1, Ends
<1>2. ASSUME NEW place \in Pcs, job' = [job EXCEPT ![p].key = n, ![p].pc = place]
      PROVE  job' \in [Procs -> Job]
  <2>1. job' = [job EXCEPT ![p] = [job[p] EXCEPT !.key = n, !.pc = place]]
    BY <1>2
  <2>2. [job[p] EXCEPT !.key = n, !.pc = place] \in Job
    <3>1. \A j \in Job : [j EXCEPT !.key = n, !.pc = place] \in Job
      BY DEF Job, Pcs
    <3> QED BY <3>1
  <2> QED BY <2>1, <2>2, Replaced
<1>3. CASE ~End(p, "done")
  <2>1. \E place \in Pcs : job' = [job EXCEPT ![p].key = n, ![p].pc = place]
    BY <1>3 DEF HaveKey, Pcs
  <2> QED BY <1>2, <2>1
<1> QED BY <1>1, <1>3

\* A call keeps its type when it takes the key of its passphrase.
LEMMA Seals ==
    ASSUME job \in [Procs -> Job], NEW p \in Procs,
           job' = [job EXCEPT ![p].source = "passphrase", ![p].key = job[p].env, ![p].pc = "write"]
    PROVE  job' \in [Procs -> Job]
<1>1. job' = [job EXCEPT ![p] = [job[p] EXCEPT !.source = "passphrase", !.key = job[p].env,
                                               !.pc = "write"]]
  OBVIOUS
<1>2. job[p].env \in Keys
  BY DEF Job, Keys
<1>3. [job[p] EXCEPT !.source = "passphrase", !.key = job[p].env, !.pc = "write"] \in Job
  <2>1. \A j \in Job, n \in Keys :
           [j EXCEPT !.source = "passphrase", !.key = n, !.pc = "write"] \in Job
    BY DEF Job
  <2> QED BY <2>1, <1>2
<1> QED BY <1>1, <1>3, Replaced

\* A load keeps its type when it has opened the document.
LEMMA Migrates ==
    ASSUME job \in [Procs -> Job], NEW p \in Procs, Migrate(p)
    PROVE  job' \in [Procs -> Job]
<1>1. job[p].doc.value \in 0 .. MaxSaves
  BY DEF Job, Doc
<1>2. CASE job' = [job EXCEPT ![p].value = job[p].doc.value, ![p].pc = "reseal"]
  <2>1. job' = [job EXCEPT ![p] = [job[p] EXCEPT !.value = job[p].doc.value, !.pc = "reseal"]]
    BY <1>2
  <2>2. \A j \in Job, v \in 0 .. MaxSaves : [j EXCEPT !.value = v, !.pc = "reseal"] \in Job
    BY DEF Job
  <2> QED BY <1>1, <2>1, <2>2, Replaced
<1>3. CASE job' = [job EXCEPT ![p].value = job[p].doc.value, ![p].pc = "idle",
                              ![p].told = "done"]
  <2>1. job' = [job EXCEPT ![p] = [job[p] EXCEPT !.value = job[p].doc.value, !.pc = "idle",
                                                 !.told = "done"]]
    BY <1>3
  <2>2. \A j \in Job, v \in 0 .. MaxSaves :
           [j EXCEPT !.value = v, !.pc = "idle", !.told = "done"] \in Job
    BY DEF Job
  <2> QED BY <1>1, <2>1, <2>2, Replaced
<1> QED BY <1>2, <1>3 DEF Migrate

\* The initial states satisfy the inductive invariant.
LEMMA InitIsGood == Init => TypeOK /\ IInv
<1> SUFFICES ASSUME Init PROVE TypeOK /\ IInv
  OBVIOUS
<1>1. PICK credentials \in {NoFile, [NoFile EXCEPT !.form = "legacy", !.key = 1]} :
         /\ credentials # NoFile => entry = 1
         /\ file = [a \in Artifacts |-> IF a = Credentials THEN credentials ELSE NoFile]
  BY DEF Init
<1>2. credentials \in Doc
  <2>1. 1 \in Keys
    BY SizeAssumption DEF Keys
  <2> QED BY <2>1, Nothing DEF Doc
<1>3. TypeOK
  <2>1. file \in [Artifacts -> Doc] /\ job \in [Procs -> Job]
    BY <1>1, <1>2, Nothing DEF Init
  <2>2. entry \in 0 .. MaxKeys /\ keys \in 0 .. MaxKeys
    BY SizeAssumption DEF Init
  <2>3. 0 \in 0 .. MaxSaves /\ 0 \in 0 .. MaxCalls /\ 0 \in 0 .. MaxCrashes
    BY SizeAssumption
  <2>4. /\ ring \in {"open", "none"} /\ raced = FALSE
        /\ saves = 0 /\ calls = 0 /\ crashes = 0
    BY DEF Init
  <2> QED BY <2>1, <2>2, <2>3, <2>4 DEF TypeOK
<1>4. EntryInv
  BY DEF EntryInv, Init
<1>5. DocInv(credentials) /\ DocInv(NoFile)
  <2>1. DocInv(NoFile)
    BY DEF DocInv, NoFile
  <2>2. CASE credentials = NoFile
    BY <2>1, <2>2
  <2>3. CASE credentials # NoFile
    <3>1. credentials = [NoFile EXCEPT !.form = "legacy", !.key = 1] /\ entry = 1
      BY <1>1, <2>3
    <3>2. credentials.form = "legacy" /\ credentials.key = 1 /\ credentials.source = "keyring"
      BY <3>1 DEF NoFile
    <3>3. DocInv(credentials)
      BY <3>1, <3>2 DEF DocInv
    <3> QED BY <2>1, <3>3
  <2> QED BY <2>2, <2>3
<1>6. FileInv
  BY <1>1, <1>5 DEF FileInv
<1>7. JobsInv
  BY DEF JobsInv, JobInv, Init, Idle
<1>8. OnceInv
  <2>1. \A p \in Procs : ~At(p, "create") /\ ~At(p, "write")
    BY DEF Init, Idle, At
  <2>2. \A a \in Artifacts : file[a].form # "none" => file[a].key = entry
    <3>1. credentials.form # "none" => credentials.key = entry
      <4>1. CASE credentials = NoFile
        BY <4>1 DEF NoFile
      <4>2. CASE credentials # NoFile
        <5>1. credentials = [NoFile EXCEPT !.form = "legacy", !.key = 1] /\ entry = 1
          BY <1>1, <4>2
        <5> QED BY <5>1 DEF NoFile
      <4> QED BY <4>1, <4>2
    <3>2. NoFile.form = "none"
      BY DEF NoFile
    <3> QED BY <1>1, <3>1, <3>2
  <2> QED BY <2>1, <2>2 DEF OnceInv
<1> QED BY <1>3, <1>4, <1>6, <1>7, <1>8 DEF IInv

\* What Start makes of a call: it knows nothing yet.
LEMMA StartIs ==
    ASSUME TypeOK, NEW p \in Procs, Start(p)
    PROVE  \E j \in Job :
              /\ job' = [job EXCEPT ![p] = j]
              /\ JobInv(j) /\ j.pc \in {"select", "read"}
<1>1. saves' \in 0 .. MaxSaves
  BY SizeAssumption DEF TypeOK, Start
<1>2. ASSUME NEW e \in Passphrases \union {0}, NEW a \in Artifacts PROVE
         /\ [Idle EXCEPT !.pc = "select", !.op = "preflight", !.env = e] \in Job
         /\ [Idle EXCEPT !.pc = "select", !.op = "save", !.art = a, !.env = e,
                         !.value = saves'] \in Job
         /\ [Idle EXCEPT !.pc = "read", !.op = "load", !.art = a, !.env = e] \in Job
  BY <1>1, Nothing DEF Job
<1>3. ASSUME NEW e \in Passphrases \union {0}, NEW a \in Artifacts PROVE
         /\ JobInv([Idle EXCEPT !.pc = "select", !.op = "preflight", !.env = e])
         /\ JobInv([Idle EXCEPT !.pc = "select", !.op = "save", !.art = a, !.env = e,
                                !.value = saves'])
         /\ JobInv([Idle EXCEPT !.pc = "read", !.op = "load", !.art = a, !.env = e])
  BY DEF JobInv, LoadInv, DocInv, Idle, NoFile
<1>4. ASSUME NEW e \in Passphrases \union {0}, NEW a \in Artifacts PROVE
         /\ [Idle EXCEPT !.pc = "select", !.op = "preflight", !.env = e].pc = "select"
         /\ [Idle EXCEPT !.pc = "select", !.op = "save", !.art = a, !.env = e,
                         !.value = saves'].pc = "select"
         /\ [Idle EXCEPT !.pc = "read", !.op = "load", !.art = a, !.env = e].pc = "read"
  BY DEF Idle
<1>5. PICK e \in Passphrases \union {0}, a \in Artifacts :
         \/ job' = [job EXCEPT ![p] = [Idle EXCEPT !.pc = "select", !.op = "preflight", !.env = e]]
         \/ job' = [job EXCEPT ![p] = [Idle EXCEPT !.pc = "select", !.op = "save", !.art = a,
                                                   !.env = e, !.value = saves']]
         \/ job' = [job EXCEPT ![p] = [Idle EXCEPT !.pc = "read", !.op = "load", !.art = a,
                                                   !.env = e]]
  BY Zenon DEF Start
<1> DEFINE preflight == [Idle EXCEPT !.pc = "select", !.op = "preflight", !.env = e]
           save == [Idle EXCEPT !.pc = "select", !.op = "save", !.art = a, !.env = e,
                                !.value = saves']
           load == [Idle EXCEPT !.pc = "read", !.op = "load", !.art = a, !.env = e]
<1>6. /\ preflight \in Job /\ JobInv(preflight) /\ preflight.pc = "select"
      /\ save \in Job /\ JobInv(save) /\ save.pc = "select"
      /\ load \in Job /\ JobInv(load) /\ load.pc = "read"
  BY <1>2, <1>3, <1>4
<1>7. \/ job' = [job EXCEPT ![p] = preflight]
      \/ job' = [job EXCEPT ![p] = save]
      \/ job' = [job EXCEPT ![p] = load]
  BY <1>5
<1> HIDE DEF preflight, save, load
<1> QED BY ONLY <1>6, <1>7

\* What ReadFile makes of a call: it has a document and may have its key; it fails only
\* without the passphrase the document asks for.
LEMMA ReadFileIs ==
    ASSUME TypeOK, FileInv, JobsInv, NEW p \in Procs, ReadFile(p)
    PROVE  \E j \in Job :
              /\ job' = [job EXCEPT ![p] = j]
              /\ JobInv(j) /\ j.pc \in {"idle", "open", "ring"}
              /\ j.told = "failed" =>
                    j.doc = file[job[p].art] /\ j.doc.source = "passphrase" /\ job[p].env = 0
<1> DEFINE read == [job[p] EXCEPT !.doc = file[job[p].art]]
           open == [read EXCEPT !.key = read.env, !.pc = "open"]
           fails == [read EXCEPT !.pc = "idle", !.told = "failed"]
           waits == [read EXCEPT !.pc = "ring"]
           ends == [job[p] EXCEPT !.pc = "idle", !.told = "done"]
<1>1. job[p] \in Job /\ job[p].art \in Artifacts /\ file[job[p].art] \in Doc
  BY DEF TypeOK, Job
<1>2. read \in Job /\ ends \in Job
  <2>1. \A j \in Job, doc \in Doc : [j EXCEPT !.doc = doc] \in Job
    BY DEF Job
  <2>2. ASSUME NEW j \in Job PROVE [j EXCEPT !.pc = "idle", !.told = "done"] \in Job
    BY DEF Job
  <2> QED BY <1>1, <2>1, <2>2
<1>3. read.env \in Keys
  <2>1. ASSUME NEW j \in Job PROVE j.env \in Keys
    BY SizeAssumption DEF Job, Keys
  <2> QED BY <1>2, <2>1
<1>4. open \in Job /\ fails \in Job /\ waits \in Job
  <2>1. \A j \in Job, n \in Keys : [j EXCEPT !.key = n, !.pc = "open"] \in Job
    BY DEF Job
  <2>2. ASSUME NEW j \in Job PROVE [j EXCEPT !.pc = "idle", !.told = "failed"] \in Job
    BY DEF Job
  <2>3. ASSUME NEW j \in Job PROVE [j EXCEPT !.pc = "ring"] \in Job
    BY DEF Job
  <2> HIDE DEF read
  <2> QED BY <1>2, <1>3, <2>1, <2>2, <2>3
<1>5. /\ job[p].pc = "read" /\ job[p].op = "load" /\ job[p].told = "none"
      /\ job[p].source = "keyring"
  BY <1>1 DEF JobsInv, JobInv, LoadInv, ReadFile, At
<1>6. DocInv(read.doc)
  BY <1>1, <1>5 DEF FileInv, Job
<1>7. JobInv(ends) /\ JobInv(fails)
  BY <1>1, <1>2 DEF JobInv, Job
<1>8. read.doc.source \in {"passphrase", "keyring"} /\ read.doc.form \in {"none", "legacy", "sealed"}
  BY <1>2 DEF Job, Doc
<1>9. read.doc.form # "none" /\ read.doc.source = "passphrase" => JobInv(open)
  BY <1>1, <1>5, <1>6 DEF JobInv, LoadInv, DocInv, Job
<1>10. read.doc.form # "none" /\ read.doc.source = "keyring" => JobInv(waits)
  BY <1>1, <1>5, <1>6 DEF JobInv, LoadInv, DocInv, Job
<1>11. /\ ends.pc = "idle" /\ fails.pc = "idle" /\ open.pc = "open" /\ waits.pc = "ring"
  BY <1>1 DEF Job
<1>12. \/ job' = [job EXCEPT ![p] = ends]
       \/ job' = [job EXCEPT ![p] = fails] /\ read.doc.source = "passphrase" /\ job[p].env = 0
       \/ job' = [job EXCEPT ![p] = open] /\ read.doc.form # "none" /\ read.doc.source = "passphrase"
       \/ job' = [job EXCEPT ![p] = waits] /\ read.doc.form # "none" /\ read.doc.source = "keyring"
  <2>1. job \in [Procs -> Job]
    BY DEF TypeOK
  <2>2. End(p, "done") => job' = [job EXCEPT ![p] = ends]
    BY <2>1 DEF End
  <2>3. file[job[p].art] = read.doc /\ job[p].env = read.env
    BY <1>1 DEF Job
  <2>4. CASE read.doc.form = "none"
    <3>1. read.doc.source = "keyring"
      BY <1>6, <2>4 DEF DocInv
    <3> QED BY <2>2, <2>4, <3>1 DEF ReadFile
  <2>5. CASE read.doc.form # "none" /\ read.doc.source = "passphrase" /\ read.env # 0
    BY <2>5 DEF ReadFile
  <2>6. CASE read.doc.form # "none" /\ read.doc.source = "passphrase" /\ read.env = 0
    BY <2>6 DEF ReadFile
  <2>7. CASE read.doc.form # "none" /\ read.doc.source = "keyring"
    BY <2>7 DEF ReadFile
  <2> QED BY <1>8, <2>4, <2>5, <2>6, <2>7
<1>13. /\ ends.told = "done" /\ open.told = "none" /\ waits.told = "none"
       /\ fails.doc = file[job[p].art] /\ fails.doc = read.doc
  BY <1>1, <1>5 DEF Job
<1> HIDE DEF read, open, fails, waits, ends
<1> QED BY <1>2, <1>4, <1>7, <1>9, <1>10, <1>11, <1>12, <1>13

\* Calls keep their type.
LEMMA JobStep == TypeOK /\ IInv /\ [Next]_vars => job' \in [Procs -> Job]
<1> SUFFICES ASSUME TypeOK, IInv, [Next]_vars PROVE job' \in [Procs -> Job]
  OBVIOUS
<1> USE DEF IInv, vars, bounds
<1>1. ASSUME NEW p \in Procs,
             \/ Start(p) \/ Remove(p) \/ Select(p) \/ ReadEntry(p) \/ CreateEntry(p)
             \/ Write(p) \/ ReadFile(p) \/ OpenEnvelope(p) \/ Crash(p)
      PROVE  job' \in [Procs -> Job]
  <2>1. CASE Start(p)
    BY <2>1, StartIs, Replaced DEF TypeOK
  <2>2. CASE Remove(p)
    BY <2>2 DEF Remove, TypeOK
  <2>3. CASE Select(p)
    BY <2>3, Ends, Goes, Seals DEF Select, TypeOK, Pcs
  <2>4. CASE ReadEntry(p)
    <3>1. entry \in Keys
      BY DEF Keys, TypeOK
    <3> QED BY <2>4, <3>1, Ends, Goes, Takes DEF ReadEntry, TypeOK, Pcs
  <2>5. CASE CreateEntry(p)
    <3>1. keys < MaxKeys => keys + 1 \in Keys
      BY SizeAssumption DEF Keys, TypeOK
    <3> QED BY <2>5, <3>1, Ends, Takes DEF CreateEntry, TypeOK
  <2>6. CASE Write(p)
    BY <2>6, Ends DEF Write, TypeOK
  <2>7. CASE ReadFile(p)
    BY <2>7, ReadFileIs, Replaced DEF TypeOK
  <2>8. CASE OpenEnvelope(p)
    BY <2>8, Ends, Migrates DEF OpenEnvelope, TypeOK
  <2>9. CASE Crash(p)
    BY <2>9, Nothing DEF Crash, TypeOK
  <2> QED BY <1>1, <2>1, <2>2, <2>3, <2>4, <2>5, <2>6, <2>7, <2>8, <2>9
<1>2. CASE RingChanges
  BY <1>2 DEF RingChanges, TypeOK
<1>3. CASE UNCHANGED vars
  BY <1>3 DEF TypeOK
<1> QED BY <1>1, <1>2, <1>3 DEF Next

\* Every variable keeps its type.
LEMMA TypeStep == TypeOK /\ IInv /\ [Next]_vars => TypeOK'
<1> SUFFICES ASSUME TypeOK, IInv, [Next]_vars PROVE TypeOK'
  OBVIOUS
<1>0. job' \in [Procs -> Job]
  BY JobStep
<1> USE SizeAssumption, <1>0 DEF TypeOK, vars, bounds, At
<1>1. ASSUME NEW p \in Procs,
             \/ Start(p) \/ Remove(p) \/ Select(p) \/ ReadEntry(p) \/ CreateEntry(p)
             \/ Write(p) \/ ReadFile(p) \/ OpenEnvelope(p) \/ Crash(p)
      PROVE  TypeOK'
  <2>1. CASE Start(p)
    BY <2>1 DEF Start
  <2>2. CASE Remove(p)
    BY <2>2, Nothing DEF Remove
  <2>3. CASE Select(p)
    BY <2>3 DEF Select
  <2>4. CASE ReadEntry(p)
    BY <2>4 DEF ReadEntry
  <2>5. CASE CreateEntry(p)
    <3>1. entry' \in 0 .. MaxKeys /\ keys' \in 0 .. MaxKeys
      BY <2>5 DEF CreateEntry
    <3>2. raced' \in BOOLEAN
      BY <2>5 DEF CreateEntry
    <3> QED BY <2>5, <3>1, <3>2 DEF CreateEntry
  <2>6. CASE Write(p)
    <3>1. job[p] \in Job
      OBVIOUS
    <3>2. [form |-> "sealed", source |-> job[p].source, key |-> job[p].key,
           value |-> job[p].value] \in Doc
      BY <3>1 DEF Job, Doc
    <3>3. file' \in [Artifacts -> Doc]
      BY <2>6, <3>2 DEF Write
    <3> QED BY <2>6, <3>3 DEF Write
  <2>7. CASE ReadFile(p)
    BY <2>7 DEF ReadFile
  <2>8. CASE OpenEnvelope(p)
    BY <2>8 DEF OpenEnvelope
  <2>9. CASE Crash(p)
    BY <2>9 DEF Crash
  <2> QED BY <1>1, <2>1, <2>2, <2>3, <2>4, <2>5, <2>6, <2>7, <2>8, <2>9
<1>2. CASE RingChanges
  BY <1>2 DEF RingChanges
<1>3. CASE UNCHANGED vars
  BY <1>3
<1> QED BY <1>1, <1>2, <1>3 DEF Next

\* Files keep what is known of their keys.
LEMMA FileStep == TypeOK /\ IInv /\ [Next]_vars => EntryInv' /\ FileInv'
<1> SUFFICES ASSUME TypeOK, IInv, [Next]_vars PROVE EntryInv' /\ FileInv'
  OBVIOUS
<1> USE SizeAssumption DEF TypeOK, IInv, vars, bounds, At, EntryInv, FileInv, DocInv,
    JobsInv, JobInv, Keys
<1>1. ASSUME NEW p \in Procs,
             \/ Start(p) \/ Remove(p) \/ Select(p) \/ ReadEntry(p) \/ CreateEntry(p)
             \/ Write(p) \/ ReadFile(p) \/ OpenEnvelope(p) \/ Crash(p)
      PROVE  EntryInv' /\ FileInv'
  <2>1. CASE Start(p)
    BY <2>1 DEF Start
  <2>2. CASE Remove(p)
    BY <2>2 DEF Remove, NoFile
  <2>3. CASE Select(p)
    BY <2>3 DEF Select, End, Goto
  <2>4. CASE ReadEntry(p)
    BY <2>4 DEF ReadEntry, HaveKey, Creates, End, Goto
  <2>5. CASE CreateEntry(p)
    BY <2>5 DEF CreateEntry, HaveKey, End, Doc
  <2>6. CASE Write(p)
    <3>1. job[p] \in Job /\ job[p].art \in Artifacts
      BY DEF Job
    <3>2. job[p].key # 0 /\ (job[p].source = "keyring" => job[p].key <= entry)
      BY <2>6 DEF Write
    <3> QED BY <2>6, <3>1, <3>2 DEF Write
  <2>7. CASE ReadFile(p)
    BY <2>7 DEF ReadFile, End
  <2>8. CASE OpenEnvelope(p)
    BY <2>8 DEF OpenEnvelope, Migrate, End
  <2>9. CASE Crash(p)
    BY <2>9 DEF Crash
  <2> QED BY <1>1, <2>1, <2>2, <2>3, <2>4, <2>5, <2>6, <2>7, <2>8, <2>9
<1>2. CASE RingChanges
  BY <1>2 DEF RingChanges
<1>3. CASE UNCHANGED vars
  BY <1>3
<1> QED BY <1>1, <1>2, <1>3 DEF Next

\* A call keeps what it knows, whatever the others do.
LEMMA JobsStep == TypeOK /\ IInv /\ [Next]_vars => JobsInv'
<1> SUFFICES ASSUME TypeOK, IInv, [Next]_vars PROVE JobsInv'
  OBVIOUS
<1> USE SizeAssumption DEF TypeOK, IInv, vars, bounds, At, EntryInv, FileInv, DocInv,
    Job, Doc, Keys, NoFile, Idle, JobsInv, JobInv, LoadInv
<1>1. ASSUME NEW p \in Procs,
             \/ Start(p) \/ Remove(p) \/ Select(p) \/ ReadEntry(p) \/ CreateEntry(p)
             \/ Write(p) \/ ReadFile(p) \/ OpenEnvelope(p) \/ Crash(p)
      PROVE  JobsInv'
  <2>1. CASE Start(p)
    <3>1. entry' = entry
      BY <2>1 DEF Start
    <3> QED BY ONLY <2>1, <3>1, StartIs, TypeOK, JobsInv, p \in Procs
         DEF JobsInv, JobInv, LoadInv, DocInv, TypeOK
  <2>2. CASE Remove(p)
    BY <2>2 DEF Remove
  <2>3. CASE Select(p)
    BY <2>3 DEF Select, End, Goto
  <2>4. CASE ReadEntry(p)
    <3>0. job[p] \in Job /\ entry' = entry /\ job[p].pc \in {"ring", "reseal"}
      BY <2>4 DEF ReadEntry
    <3>1. CASE End(p, "failed")
      BY <3>0, <3>1 DEF End
    <3>2. CASE Creates(p) /\ Goto(p, "create")
      BY <3>0, <3>2 DEF Creates, Goto
    <3>3. CASE entry # 0 /\ HaveKey(p, entry)
      <4>1. CASE job[p].op = "preflight"
        BY <3>0, <3>3, <4>1 DEF HaveKey, End
      <4>2. CASE job[p].op # "preflight" /\ Creates(p)
        BY <3>0, <3>3, <4>2 DEF HaveKey, Creates
      <4>3. CASE job[p].op # "preflight" /\ ~Creates(p)
        BY <3>0, <3>3, <4>3 DEF HaveKey, Creates
      <4> QED BY <4>1, <4>2, <4>3
    <3> QED BY ONLY <2>4, <3>1, <3>2, <3>3 DEF ReadEntry
  <2>5. CASE CreateEntry(p)
    BY <2>5, SMTT(40) DEF CreateEntry, HaveKey, Creates, End
  <2>6. CASE Write(p)
    BY <2>6 DEF Write, End
  <2>7. CASE ReadFile(p)
    <3>1. entry' = entry
      BY <2>7 DEF ReadFile
    <3> QED BY ONLY <2>7, <3>1, ReadFileIs, TypeOK, FileInv, JobsInv, p \in Procs
         DEF JobsInv, JobInv, LoadInv, DocInv, TypeOK
  <2>8. CASE OpenEnvelope(p)
    <3>1. CASE End(p, "failed")
      BY <2>8, <3>1 DEF OpenEnvelope, End
    <3>2. CASE job[p].key = job[p].doc.key /\ Migrate(p)
      <4>1. CASE job[p].doc.form = "legacy"
        BY <2>8, <3>2, <4>1 DEF OpenEnvelope, Migrate
      <4>2. CASE job[p].doc.form # "legacy"
        BY <2>8, <3>2, <4>2 DEF OpenEnvelope, Migrate
      <4> QED BY <4>1, <4>2
    <3> QED BY <2>8, <3>1, <3>2 DEF OpenEnvelope
  <2>9. CASE Crash(p)
    BY <2>9 DEF Crash
  <2> QED BY <1>1, <2>1, <2>2, <2>3, <2>4, <2>5, <2>6, <2>7, <2>8, <2>9
<1>2. CASE RingChanges
  BY <1>2 DEF RingChanges
<1>3. CASE UNCHANGED vars
  BY <1>3
<1> QED BY <1>1, <1>2, <1>3, SMTT(40) DEF Next

\* The keyring's key is created once.
LEMMA OnceStep == TypeOK /\ IInv /\ [Next]_vars => OnceInv'
<1> SUFFICES ASSUME TypeOK, IInv, [Next]_vars PROVE OnceInv'
  OBVIOUS
<1> USE SizeAssumption DEF TypeOK, IInv, vars, bounds, At, EntryInv, FileInv, DocInv,
    Job, Doc, Keys, NoFile, Idle, JobsInv, JobInv, LoadInv, OnceInv
<1>1. ASSUME NEW p \in Procs,
             \/ Start(p) \/ Remove(p) \/ Select(p) \/ ReadEntry(p) \/ CreateEntry(p)
             \/ Write(p) \/ ReadFile(p) \/ OpenEnvelope(p) \/ Crash(p)
      PROVE  OnceInv'
  <2>1. CASE Start(p)
    <3>1. \A q \in Procs : (At(q, "create") \/ At(q, "write"))' => job'[q] = job[q]
      BY ONLY <2>1, StartIs, TypeOK, FileInv, JobsInv, p \in Procs DEF TypeOK, At
    <3> QED BY <2>1, <3>1 DEF Start
  <2>2. CASE Remove(p)
    BY <2>2 DEF Remove
  <2>3. CASE Select(p)
    <3>1. CASE job[p].env # 0 /\ job[p].op = "preflight"
      BY <2>3, <3>1 DEF Select, End
    <3>2. CASE job[p].env # 0 /\ job[p].op # "preflight"
      BY <2>3, <3>2 DEF Select
    <3>3. CASE job[p].env = 0 /\ ring = "none"
      BY <2>3, <3>3, SMTT(40) DEF Select, End
    <3>4. CASE job[p].env = 0 /\ ring # "none"
      BY <2>3, <3>4, SMTT(40) DEF Select, Goto
    <3> QED BY <3>1, <3>2, <3>3, <3>4
  <2>4. CASE ReadEntry(p)
    BY <2>4, SMTT(40) DEF ReadEntry, HaveKey, Creates, End, Goto
  <2>5. CASE CreateEntry(p)
    BY <2>5, SMTT(40) DEF CreateEntry, HaveKey, Creates, End
  <2>6. CASE Write(p)
    BY <2>6, SMTT(40) DEF Write, End
  <2>7. CASE ReadFile(p)
    <3>1. \A q \in Procs : (At(q, "create") \/ At(q, "write"))' => job'[q] = job[q]
      BY ONLY <2>7, ReadFileIs, TypeOK, FileInv, JobsInv, p \in Procs DEF TypeOK, At
    <3> QED BY <2>7, <3>1 DEF ReadFile
  <2>8. CASE OpenEnvelope(p)
    BY <2>8 DEF OpenEnvelope, Migrate, End
  <2>9. CASE Crash(p)
    BY <2>9 DEF Crash
  <2> QED BY <1>1, <2>1, <2>2, <2>3, <2>4, <2>5, <2>6, <2>7, <2>8, <2>9
<1>2. CASE RingChanges
  BY <1>2 DEF RingChanges
<1>3. CASE UNCHANGED vars
  BY <1>3
<1> QED BY <1>1, <1>2, <1>3 DEF Next

\* TypeOK /\ IInv is inductive.
LEMMA Inductive == TypeOK /\ IInv /\ [Next]_vars => TypeOK' /\ IInv'
  BY TypeStep, FileStep, JobsStep, OnceStep DEF IInv

\* A step of one call leaves the others where they are.
LEMMA OthersStay ==
    ASSUME TypeOK, NEW p \in Procs, NEW q \in Procs, q # p,
           \/ Start(q) \/ Remove(q) \/ Select(q) \/ ReadEntry(q) \/ CreateEntry(q)
           \/ Write(q) \/ ReadFile(q) \/ OpenEnvelope(q) \/ Crash(q)
    PROVE  job'[p] = job[p]
<1> USE DEF TypeOK
<1>1. CASE Start(q)
  BY <1>1 DEF Start
<1>2. CASE Remove(q) \/ Crash(q)
  BY <1>2 DEF Remove, Crash
<1>3. CASE Select(q)
  BY <1>3 DEF Select, End, Goto
<1>4. CASE ReadEntry(q) \/ CreateEntry(q)
  BY <1>4 DEF ReadEntry, CreateEntry, HaveKey, End, Goto
<1>5. CASE Write(q)
  BY <1>5 DEF Write, End
<1>6. CASE ReadFile(q)
  BY <1>6 DEF ReadFile, End
<1>7. CASE OpenEnvelope(q)
  BY <1>7 DEF OpenEnvelope, Migrate, End
<1> QED BY <1>1, <1>2, <1>3, <1>4, <1>5, <1>6, <1>7, SMTT(40)

\* A load gives up a write only by doing it with the key that sealed the document, by
\* failing or by being killed.
LEMMA LoadsStep ==
    ASSUME TypeOK, IInv, [Next]_vars, NEW p \in Procs, NEW a \in Artifacts,
           NEW e \in Passphrases \union {0},
           At(p, "write"), ~At(p, "write")', job[p].op = "load", job[p].art = a,
           file[a] = job[p].doc, CanOpen(a, e)
    PROVE  CanOpen(a, e)'
<1>1. job'[p] # job[p]
  BY DEF At
<1>2. Write(p) \/ Crash(p)
  <2>1. ~UNCHANGED vars /\ ~RingChanges
    BY <1>1 DEF vars, RingChanges
  <2>2. PICK q \in Procs :
           \/ Start(q) \/ Remove(q) \/ Select(q) \/ ReadEntry(q) \/ CreateEntry(q)
           \/ Write(q) \/ ReadFile(q) \/ OpenEnvelope(q) \/ Crash(q)
    BY <2>1 DEF Next
  <2>3. q = p
    BY <1>1, <2>2, OthersStay
  <2> QED BY <2>2, <2>3 DEF At, Start, Remove, Select, ReadEntry, CreateEntry, ReadFile,
                          OpenEnvelope
<1>3. CASE UNCHANGED <<file, entry>>
  BY <1>3 DEF CanOpen
<1>4. CASE Write(p) /\ ~UNCHANGED file
  <2>1. /\ file'[a] = [form |-> "sealed", source |-> job[p].source, key |-> job[p].key,
                        value |-> job[p].value]
        /\ entry' = entry
    BY <1>4 DEF Write, TypeOK
  <2>2. /\ job[p].source = "keyring" /\ job[p].doc.source = "keyring"
        /\ job[p].doc.key <= job[p].key /\ job[p].key <= entry
    BY DEF IInv, JobsInv, JobInv, LoadInv, DocInv, At
  <2>3. job[p].doc.key = entry
    BY <2>2 DEF CanOpen
  <2>4. job[p].key = entry
    <3>1. job[p].key \in Nat /\ entry \in Nat
      BY KeysAreNumbers DEF TypeOK, Job
    <3> QED BY <2>2, <2>3, <3>1
  <2> QED BY <2>1, <2>2, <2>4 DEF CanOpen
<1> QED BY <1>2, <1>3, <1>4 DEF Write, Crash

\* What a load is told when the source that sealed the document has its key at hand.
LEMMA OpensStep ==
    ASSUME TypeOK, IInv, [Next]_vars, NEW p \in Procs,
           job[p].op = "load", ~At(p, "idle"), job'[p].told = "failed",
           job'[p].doc.form = "sealed"
    PROVE  IF job'[p].doc.source = "passphrase" THEN job'[p].doc.key # job[p].env
           ELSE ring # "open" \/ job'[p].doc.key # entry
<1> DEFINE Goal == IF job'[p].doc.source = "passphrase" THEN job'[p].doc.key # job[p].env
                   ELSE ring # "open" \/ job'[p].doc.key # entry
<1>1. job[p] \in Job /\ job[p].told = "none" /\ LoadInv(job[p])
  BY DEF TypeOK, IInv, JobsInv, JobInv, At
<1>2. PICK q \in Procs :
         \/ Start(q) \/ Remove(q) \/ Select(q) \/ ReadEntry(q) \/ CreateEntry(q)
         \/ Write(q) \/ ReadFile(q) \/ OpenEnvelope(q) \/ Crash(q)
  BY <1>1 DEF Next, vars, RingChanges
<1>3. q = p
  BY <1>1, <1>2, OthersStay
<1>4. CASE Start(p) \/ Remove(p)
  BY <1>4 DEF Start, Remove, At
<1>5. CASE Select(p)
  BY <1>1, <1>5 DEF Select, LoadInv, At
<1>6. CASE ReadEntry(p)
  <2>1. job[p].pc \in {"ring", "reseal"}
    BY <1>6 DEF ReadEntry, At
  <2>2. job'[p].doc = job[p].doc
    BY <1>1, <1>6 DEF ReadEntry, HaveKey, End, Goto, TypeOK, Job
  <2>3. job[p].pc = "ring" /\ job[p].doc.key # 0 /\ job[p].doc.source = "keyring"
    BY <1>1, <2>1, <2>2 DEF LoadInv, DocInv
  <2>4. CASE ring = "open" /\ entry # 0
    BY <1>1, <1>6, <2>4 DEF ReadEntry, HaveKey, Creates, TypeOK, Job
  <2> QED BY <2>2, <2>3, <2>4
<1>7. CASE CreateEntry(p)
  <2>1. job'[p].doc = job[p].doc /\ job[p].pc = "create"
    BY <1>1, <1>7 DEF CreateEntry, HaveKey, End, TypeOK, Job, At
  <2> QED BY <1>1, <2>1 DEF LoadInv
<1>8. CASE Write(p)
  <2>1. job'[p].doc = job[p].doc /\ job[p].pc = "write"
    BY <1>1, <1>8 DEF Write, End, TypeOK, Job, At
  <2> QED BY <1>1, <2>1 DEF LoadInv
<1>9. CASE ReadFile(p)
  <2>1. PICK j \in Job :
           /\ job' = [job EXCEPT ![p] = j]
           /\ j.told = "failed" =>
                 j.doc = file[job[p].art] /\ j.doc.source = "passphrase" /\ job[p].env = 0
    BY <1>9, ReadFileIs DEF IInv
  <2>2. job'[p] = j
    BY <2>1 DEF TypeOK
  <2> DEFINE doc == file[job[p].art]
  <2>3. doc \in Doc /\ DocInv(doc)
    BY <1>1 DEF TypeOK, Job, IInv, FileInv
  <2>4. job[p].env = 0 /\ doc.source = "passphrase" /\ job'[p].doc = doc
    BY <2>1, <2>2
  <2> QED BY <2>3, <2>4 DEF DocInv
<1>10. CASE OpenEnvelope(p)
  <2>1. job[p].pc = "open" /\ job'[p].doc = job[p].doc /\ job[p].key # job[p].doc.key
    BY <1>1, <1>10 DEF OpenEnvelope, Migrate, End, TypeOK, Job, At
  <2>2. /\ job[p].doc.source = "passphrase" => job[p].key = job[p].env
        /\ job[p].doc.source # "passphrase" =>
              job[p].doc.key <= job[p].key /\ job[p].key <= entry
    BY <1>1, <2>1 DEF LoadInv
  <2>3. job[p].doc.key \in Nat /\ job[p].key \in Nat /\ entry \in Nat
    BY <1>1, KeysAreNumbers DEF TypeOK, Job, Doc
  <2> QED BY <2>1, <2>2, <2>3
<1>11. CASE Crash(p)
  BY <1>11 DEF Crash, TypeOK, Idle
<1> QED BY <1>2, <1>3, <1>4, <1>5, <1>6, <1>7, <1>8, <1>9, <1>10, <1>11

-----------------------------------------------------------------------------
\* The inductive invariant holds in every behaviour.
THEOREM Invariance == Spec => [](TypeOK /\ IInv)
<1>1. Init => TypeOK /\ IInv
  BY InitIsGood
<1>2. TypeOK /\ IInv /\ [Next]_vars => (TypeOK /\ IInv)'
  BY Inductive
<1> QED BY <1>1, <1>2, PTL DEF Spec

\* Every file, the keyring's key and every local of a call keeps its type.
THEOREM TypeCorrect == Spec => []TypeOK
<1>1. TypeOK /\ IInv => TypeOK
  OBVIOUS
<1> QED BY <1>1, Invariance, PTL

\* _keyring_key: what was sealed with the keyring's key, that key opens, as long as
\* no two processes were creating it at once.
THEOREM KeyIsKept == Spec => []KeyringStaysGood
<1>1. TypeOK /\ IInv => KeyringStaysGood
  BY DEF IInv, OnceInv, KeyringStaysGood
<1> QED BY <1>1, Invariance, PTL

\* _load_and_migrate_legacy: migrating credentials of an old release takes them from
\* nobody, even when two processes raced for the keyring's key.
THEOREM LoadsAreHarmless == Spec => LoadsLockNobodyOut
<1>1. TypeOK /\ IInv /\ [Next]_vars =>
        [\A p \in Procs, a \in Artifacts, e \in Passphrases \union {0} :
          /\ At(p, "write") /\ ~At(p, "write")'
          /\ job[p].op = "load" /\ job[p].art = a /\ file[a] = job[p].doc
          => (CanOpen(a, e) => CanOpen(a, e)')]_vars
  BY LoadsStep
<1> QED BY <1>1, Invariance, PTL DEF Spec, LoadsLockNobodyOut

\* load_json: a sealed document opens with the source it names whenever that source has
\* its key, whatever else is in the environment.
THEOREM SourceOpens == Spec => RecordedSourceOpens
<1>1. TypeOK /\ IInv /\ [Next]_vars =>
        [\A p \in Procs :
          LET doc == job'[p].doc IN
          /\ job[p].op = "load" /\ ~At(p, "idle")
          /\ job'[p].told = "failed" /\ doc.form = "sealed"
          => IF doc.source = "passphrase" THEN doc.key # job[p].env
             ELSE ring # "open" \/ doc.key # entry]_vars
  BY OpensStep
<1> QED BY <1>1, Invariance, PTL DEF Spec, RecordedSourceOpens
=============================================================================
