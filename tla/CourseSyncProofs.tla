---------------------------- MODULE CourseSyncProofs ---------------------------
(***************************************************************************)
(* Proofs about CourseSync, for any processes, topics, directories, names, *)
(* bytes and bounds.  TypeOK, CurrentInv and FolderInv are inductive       *)
(* together.  CurrentInv: what any manifest records of a topic are bytes   *)
(* the topic has had since the date recorded.  FolderInv: whom each path   *)
(* belongs to, and what a run that nothing interfered with has put in step.*)
(***************************************************************************)
EXTENDS CourseSync, FiniteSetTheorems, SequenceTheorems, WellFoundedInduction, TLAPS

Taking == {"topic", "fetch", "reserve", "write"}

\* The topics a run has still to take, and those it has taken.
Left(p) == {todo[p][i] : i \in 1 .. Len(todo[p])}
Done(p) == chosen[p] \ Left(p)

\* The server's dates go up with its changes, and a topic has had no later bytes.
Versioned ==
    \A t \in Topics :
        /\ toc[t].date <= changes
        /\ toc[t].body \in Bodies
        /\ versions[t][toc[t].date] = toc[t].body
        /\ \A d \in Dates : d > toc[t].date => versions[t][d] = Gone

\* The topic has had these bytes at that date or since.
Since(t, date, body) == \E d \in date .. toc[t].date : versions[t][d] = body

Known(manifest) ==
    \A t \in Topics : manifest[t] # NoEntry => Since(t, manifest[t].date, manifest[t].body)

\* What a run has read of the server, and where it is.
ReadInv(p) ==
    /\ pc[p] # "idle" =>
          snap[p] \in [Topics -> Items] /\ \A t \in Topics : snap[p][t].date <= toc[t].date
    /\ pc[p] \in Taking => todo[p] # <<>>
    /\ pc[p] = "finish" => todo[p] = <<>>
    /\ pc[p] \in {"reserve", "write"} =>
          got[p].body \in Bodies /\ Since(Topic(p), snap[p][Topic(p)].date, got[p].body)
    /\ pc[p] = "write" => path[p] \in Paths /\ path[p][1] = snap[p][Topic(p)].dir
    /\ Known(mem[p])

CurrentInv == Versioned /\ Known(saved.entries) /\ \A p \in Procs : ReadInv(p)

\* No other topic of the tree is recorded at the topic's path.
Alone(content, manifest, t) ==
    \A u \in Recorded(content, manifest) \ {t} :
        PathOf(content, manifest, u) # PathOf(content, manifest, t)

\* There is one process: runs do not overlap.
OneRun == \A p, q \in Procs : p = q

\* Whom the paths of a run belong to: a path recorded for one topic is that topic's.
OwnInv(p) ==
    pc[p] \notin {"idle", "load"} =>
        /\ p \notin disturbed \/ OneRun =>
              \A t \in Recorded(snap[p], saved.entries) :
                  Alone(snap[p], saved.entries, t) =>
                      owners[p][PathOf(snap[p], saved.entries, t)] = t
        /\ \A t \in Recorded(snap[p], mem[p]) :
              \/ owners[p][PathOf(snap[p], mem[p], t)] = t
              \/ mode[p] # "force" /\ owners[p][PathOf(snap[p], mem[p], t)] = Contested
        /\ pc[p] = "write" => owners[p][path[p]] = Topic(p)

\* A manifest has the topic in step.
Has(manifest, t) ==
    /\ toc[t].live /\ manifest[t] # NoEntry
    /\ manifest[t].date = toc[t].date
    /\ Matches(toc, manifest, t)
    /\ manifest[t].body = toc[t].body

\* ... at a path that is the topic's.
Keeps(p, t) == Has(mem[p], t) /\ owners[p][PathOf(toc, mem[p], t)] = t

\* A run that nothing interfered with.
QuietInv(p) ==
    pc[p] # "idle" /\ p \notin disturbed =>
        /\ snap[p] = toc
        /\ chosen[p] \subseteq Live(toc)
        /\ pc[p] = "load" => Done(p) = {}
        /\ pc[p] \in {"reserve", "write"} => got[p].body = toc[Topic(p)].body
        /\ pc[p] # "load" =>
              /\ mode[p] # "force" => \A t \in settled : Keeps(p, t)
              /\ ~errs[p] => \A t \in Done(p) : Keeps(p, t)
              /\ ~dirty[p] =>
                    /\ mem[p] = IF mode[p] = "force" THEN EmptyManifest ELSE saved.entries
                    /\ ~errs[p] /\ mode[p] # "sync" => Done(p) = {}

RunInv(p) ==
    /\ pc[p] \in {"idle", "load"} => ~dirty[p]
    /\ pc[p] # "idle" /\ p \in disturbed => settled = {}
    /\ pc[p] # "idle" /\ p \notin disturbed => Running = {p}
    /\ OwnInv(p) /\ QuietInv(p)

FolderInv ==
    /\ saved.state # "good" => saved.entries = EmptyManifest
    /\ CompleteRunsSync
    /\ \A p \in Procs : RunInv(p)

-----------------------------------------------------------------------------
(* Sets and places.                                                        *)

\* A finite set of numbers has a least one.
LEMMA Least ==
    ASSUME NEW S \in SUBSET Nat, IsFiniteSet(S), S # {}
    PROVE  \E n \in S : \A m \in S : n <= m
<1> DEFINE Below(t) == {u \in S : u <= t}
           R == StrictSubsetOrdering(S)
           B == {Below(t) : t \in S}
<1>1. IsWellFoundedOn(R, FiniteSubsetsOf(S))
  BY FS_StrictSubsetOrderingWellFounded
<1>2. B \subseteq FiniteSubsetsOf(S)
  <2>1. ASSUME NEW t \in S PROVE Below(t) \in FiniteSubsetsOf(S)
    <3>1. Below(t) \in SUBSET S
      OBVIOUS
    <3> HIDE DEF Below
    <3>2. IsFiniteSet(Below(t))
      BY <3>1, FS_Subset
    <3> QED BY <3>1, <3>2 DEF FiniteSubsetsOf
  <2> HIDE DEF Below
  <2> QED BY <2>1, Zenon
<1>2a. B # {}
  <2> HIDE DEF Below
  <2> QED OBVIOUS
<1>3. \A t \in S : Below(t) \in B
  <2> HIDE DEF Below
  <2> QED BY Zenon
<1>4. \A x \in B : \E t \in S : x = Below(t)
  <2> HIDE DEF Below
  <2> QED BY Zenon
<1> HIDE DEF R, B
<1>5. PICK x \in B : \A y \in B : <<y, x>> \notin R
  BY <1>1, <1>2, <1>2a, WFMin, Zenon
<1>6. PICK t \in S : x = Below(t)
  BY <1>4, <1>5
<1>7. ASSUME NEW u \in S, u < t
      PROVE  FALSE
  <2>1. Below(u) \subseteq Below(t) /\ t \in Below(t) /\ t \notin Below(u)
    <3>1. u \in Nat /\ t \in Nat /\ \A m \in S : m \in Nat
      OBVIOUS
    <3>2. \A m \in S : m <= u => m <= t
      BY <1>7, <3>1
    <3>3. t <= t /\ ~(t <= u)
      BY <1>7, <3>1
    <3> QED BY <3>2, <3>3, Zenon
  <2>2. Below(u) \in SUBSET S /\ Below(t) \in SUBSET S
    OBVIOUS
  <2>3. Below(u) \in B
    BY <1>3
  <2> HIDE DEF Below
  <2>4. <<Below(u), x>> \in R
    BY <1>6, <2>1, <2>2 DEF R, StrictSubsetOrdering
  <2> QED BY <1>5, <2>3, <2>4
<1>8. \A m \in S : m \in Nat
  OBVIOUS
<1> QED BY <1>7, <1>8

\* Sets of topics are finite, and their members positive numbers.
LEMMA TopicSets ==
    ASSUME NEW S \in SUBSET Topics
    PROVE  /\ IsFiniteSet(S) /\ Cardinality(S) \in Nat
           /\ \A t \in S : t \in Nat /\ t # Unowned /\ t # Contested
           /\ S # {} => \E t \in S : \A u \in S : t <= u
<1>1. IsFiniteSet(S)
  BY TopicAssumption, FS_Subset
<1>2. S \in SUBSET Nat /\ \A t \in Topics : t \in Nat \ {0}
  BY TopicAssumption
<1>3. \A t \in S : t \in Nat /\ t # Unowned /\ t # Contested
  BY <1>2 DEF Unowned, Contested
<1> QED BY <1>1, <1>2, <1>3, Least, FS_CardinalityType

\* An order of a set of topics takes every one of them.
LEMMA OrderTakesAll ==
    ASSUME NEW S \in SUBSET Topics, NEW o \in Orders(S)
    PROVE  /\ o \in Seq(Topics) /\ Len(o) = Cardinality(S)
           /\ \A t \in S : \E i \in 1 .. Len(o) : o[i] = t
<1> DEFINE n == Cardinality(S)
<1>1. IsFiniteSet(S) /\ n \in Nat
  BY TopicSets
<1> HIDE DEF n
<1>2. o \in [1 .. n -> S] /\ \A i, j \in 1 .. n : o[i] = o[j] => i = j
  BY DEF Orders, n
<1>3. o \in Seq(Topics) /\ Len(o) = n
  BY <1>1, <1>2
<1>4. o \in Injection(1 .. n, S)
  BY <1>2 DEF Injection, IsInjective
<1>5. IsFiniteSet(1 .. n) /\ Cardinality(1 .. n) = n
  BY <1>1, FS_Interval
<1>6. o \in Surjection(1 .. n, S)
  BY <1>1, <1>4, <1>5, FS_Injection DEF n
<1>7. \A t \in S : \E i \in 1 .. n : o[i] = t
  BY <1>6 DEF Surjection
<1> QED BY <1>3, <1>7 DEF n

\* What follows the topic a run has taken.
LEMMA AfterHead ==
    ASSUME NEW o \in Seq(Topics), o # <<>>
    PROVE  /\ Head(o) \in Topics /\ Tail(o) \in Seq(Topics)
           /\ Len(o) \in Nat /\ Len(o) # 0
           /\ Len(o) = 1 <=> Tail(o) = <<>>
           /\ \A t : (\E i \in 1 .. Len(o) : o[i] = t)
                       => t = Head(o) \/ \E i \in 1 .. Len(Tail(o)) : Tail(o)[i] = t
<1>1. Len(o) \in Nat /\ Len(o) # 0 /\ Head(o) = o[1] /\ Head(o) \in Topics
  OBVIOUS
<1>2. /\ Tail(o) \in Seq(Topics) /\ Len(Tail(o)) = Len(o) - 1
      /\ \A i \in 1 .. Len(o) - 1 : Tail(o)[i] = o[i + 1]
  OBVIOUS
<1>3. Len(o) = 1 <=> Tail(o) = <<>>
  BY <1>1, <1>2, EmptySeq
<1>4. ASSUME NEW i \in 1 .. Len(o)
      PROVE  o[i] = Head(o) \/ \E j \in 1 .. Len(Tail(o)) : Tail(o)[j] = o[i]
  <2>1. CASE i = 1
    BY <1>1, <2>1
  <2>2. CASE i # 1
    <3>1. i - 1 \in 1 .. Len(Tail(o)) /\ (i - 1) + 1 = i
      BY <1>1, <1>2, <2>2
    <3>2. Tail(o)[i - 1] = o[i]
      BY <1>2, <3>1
    <3> QED BY <3>1, <3>2
  <2> QED BY <2>1, <2>2
<1> QED BY <1>1, <1>2, <1>3, <1>4

\* Names, entries and trees of the model.
LEMMA Shapes ==
    /\ MaxChanges \in Nat /\ MaxTries \in Nat /\ MaxMishaps \in Nat
    /\ NoEntry.file \in FileName /\ NoEntry.body = Gone /\ NoEntry \notin Entries
    /\ NoCopy \in [body : Bodies \union {Gone}, name : Names]
    /\ EmptyManifest \in Manifests
    /\ \A t \in Topics : EmptyManifest[t] = NoEntry
    /\ Gone \notin Bodies /\ Own \notin Bodies /\ Gone # Own
<1>1. MaxChanges \in Nat /\ MaxTries \in Nat /\ MaxMishaps \in Nat
  BY BoundAssumption
<1>2. Gone \notin Bodies /\ Own \notin Bodies /\ Gone # Own
  BY BytesAssumption
<1>3. PICK n \in Names : TRUE
  BY NameAssumption
<1>4. <<n, 0, 0>> \in Plain
  BY DEF Plain
<1>5. (CHOOSE q \in Plain : TRUE) \in Plain
  BY <1>4
<1>6. NoEntry.file \in FileName /\ NoEntry.body = Gone
  BY <1>5 DEF NoEntry, FileName
<1>7. NoEntry \notin Entries
  BY <1>2, <1>6 DEF Entries
<1>8. (CHOOSE m \in Names : TRUE) \in Names
  BY <1>3
<1>9. NoCopy \in [body : Bodies \union {Gone}, name : Names]
  BY <1>8 DEF NoCopy
<1> HIDE DEF NoEntry
<1>10. EmptyManifest \in Manifests /\ \A t \in Topics : EmptyManifest[t] = NoEntry
  BY DEF EmptyManifest, Manifests
<1> QED BY <1>1, <1>2, <1>6, <1>7, <1>9, <1>10

\* The fields of what the tree says of a topic, and of an entry.
LEMMA Fields ==
    /\ \A i \in Items : /\ i.live \in BOOLEAN /\ i.dir \in Dirs /\ i.name \in Names
                        /\ i.date \in Dates /\ i.body \in Bodies \union {Gone}
    /\ \A e \in Entries : e.file \in FileName /\ e.date \in Dates /\ e.body \in Bodies
    /\ \A d \in Dates : d \in Nat /\ d <= MaxChanges
  BY Shapes DEF Items, Entries, Dates

\* Where a recorded topic lies is a path.
LEMMA PathOfType ==
    ASSUME NEW content \in [Topics -> Items], NEW manifest \in Manifests, NEW t \in Topics
    PROVE  /\ PathOf(content, manifest, t) \in Paths
           /\ PathOf(content, manifest, t)[1] = content[t].dir
           /\ PathOf(content, manifest, t)[2] = manifest[t].file
<1>1. content[t].dir \in Dirs
  BY Fields
<1>2. manifest[t].file \in FileName
  BY Fields, Shapes DEF Manifests
<1> QED BY <1>1, <1>2 DEF PathOf, Paths

\* What the variables hold for one run.
LEMMA RunTypes ==
    ASSUME TypeOK, NEW p \in Procs
    PROVE  /\ pc[p] \in Places /\ mode[p] \in Modes
           /\ snap[p] \in [Topics -> Items] \union {NoTree}
           /\ todo[p] \in Seq(Topics) /\ chosen[p] \in SUBSET Topics
           /\ mem[p] \in Manifests
           /\ owners[p] \in [Paths -> Topics \union {Unowned, Contested}]
           /\ got[p] \in [body : Bodies \union {Gone}, name : Names]
           /\ path[p] \in Paths \union {NoPath}
           /\ dirty[p] \in BOOLEAN /\ errs[p] \in BOOLEAN /\ existed[p] \in BOOLEAN
  BY DEF TypeOK

\* A run that ReadInv says nothing new about.
LEMMA SameRead ==
    ASSUME NEW q \in Procs, ReadInv(q), UNCHANGED server,
           pc'[q] = pc[q], snap'[q] = snap[q], todo'[q] = todo[q],
           got'[q] = got[q], path'[q] = path[q], mem'[q] = mem[q]
    PROVE  ReadInv(q)'
<1>1. toc' = toc /\ versions' = versions
  BY DEF server
<1>2. Topic(q)' = Topic(q)
  BY DEF Topic
<1> QED BY <1>1, <1>2 DEF ReadInv, Known, Since

\* The server is as it was.
LEMMA SameServer ==
    ASSUME Versioned, UNCHANGED <<server, changes>>
    PROVE  Versioned'
  BY DEF Versioned, server

\* What was known of a manifest is known of it.
LEMMA SameKnown ==
    ASSUME NEW m, Known(m), UNCHANGED server
    PROVE  \A t \in Topics : m[t] # NoEntry =>
               \E d \in m[t].date .. toc'[t].date : versions'[t][d] = m[t].body
  BY DEF Known, Since, server

\* A run goes on with the next topic, or ends.
LEMMA NextTopicGoesOn ==
    ASSUME TypeOK, NEW p \in Procs, todo[p] # <<>>, NextTopic(p)
    PROVE  /\ todo' \in [Procs -> Seq(Topics)] /\ pc' \in [Procs -> Places]
           /\ pc'[p] \in {"topic", "finish"}
           /\ pc'[p] = "topic" => todo'[p] # <<>>
           /\ pc'[p] = "finish" => todo'[p] = <<>>
           /\ todo'[p] = Tail(todo[p]) /\ Topic(p) \in Topics
           /\ \A q \in Procs \ {p} : todo'[q] = todo[q] /\ pc'[q] = pc[q]
<1>1. todo \in [Procs -> Seq(Topics)] /\ pc \in [Procs -> Places]
  BY DEF TypeOK
<1>2. todo[p] \in Seq(Topics)
  BY <1>1
<1>3. Topic(p) \in Topics /\ Tail(todo[p]) \in Seq(Topics)
      /\ (Len(todo[p]) = 1 <=> Tail(todo[p]) = <<>>)
  BY <1>2, AfterHead DEF Topic
<1>4. todo' = [todo EXCEPT ![p] = Tail(todo[p])]
      /\ pc' = [pc EXCEPT ![p] = IF Len(todo[p]) = 1 THEN "finish" ELSE "topic"]
  BY DEF NextTopic, Goto
<1>5. "finish" \in Places /\ "topic" \in Places
  BY DEF Places
<1>6. todo'[p] = Tail(todo[p]) /\ todo' \in [Procs -> Seq(Topics)]
      /\ \A q \in Procs \ {p} : todo'[q] = todo[q]
  BY <1>1, <1>3, <1>4
<1>7. /\ pc' \in [Procs -> Places]
      /\ pc'[p] = IF Len(todo[p]) = 1 THEN "finish" ELSE "topic"
      /\ \A q \in Procs \ {p} : pc'[q] = pc[q]
  BY <1>1, <1>4, <1>5
<1> QED BY <1>3, <1>6, <1>7

\* The first state.
LEMMA InitCurrent == Init => TypeOK /\ CurrentInv
<1> SUFFICES ASSUME Init PROVE TypeOK /\ CurrentInv
  OBVIOUS
<1>1. PICK f \in [Topics -> {i \in Items : i.live /\ i.date = 0 /\ i.body # Gone}] : toc = f
  BY DEF Init
<1>2. toc \in [Topics -> Items] /\ \A t \in Topics : toc[t].date = 0 /\ toc[t].body # Gone
  BY <1>1
<1>3. \A t \in Topics : toc[t].body \in Bodies
  BY <1>2, Fields
<1>4. versions = [t \in Topics |-> [d \in Dates |-> IF d = 0 THEN toc[t].body ELSE Gone]]
  BY DEF Init
<1>5. 0 \in Dates /\ \A d \in Dates : d \in Nat
  BY Shapes DEF Dates
<1>6. versions \in [Topics -> [Dates -> Bodies \union {Gone}]]
  BY <1>3, <1>4
<1>7. files \in [Paths -> Bodies \union {Own, Gone}]
  BY DEF Init
<1>8. saved.entries = EmptyManifest
      /\ saved \in [state : {"absent", "corrupt", "good"}, entries : Manifests]
  BY Shapes DEF Init
<1>9. \A p \in Procs : [q \in Paths |-> Unowned] \in [Paths -> Topics \union {Unowned, Contested}]
  OBVIOUS
<1>10. /\ pc \in [Procs -> Places] /\ \A p \in Procs : pc[p] = "idle"
       /\ mode \in [Procs -> Modes]
       /\ snap \in [Procs -> [Topics -> Items] \union {NoTree}]
  BY DEF Init, Places, Modes
<1>11. /\ todo \in [Procs -> Seq(Topics)]
       /\ chosen \in [Procs -> SUBSET Topics]
       /\ mem \in [Procs -> Manifests] /\ \A p \in Procs : mem[p] = EmptyManifest
  BY Shapes, EmptySeq DEF Init
<1>12. /\ owners \in [Procs -> [Paths -> Topics \union {Unowned, Contested}]]
       /\ got \in [Procs -> [body : Bodies \union {Gone}, name : Names]]
       /\ path \in [Procs -> Paths \union {NoPath}]
  BY Shapes, <1>9 DEF Init
<1>13. /\ dirty \in [Procs -> BOOLEAN] /\ errs \in [Procs -> BOOLEAN]
       /\ existed \in [Procs -> BOOLEAN]
       /\ disturbed \subseteq Procs /\ settled \subseteq Topics
       /\ changes \in 0 .. MaxChanges /\ mishaps \in 0 .. MaxMishaps /\ changes = 0
  BY Shapes DEF Init
<1>14. TypeOK
  BY <1>2, <1>6, <1>7, <1>8, <1>10, <1>11, <1>12, <1>13 DEF TypeOK
<1>15. Known(EmptyManifest)
  BY Shapes DEF Known
<1>16. Versioned
  BY <1>2, <1>3, <1>4, <1>5, <1>13 DEF Versioned
<1>17. \A p \in Procs : ReadInv(p)
  BY <1>10, <1>11, <1>15 DEF ReadInv, Taking
<1> QED BY <1>8, <1>14, <1>15, <1>16, <1>17 DEF CurrentInv

-----------------------------------------------------------------------------
(* What a run has read: its steps.                                         *)

\* The other runs are as they were.
Elsewhere(p) ==
    \A q \in Procs \ {p} :
        /\ pc'[q] = pc[q] /\ mode'[q] = mode[q] /\ snap'[q] = snap[q]
        /\ todo'[q] = todo[q] /\ chosen'[q] = chosen[q] /\ mem'[q] = mem[q]
        /\ owners'[q] = owners[q] /\ got'[q] = got[q] /\ path'[q] = path[q]
        /\ dirty'[q] = dirty[q] /\ errs'[q] = errs[q] /\ existed'[q] = existed[q]

\* A step of one run that leaves the server alone.
LEMMA CurrentFrom ==
    ASSUME CurrentInv, NEW p \in Procs, Elsewhere(p), UNCHANGED <<server, changes>>,
           Known(saved.entries)', ReadInv(p)'
    PROVE  CurrentInv'
<1>1. Versioned'
  BY SameServer DEF CurrentInv
<1>2. ASSUME NEW q \in Procs \ {p} PROVE ReadInv(q)'
  BY <1>2, SameRead DEF CurrentInv, Elsewhere
<1> QED BY <1>1, <1>2 DEF CurrentInv

\* A run that ends, or is killed, leaves nothing of itself.
LEMMA LeaveGoes ==
    ASSUME TypeOK, NEW p \in Procs, Leave(p)
    PROVE  /\ Elsewhere(p)
           /\ pc' \in [Procs -> Places] /\ pc'[p] = "idle"
           /\ mode' \in [Procs -> Modes]
           /\ snap' \in [Procs -> [Topics -> Items] \union {NoTree}]
           /\ todo' \in [Procs -> Seq(Topics)]
           /\ chosen' \in [Procs -> SUBSET Topics]
           /\ mem' \in [Procs -> Manifests] /\ mem'[p] = EmptyManifest
           /\ owners' \in [Procs -> [Paths -> Topics \union {Unowned, Contested}]]
           /\ got' \in [Procs -> [body : Bodies \union {Gone}, name : Names]]
           /\ path' \in [Procs -> Paths \union {NoPath}]
           /\ dirty' \in [Procs -> BOOLEAN] /\ errs' \in [Procs -> BOOLEAN]
           /\ existed' \in [Procs -> BOOLEAN] /\ dirty'[p] = FALSE
<1>1. /\ pc' \in [Procs -> Places] /\ pc'[p] = "idle"
      /\ mode' \in [Procs -> Modes]
      /\ snap' \in [Procs -> [Topics -> Items] \union {NoTree}]
      /\ \A q \in Procs \ {p} : pc'[q] = pc[q] /\ mode'[q] = mode[q] /\ snap'[q] = snap[q]
  BY DEF TypeOK, Leave, Goto, Places, Modes
<1>2. /\ todo' \in [Procs -> Seq(Topics)]
      /\ chosen' \in [Procs -> SUBSET Topics]
      /\ mem' \in [Procs -> Manifests] /\ mem'[p] = EmptyManifest
      /\ \A q \in Procs \ {p} : todo'[q] = todo[q] /\ chosen'[q] = chosen[q] /\ mem'[q] = mem[q]
  BY Shapes, EmptySeq DEF TypeOK, Leave
<1>3. [q \in Paths |-> Unowned] \in [Paths -> Topics \union {Unowned, Contested}]
  OBVIOUS
<1>4. /\ owners' \in [Procs -> [Paths -> Topics \union {Unowned, Contested}]]
      /\ got' \in [Procs -> [body : Bodies \union {Gone}, name : Names]]
      /\ path' \in [Procs -> Paths \union {NoPath}]
      /\ \A q \in Procs \ {p} : owners'[q] = owners[q] /\ got'[q] = got[q] /\ path'[q] = path[q]
  BY Shapes, <1>3 DEF TypeOK, Leave
<1>5. /\ dirty' \in [Procs -> BOOLEAN] /\ errs' \in [Procs -> BOOLEAN]
      /\ existed' \in [Procs -> BOOLEAN] /\ dirty'[p] = FALSE
      /\ \A q \in Procs \ {p} :
            dirty'[q] = dirty[q] /\ errs'[q] = errs[q] /\ existed'[q] = existed[q]
  BY DEF TypeOK, Leave
<1> QED BY <1>1, <1>2, <1>4, <1>5 DEF Elsewhere

\* A run begins: it reads the tree as it is.
LEMMA BeginCurrent ==
    ASSUME TypeOK, CurrentInv, NEW p \in Procs, NEW m \in Modes,
           NEW types \in SUBSET {"file", "html"}, Begin(p, m, types)
    PROVE  TypeOK' /\ CurrentInv' /\ Elsewhere(p)
<1> DEFINE sel == {t \in Live(toc) : TypeOf(t) \in types}
<1>1. sel \in SUBSET Topics
  BY DEF Live
<1> HIDE DEF sel
<1>2. PICK o \in Orders(sel) : todo' = [todo EXCEPT ![p] = o]
  BY DEF Begin, sel
<1>3. o \in Seq(Topics)
  BY <1>1, OrderTakesAll
<1>4. /\ pc' = [pc EXCEPT ![p] = "load"] /\ chosen' = [chosen EXCEPT ![p] = sel]
      /\ snap' = [snap EXCEPT ![p] = toc] /\ mode' = [mode EXCEPT ![p] = m]
      /\ UNCHANGED <<toc, versions, files, saved, mem, owners, got, path, dirty, errs, existed,
                     changes, mishaps>>
  BY DEF Begin, sel, Goto, server, folder, counts
<1>5. disturbed' \subseteq Procs /\ settled' \subseteq Topics
  BY DEF Begin, Running, TypeOK
<1>6. "load" \in Places
  BY DEF Places
<1>7. TypeOK'
  BY <1>1, <1>2, <1>3, <1>4, <1>5, <1>6 DEF TypeOK
<1>8. Elsewhere(p)
  BY <1>2, <1>4 DEF Elsewhere, TypeOK
<1>9. pc'[p] = "load" /\ snap'[p] = toc /\ mem'[p] = mem[p]
  BY <1>4 DEF TypeOK
<1>10. \A t \in Topics : toc[t].date <= toc[t].date
  BY Fields DEF TypeOK
<1>11. Known(mem[p]) /\ Known(saved.entries)
  BY DEF CurrentInv, ReadInv
<1>12. ReadInv(p)'
  BY <1>4, <1>9, <1>10, <1>11 DEF ReadInv, Known, Since, Taking, TypeOK
<1>13. Known(saved.entries)'
  BY <1>4, <1>11 DEF Known, Since
<1> QED BY <1>4, <1>7, <1>8, <1>12, <1>13, CurrentFrom DEF server

\* Whom each path of a manifest belongs to.
LEMMA OwnersType ==
    ASSUME NEW content, NEW manifest, NEW m
    PROVE  /\ OwnersOf(content, manifest, m)
                 \in [Paths -> Topics \union {Unowned, Contested}]
           /\ \A t \in Recorded(content, manifest) :
                LET q == PathOf(content, manifest, t)
                IN  q \in Paths =>
                      /\ m # "force" => OwnersOf(content, manifest, m)[q] \in {Contested, t}
                      /\ Alone(content, manifest, t)
                           => OwnersOf(content, manifest, m)[q] = t
<1> DEFINE Claim(q) == {t \in Recorded(content, manifest) : PathOf(content, manifest, t) = q}
           First(q) == CHOOSE t \in Claim(q) : \A u \in Claim(q) : t <= u
           Value(q) == IF Claim(q) = {} THEN Unowned
                       ELSE IF Cardinality(Claim(q)) > 1 /\ m # "force" THEN Contested
                       ELSE First(q)
<1>1. OwnersOf(content, manifest, m) = [q \in Paths |-> Value(q)]
  BY DEF OwnersOf
<1>2. ASSUME NEW q PROVE Claim(q) \in SUBSET Topics
  BY DEF Recorded, Live
<1>3. ASSUME NEW q, Claim(q) # {} PROVE First(q) \in Claim(q)
  <2> HIDE DEF Claim
  <2>1. \E t \in Claim(q) : \A u \in Claim(q) : t <= u
    BY <1>2, <1>3, TopicSets
  <2> QED BY <2>1
<1> HIDE DEF First
<1>4. ASSUME NEW q PROVE Value(q) \in Topics \union {Unowned, Contested}
  <2> HIDE DEF Claim
  <2> QED BY <1>2, <1>3
<1>5. ASSUME NEW t \in Recorded(content, manifest),
             PathOf(content, manifest, t) \in Paths
      PROVE  LET q == PathOf(content, manifest, t)
             IN  /\ m # "force" => Value(q) \in {Contested, t}
                 /\ Alone(content, manifest, t) => Value(q) = t
  <2> DEFINE q == PathOf(content, manifest, t)
  <2>1. t \in Claim(q)
    OBVIOUS
  <2>2. Alone(content, manifest, t) => Claim(q) = {t}
    BY <2>1 DEF Alone
  <2> HIDE DEF Claim, q
  <2>3. ASSUME m # "force" PROVE Value(q) \in {Contested, t}
    <3>1. CASE Cardinality(Claim(q)) > 1
      BY <2>1, <2>3, <3>1
    <3>2. CASE ~(Cardinality(Claim(q)) > 1)
      <4>1. IsFiniteSet(Claim(q)) /\ Cardinality(Claim(q)) \in Nat
        BY <1>2, TopicSets
      <4>2. Cardinality(Claim(q)) # 0
        BY <2>1, <4>1, FS_EmptySet
      <4>3. Cardinality(Claim(q)) = 1
        BY <3>2, <4>1, <4>2
      <4>4. Claim(q) = {t}
        BY <2>1, <4>1, <4>3, FS_Singleton
      <4>5. First(q) = t
        BY <1>3, <4>4
      <4> QED BY <3>2, <4>4, <4>5
    <3> QED BY <3>1, <3>2
  <2>4. ASSUME Alone(content, manifest, t) PROVE Value(q) = t
    <3>1. Claim(q) = {t} /\ Cardinality(Claim(q)) = 1
      BY <2>2, <2>4, FS_Singleton
    <3>2. First(q) = t
      BY <1>3, <3>1
    <3> QED BY <3>1, <3>2
  <2> QED BY <2>3, <2>4 DEF q
<1> HIDE DEF Value
<1>6. OwnersOf(content, manifest, m) \in [Paths -> Topics \union {Unowned, Contested}]
  BY <1>1, <1>4
<1> QED BY <1>1, <1>5, <1>6

\* A run reads the manifest.
LEMMA LoadCurrent ==
    ASSUME TypeOK, CurrentInv, NEW p \in Procs, Load(p)
    PROVE  TypeOK' /\ CurrentInv' /\ Elsewhere(p)
<1>1. Found \in Manifests /\ Known(Found)
  <2>1. saved.entries \in Manifests
    BY DEF TypeOK
  <2>2. Known(EmptyManifest)
    BY Shapes DEF Known
  <2> QED BY <2>1, <2>2, Shapes DEF Found, CurrentInv
<1> DEFINE own == OwnersOf(snap[p], Found, mode[p])
           m == IF mode[p] = "force" THEN EmptyManifest ELSE Found
           place == IF todo[p] = <<>> THEN "finish" ELSE "topic"
<1>2. own \in [Paths -> Topics \union {Unowned, Contested}]
  BY OwnersType
<1>3. m \in Manifests /\ Known(m)
  BY <1>1, Shapes DEF Known
<1>4. place \in Places
  BY DEF Places
<1>5. /\ mem' = [mem EXCEPT ![p] = m] /\ owners' = [owners EXCEPT ![p] = own]
      /\ pc' = [pc EXCEPT ![p] = place]
      /\ errs' = [errs EXCEPT ![p] = errs[p] \/ (saved.state = "corrupt" /\ mode[p] # "force")]
      /\ existed' = [existed EXCEPT ![p] = mode[p] = "force" /\ saved.state # "absent"]
      /\ UNCHANGED <<toc, versions, files, saved, mode, snap, todo, chosen, got, path, dirty,
                     disturbed, settled, changes, mishaps>>
  BY DEF Load, Goto, server, folder, counts
<1> HIDE DEF own, m, place
<1>6. /\ mem' \in [Procs -> Manifests] /\ pc' \in [Procs -> Places]
      /\ owners' \in [Procs -> [Paths -> Topics \union {Unowned, Contested}]]
      /\ errs' \in [Procs -> BOOLEAN] /\ existed' \in [Procs -> BOOLEAN]
  BY <1>2, <1>3, <1>4, <1>5 DEF TypeOK
<1>7. TypeOK'
  BY <1>5, <1>6 DEF TypeOK
<1>8. Elsewhere(p)
  BY <1>5 DEF Elsewhere, TypeOK
<1>9. pc'[p] = place /\ mem'[p] = m /\ snap'[p] = snap[p] /\ todo'[p] = todo[p]
  BY <1>5 DEF TypeOK
<1>10. pc[p] = "load"
  BY DEF Load
<1>11. ReadInv(p)'
  BY <1>3, <1>5, <1>9, <1>10 DEF CurrentInv, ReadInv, Known, Since, Taking, place
<1>12. Known(saved.entries)'
  BY <1>5 DEF CurrentInv, Known, Since
<1> QED BY <1>5, <1>7, <1>8, <1>11, <1>12, CurrentFrom DEF server

\* A run that goes on, or fails, with a topic and keeps what it knows.
LEMMA GoesOnCurrent ==
    ASSUME TypeOK, CurrentInv, NEW p \in Procs, pc[p] \in Taking, NextTopic(p),
           UNCHANGED <<toc, versions, saved, snap, changes>>, Elsewhere(p),
           Known(mem'[p])
    PROVE  CurrentInv'
<1>1. ReadInv(p)
  BY DEF CurrentInv
<1>2. todo[p] # <<>>
  BY <1>1 DEF ReadInv
<1>3. /\ pc'[p] \in {"topic", "finish"}
      /\ pc'[p] = "topic" => todo'[p] # <<>>
      /\ pc'[p] = "finish" => todo'[p] = <<>>
  BY <1>2, NextTopicGoesOn
<1>4. /\ snap[p] \in [Topics -> Items] /\ \A t \in Topics : snap[p][t].date <= toc[t].date
  BY <1>1 DEF ReadInv, Taking
<1>5. Known(saved.entries)' /\ Known(mem[p])'
  BY DEF CurrentInv, Known, Since
<1>6. ReadInv(p)'
  BY <1>3, <1>4, <1>5 DEF ReadInv, Taking
<1> QED BY <1>5, <1>6, CurrentFrom DEF server

\* A topic is recorded as failed.
LEMMA TopicFailsCurrent ==
    ASSUME TypeOK, CurrentInv, NEW p \in Procs, pc[p] \in Taking, TopicFails(p)
    PROVE  TypeOK' /\ CurrentInv' /\ Elsewhere(p)
<1>1. todo[p] # <<>>
  BY DEF CurrentInv, ReadInv
<1>2. NextTopic(p)
  BY DEF TopicFails
<1>3. /\ todo' \in [Procs -> Seq(Topics)] /\ pc' \in [Procs -> Places]
      /\ \A q \in Procs \ {p} : todo'[q] = todo[q] /\ pc'[q] = pc[q]
  BY <1>1, <1>2, NextTopicGoesOn
<1>4. /\ errs' = [errs EXCEPT ![p] = TRUE] /\ got' = [got EXCEPT ![p] = NoCopy]
      /\ path' = [path EXCEPT ![p] = NoPath]
      /\ UNCHANGED <<toc, versions, files, saved, mode, snap, chosen, mem, owners, dirty,
                     existed, disturbed, settled, changes, mishaps>>
  BY DEF TopicFails, server, folder, counts
<1>5. /\ errs' \in [Procs -> BOOLEAN]
      /\ got' \in [Procs -> [body : Bodies \union {Gone}, name : Names]]
      /\ path' \in [Procs -> Paths \union {NoPath}]
  BY <1>4, Shapes DEF TypeOK
<1>6. TypeOK'
  BY <1>3, <1>4, <1>5 DEF TypeOK
<1>7. Elsewhere(p)
  BY <1>3, <1>4 DEF Elsewhere, TypeOK
<1>8. Known(mem'[p])
  BY <1>4 DEF CurrentInv, ReadInv
<1> QED BY <1>2, <1>4, <1>6, <1>7, <1>8, GoesOnCurrent

\* A topic is skipped.
LEMMA SkipCurrent ==
    ASSUME TypeOK, CurrentInv, NEW p \in Procs, Skip(p)
    PROVE  TypeOK' /\ CurrentInv' /\ Elsewhere(p)
<1>1. pc[p] \in Taking /\ NextTopic(p)
  BY DEF Skip, Taking
<1>2. todo[p] # <<>>
  BY <1>1 DEF CurrentInv, ReadInv
<1>3. /\ todo' \in [Procs -> Seq(Topics)] /\ pc' \in [Procs -> Places]
      /\ \A q \in Procs \ {p} : todo'[q] = todo[q] /\ pc'[q] = pc[q]
  BY <1>1, <1>2, NextTopicGoesOn
<1>4. UNCHANGED <<toc, versions, files, saved, mode, snap, chosen, mem, owners, got, path,
                  dirty, errs, existed, disturbed, settled, changes, mishaps>>
  BY DEF Skip, server, folder, counts
<1>5. TypeOK'
  BY <1>3, <1>4 DEF TypeOK
<1>6. Elsewhere(p)
  BY <1>3, <1>4 DEF Elsewhere
<1>7. Known(mem'[p])
  BY <1>4 DEF CurrentInv, ReadInv
<1> QED BY <1>1, <1>4, <1>5, <1>6, <1>7, GoesOnCurrent

\* A topic is taken, and downloaded: its bytes are the server's of now.
LEMMA FetchCurrent ==
    ASSUME TypeOK, CurrentInv, NEW p \in Procs, TakeTopic(p) \/ Fetch(p)
    PROVE  TypeOK' /\ CurrentInv' /\ Elsewhere(p)
<1>1. ReadInv(p) /\ Versioned /\ pc[p] \in Taking /\ pc[p] \notin {"reserve", "write", "finish"}
  BY DEF CurrentInv, TakeTopic, Fetch, Taking
<1>2. /\ todo[p] # <<>> /\ Known(mem[p]) /\ snap[p] \in [Topics -> Items]
      /\ \A t \in Topics : snap[p][t].date <= toc[t].date
  BY <1>1 DEF ReadInv, Taking
<1>3. Topic(p) \in Topics
  BY <1>2, AfterHead, RunTypes DEF Topic
<1>4. UNCHANGED <<toc, versions, files, saved, mode, snap, todo, chosen, mem, owners, path,
                  dirty, errs, existed, disturbed, settled, changes, mishaps>>
  BY DEF TakeTopic, Fetch, server, folder, counts
<1>5. /\ pc' \in [Procs -> Places] /\ pc'[p] \in {"fetch", "reserve"}
      /\ got' \in [Procs -> [body : Bodies \union {Gone}, name : Names]]
      /\ pc'[p] = "reserve" => got'[p].body = toc[Topic(p)].body
      /\ \A q \in Procs \ {p} : pc'[q] = pc[q] /\ got'[q] = got[q]
  <2>1. CASE TakeTopic(p)
    BY <2>1 DEF TakeTopic, Goto, TypeOK, Places
  <2>2. CASE Fetch(p)
    <3>1. toc[Topic(p)].name \in Names /\ toc[Topic(p)].body \in Bodies \union {Gone}
      BY <1>3, Fields DEF TypeOK
    <3> DEFINE copy == [body |-> toc[Topic(p)].body, name |-> toc[Topic(p)].name]
    <3>2. copy \in [body : Bodies \union {Gone}, name : Names]
      BY <3>1
    <3>3. got' = [got EXCEPT ![p] = copy] /\ pc' = [pc EXCEPT ![p] = "reserve"]
      BY <2>2 DEF Fetch, Goto
    <3>4. copy.body = toc[Topic(p)].body
      OBVIOUS
    <3> HIDE DEF copy
    <3> QED BY <3>2, <3>3, <3>4 DEF TypeOK, Places
  <2> QED BY <2>1, <2>2
<1>6. TypeOK'
  BY <1>4, <1>5 DEF TypeOK
<1>7. Elsewhere(p)
  BY <1>4, <1>5 DEF Elsewhere
<1>8. Known(saved.entries)' /\ Known(mem[p])'
  BY <1>2, <1>4 DEF CurrentInv, Known, Since
<1>9. toc[Topic(p)].body \in Bodies
      /\ Since(Topic(p), snap[p][Topic(p)].date, toc[Topic(p)].body)
  <2>1. /\ snap[p][Topic(p)].date \in Nat /\ toc[Topic(p)].date \in Nat
        /\ snap[p][Topic(p)].date <= toc[Topic(p)].date
    BY <1>2, <1>3, Fields DEF TypeOK
  <2>2. toc[Topic(p)].date \in snap[p][Topic(p)].date .. toc[Topic(p)].date
    BY <2>1
  <2> QED BY <1>1, <1>3, <2>2 DEF Versioned, Since
<1>10. ReadInv(p)'
  <2>1. Topic(p)' = Topic(p)
    BY <1>4 DEF Topic
  <2> QED BY <1>2, <1>4, <1>5, <1>8, <1>9, <2>1 DEF ReadInv, Since
<1> QED BY <1>4, <1>6, <1>7, <1>8, <1>10, CurrentFrom DEF server

\* The names a run tries are paths of the topic's directory.
LEMMA CandidateType ==
    ASSUME TypeOK, CurrentInv, NEW p \in Procs, pc[p] \in Taking, NEW k \in 0 .. MaxTries
    PROVE  /\ Topic(p) \in Topics /\ Candidate(p, k) \in Paths
           /\ Candidate(p, k)[1] = snap[p][Topic(p)].dir
<1>1. todo[p] # <<>> /\ snap[p] \in [Topics -> Items]
  BY DEF CurrentInv, ReadInv, Taking
<1>2. Topic(p) \in Topics
  BY <1>1, AfterHead, RunTypes DEF Topic
<1>3. snap[p][Topic(p)].dir \in Dirs
  BY <1>1, <1>2, Fields
<1>4. got[p].name \in Names
  BY RunTypes
<1> DEFINE f == IF k = 0 THEN <<got[p].name, 0, 0>> ELSE <<got[p].name, Topic(p), k>>
<1>5. f \in FileName
  <2>1. CASE k = 0
    BY <1>4, <2>1 DEF FileName, Plain
  <2>2. CASE k # 0
    <3>1. k \in 1 .. MaxTries
      BY <2>2, Shapes
    <3> QED BY <1>2, <1>4, <2>2, <3>1 DEF FileName
  <2> QED BY <2>1, <2>2
<1>6. Candidate(p, k) = <<snap[p][Topic(p)].dir, f>>
  BY DEF Candidate
<1> HIDE DEF f
<1> QED BY <1>2, <1>3, <1>5, <1>6 DEF Paths

\* A path is reserved.
LEMMA ReserveCurrent ==
    ASSUME TypeOK, CurrentInv, NEW p \in Procs, Reserve(p)
    PROVE  TypeOK' /\ CurrentInv' /\ Elsewhere(p)
<1>1. pc[p] = "reserve" /\ pc[p] \in Taking
  BY DEF Reserve, Taking
<1>2. PICK k \in 0 .. MaxTries :
          /\ owners' = [owners EXCEPT ![p][Candidate(p, k)] = Topic(p)]
          /\ path' = [path EXCEPT ![p] = Candidate(p, k)]
  BY DEF Reserve
<1> DEFINE q == Candidate(p, k)
           own == [owners[p] EXCEPT ![q] = Topic(p)]
<1>3. Topic(p) \in Topics /\ q \in Paths /\ q[1] = snap[p][Topic(p)].dir
  BY <1>1, CandidateType
<1> HIDE DEF q
<1>4. own \in [Paths -> Topics \union {Unowned, Contested}]
  BY <1>3, RunTypes
<1>5. /\ owners' = [owners EXCEPT ![p] = own] /\ path' = [path EXCEPT ![p] = q]
      /\ pc' = [pc EXCEPT ![p] = "write"]
      /\ UNCHANGED <<toc, versions, files, saved, mode, snap, todo, chosen, mem, got, dirty,
                     errs, existed, disturbed, settled, changes, mishaps>>
  BY <1>2 DEF Reserve, Goto, server, folder, counts, q
<1> HIDE DEF own
<1>6. /\ owners' \in [Procs -> [Paths -> Topics \union {Unowned, Contested}]]
      /\ path' \in [Procs -> Paths \union {NoPath}] /\ pc' \in [Procs -> Places]
  BY <1>3, <1>4, <1>5 DEF TypeOK, Places
<1>7. TypeOK'
  BY <1>5, <1>6 DEF TypeOK
<1>8. Elsewhere(p)
  BY <1>5 DEF Elsewhere, TypeOK
<1>9. pc'[p] = "write" /\ path'[p] = q
  BY <1>5 DEF TypeOK
<1>10. ReadInv(p)
  BY DEF CurrentInv
<1>11. Known(saved.entries)' /\ Known(mem[p])'
  BY <1>5, <1>10 DEF CurrentInv, ReadInv, Known, Since
<1>12. ReadInv(p)'
  <2>1. Topic(p)' = Topic(p)
    BY <1>5 DEF Topic
  <2> QED BY <1>1, <1>3, <1>5, <1>9, <1>10, <1>11, <2>1 DEF ReadInv, Since, Taking
<1> QED BY <1>5, <1>7, <1>8, <1>11, <1>12, CurrentFrom DEF server

\* What a run records of the topic it writes.
Entry(p) == [file |-> path[p][2], date |-> snap[p][Topic(p)].date, body |-> got[p].body]

\* It is an entry, at the reserved path.
LEMMA EntryFits ==
    ASSUME TypeOK, CurrentInv, NEW p \in Procs, pc[p] = "write"
    PROVE  /\ Entry(p) \in Entries /\ Entry(p) # NoEntry /\ Topic(p) \in Topics
           /\ path[p] \in Paths /\ path[p] = <<snap[p][Topic(p)].dir, Entry(p).file>>
           /\ Entry(p).date = snap[p][Topic(p)].date /\ Entry(p).body = got[p].body
<1>1. /\ todo[p] # <<>> /\ snap[p] \in [Topics -> Items] /\ got[p].body \in Bodies
      /\ path[p] \in Paths /\ path[p][1] = snap[p][Topic(p)].dir
  BY DEF CurrentInv, ReadInv, Taking
<1>2. Topic(p) \in Topics
  BY <1>1, AfterHead, RunTypes DEF Topic
<1>3. path[p][2] \in FileName /\ path[p] = <<path[p][1], path[p][2]>>
  BY <1>1 DEF Paths
<1>4. snap[p][Topic(p)].date \in Dates
  BY <1>1, <1>2, Fields
<1>5. /\ Entry(p).file = path[p][2] /\ Entry(p).date = snap[p][Topic(p)].date
      /\ Entry(p).body = got[p].body
  BY DEF Entry
<1>6. Entry(p) \in Entries
  BY <1>1, <1>3, <1>4 DEF Entry, Entries
<1> QED BY <1>1, <1>2, <1>3, <1>5, <1>6, Shapes

\* The topic's file is replaced, and the entry is in memory.
LEMMA WriteEffect ==
    ASSUME TypeOK, CurrentInv, NEW p \in Procs, Write(p)
    PROVE  /\ pc[p] = "write" /\ todo[p] # <<>> /\ NextTopic(p)
           /\ files' = [files EXCEPT ![path[p]] = got[p].body]
           /\ mem'[p] = [mem[p] EXCEPT ![Topic(p)] = Entry(p)]
           /\ mem' \in [Procs -> Manifests] /\ dirty'[p]
           /\ UNCHANGED <<toc, versions, saved, mode, snap, chosen, owners, errs, existed,
                          disturbed, settled, changes, mishaps>>
           /\ Elsewhere(p) /\ TypeOK'
<1>1. pc[p] = "write" /\ NextTopic(p) /\ dirty' = [dirty EXCEPT ![p] = TRUE]
      /\ got' = [got EXCEPT ![p] = NoCopy] /\ path' = [path EXCEPT ![p] = NoPath]
      /\ files' = [files EXCEPT ![path[p]] = got[p].body]
  BY DEF Write
<1>2. todo[p] # <<>> /\ got[p].body \in Bodies
  BY <1>1 DEF CurrentInv, ReadInv, Taking
<1>3. Entry(p) \in Entries /\ Topic(p) \in Topics
  BY <1>1, EntryFits
<1>4. mem' = [mem EXCEPT ![p][Topic(p)] = Entry(p)]
  BY DEF Write, Record, Entry
<1> DEFINE m == [mem[p] EXCEPT ![Topic(p)] = Entry(p)]
<1>5. m \in Manifests
  BY <1>3, RunTypes DEF Manifests
<1>6. mem' = [mem EXCEPT ![p] = m]
  BY <1>4
<1>7. mem'[p] = m /\ mem' \in [Procs -> Manifests] /\ \A q \in Procs \ {p} : mem'[q] = mem[q]
  <2> HIDE DEF m
  <2> QED BY <1>5, <1>6 DEF TypeOK
<1>8. UNCHANGED <<toc, versions, saved, mode, snap, chosen, owners, errs, existed,
                  disturbed, settled, changes, mishaps>>
  BY DEF Write, server, counts
<1>9. /\ todo' \in [Procs -> Seq(Topics)] /\ pc' \in [Procs -> Places]
      /\ \A q \in Procs \ {p} : todo'[q] = todo[q] /\ pc'[q] = pc[q]
  BY <1>1, <1>2, NextTopicGoesOn
<1>10. /\ dirty' \in [Procs -> BOOLEAN] /\ dirty'[p]
       /\ got' \in [Procs -> [body : Bodies \union {Gone}, name : Names]]
       /\ path' \in [Procs -> Paths \union {NoPath}]
       /\ files' \in [Paths -> Bodies \union {Own, Gone}]
  BY <1>1, <1>2, Shapes DEF TypeOK
<1>11. TypeOK'
  BY <1>7, <1>8, <1>9, <1>10 DEF TypeOK
<1>12. Elsewhere(p)
  BY <1>1, <1>7, <1>8, <1>9 DEF Elsewhere, TypeOK
<1> QED BY <1>1, <1>2, <1>7, <1>8, <1>10, <1>11, <1>12

\* The bytes recorded are those the topic has had since the tree's date.
LEMMA WriteCurrent ==
    ASSUME TypeOK, CurrentInv, NEW p \in Procs, Write(p)
    PROVE  TypeOK' /\ CurrentInv' /\ Elsewhere(p)
<1>1. /\ pc[p] = "write" /\ NextTopic(p) /\ mem'[p] = [mem[p] EXCEPT ![Topic(p)] = Entry(p)]
      /\ UNCHANGED <<toc, versions, saved, snap, changes>> /\ Elsewhere(p) /\ TypeOK'
  BY WriteEffect
<1>2. ReadInv(p) /\ pc[p] \in Taking
  BY <1>1 DEF CurrentInv, Taking
<1>3. Since(Topic(p), Entry(p).date, Entry(p).body)
  BY <1>1, <1>2, EntryFits DEF ReadInv
<1>4. Known(mem[p]) /\ mem[p] \in Manifests
  BY <1>2, RunTypes DEF ReadInv
<1>5. \A t \in Topics : mem'[p][t] = IF t = Topic(p) THEN Entry(p) ELSE mem[p][t]
  BY <1>1, <1>4 DEF Manifests
<1>6. Known(mem'[p])
  BY <1>3, <1>4, <1>5 DEF Known
<1> QED BY <1>1, <1>2, <1>6, GoesOnCurrent

\* A run ends, and may save its manifest.
LEMMA FinishCurrent ==
    ASSUME TypeOK, CurrentInv, NEW p \in Procs, NEW bad \in BOOLEAN, Finish(p, bad)
    PROVE  TypeOK' /\ CurrentInv' /\ Elsewhere(p)
<1>1. Leave(p)
  BY DEF Finish
<1>2. UNCHANGED <<toc, versions, files, changes, mishaps>> /\ disturbed' = disturbed \ {p}
  BY DEF Finish, server, counts
<1>3. /\ saved' \in [state : {"absent", "corrupt", "good"}, entries : Manifests]
      /\ Known(saved'.entries)
  <2>1. mem[p] \in Manifests /\ Known(mem[p])
    BY RunTypes DEF CurrentInv, ReadInv
  <2>2. CASE saved' = [state |-> "good", entries |-> mem[p]]
    BY <2>1, <2>2
  <2>3. CASE saved' = saved
    BY <2>3 DEF TypeOK, CurrentInv
  <2> QED BY <2>2, <2>3 DEF Finish
<1>4. settled' \subseteq Topics
  <2>1. chosen[p] \in SUBSET Topics /\ settled \subseteq Topics
    BY DEF TypeOK
  <2> QED BY <2>1 DEF Finish, Settles
<1>5. TypeOK'
  BY <1>1, <1>2, <1>3, <1>4, LeaveGoes DEF TypeOK
<1>6. Elsewhere(p) /\ pc'[p] = "idle" /\ mem'[p] = EmptyManifest
  BY <1>1, LeaveGoes
<1>7. ReadInv(p)'
  BY <1>6, Shapes DEF ReadInv, Known, Taking
<1>8. Known(saved.entries)'
  BY <1>2, <1>3 DEF Known, Since
<1> QED BY <1>2, <1>5, <1>6, <1>7, <1>8, CurrentFrom DEF server

\* A run is killed.
LEMMA CrashCurrent ==
    ASSUME TypeOK, CurrentInv, NEW p \in Procs, Crash(p)
    PROVE  TypeOK' /\ CurrentInv' /\ Elsewhere(p)
<1>1. Leave(p)
  BY DEF Crash
<1>2. UNCHANGED <<toc, versions, files, saved, settled, changes>>
      /\ disturbed' = disturbed \ {p}
  BY DEF Crash, server, folder
<1>3. mishaps' \in 0 .. MaxMishaps
  BY Shapes DEF Crash, TypeOK
<1>4. TypeOK'
  BY <1>1, <1>2, <1>3, LeaveGoes DEF TypeOK
<1>5. Elsewhere(p) /\ pc'[p] = "idle" /\ mem'[p] = EmptyManifest
  BY <1>1, LeaveGoes
<1>6. ReadInv(p)'
  BY <1>5, Shapes DEF ReadInv, Known, Taking
<1>7. Known(saved.entries)'
  BY <1>2 DEF CurrentInv, Known, Since
<1> QED BY <1>2, <1>4, <1>5, <1>6, <1>7, CurrentFrom DEF server

\* A change on the server: its date is new, or it changes no bytes.
LEMMA ServerFacts ==
    ASSUME TypeOK, CurrentInv, NEW t \in Topics, NEW item \in Items, ServerChanges(t, item),
           toc[t].live, item.body \in Bodies,
           item.date = changes + 1 \/ (item.date = toc[t].date /\ item.body = toc[t].body)
    PROVE  /\ toc' = [toc EXCEPT ![t] = item]
           /\ toc' \in [Topics -> Items] /\ changes' = changes + 1 /\ changes' \in 0 .. MaxChanges
           /\ versions' \in [Topics -> [Dates -> Bodies \union {Gone}]]
           /\ \A u \in Topics : toc[u].date <= toc'[u].date
           /\ \A u \in Topics, date \in Nat, body \in Bodies : Since(u, date, body) =>
                 \E d \in date .. toc'[u].date : versions'[u][d] = body
           /\ Versioned'
<1>1. /\ toc' = [toc EXCEPT ![t] = item] /\ changes' = changes + 1 /\ changes < MaxChanges
      /\ versions' = [versions EXCEPT ![t][item.date] = item.body]
  BY DEF ServerChanges
<1>2. /\ toc \in [Topics -> Items] /\ changes \in Nat /\ MaxChanges \in Nat
      /\ versions \in [Topics -> [Dates -> Bodies \union {Gone}]]
  BY Shapes DEF TypeOK
<1>3. Versioned
  BY DEF CurrentInv
<1>4. \A u \in Topics : toc[u].date \in Nat /\ toc[u].date \in Dates /\ toc[u].date <= changes
  BY <1>2, <1>3, Fields DEF Versioned
<1>5. item.date \in Dates /\ item.date \in Nat
  BY Fields
<1> DEFINE v == [versions[t] EXCEPT ![item.date] = item.body]
<1>6. versions[t] \in [Dates -> Bodies \union {Gone}]
  BY <1>2
<1>7. /\ v \in [Dates -> Bodies \union {Gone}]
      /\ \A d \in Dates : v[d] = IF d = item.date THEN item.body ELSE versions[t][d]
  BY <1>5, <1>6
<1>8. versions' = [versions EXCEPT ![t] = v]
  BY <1>1
<1> HIDE DEF v
<1>9. /\ versions' \in [Topics -> [Dates -> Bodies \union {Gone}]]
      /\ \A u \in Topics : versions'[u] = IF u = t THEN v ELSE versions[u]
  BY <1>2, <1>7, <1>8
<1>10. /\ toc' \in [Topics -> Items]
       /\ \A u \in Topics : toc'[u] = IF u = t THEN item ELSE toc[u]
  BY <1>1, <1>2
<1>11. toc[t].date <= item.date /\ item.date <= changes + 1 /\ changes' \in 0 .. MaxChanges
  BY <1>1, <1>2, <1>4, <1>5
<1>12. \A u \in Topics : toc[u].date <= toc'[u].date /\ toc'[u].date \in Nat
  BY <1>4, <1>5, <1>10, <1>11
<1>13. ASSUME NEW u \in Topics, NEW d \in Dates, d <= toc[u].date
       PROVE  versions'[u][d] = versions[u][d]
  <2>1. CASE u # t
    BY <1>9, <2>1
  <2>2. CASE u = t /\ item.date = changes + 1
    <3>1. d # item.date
      BY <1>2, <1>4, <1>13, <2>2, Fields
    <3> QED BY <1>7, <1>9, <2>2, <3>1
  <2>3. CASE u = t /\ item.date = toc[t].date /\ item.body = toc[t].body
    <3>1. versions[t][item.date] = item.body
      BY <1>3, <2>3 DEF Versioned
    <3> QED BY <1>7, <1>9, <2>3, <3>1
  <2> QED BY <2>1, <2>2, <2>3
<1>14. ASSUME NEW u \in Topics, NEW date \in Nat, NEW body \in Bodies, Since(u, date, body)
       PROVE  \E d \in date .. toc'[u].date : versions'[u][d] = body
  <2>1. PICK d \in date .. toc[u].date : versions[u][d] = body
    BY <1>14 DEF Since
  <2>2. d \in Dates /\ d <= toc[u].date /\ d \in date .. toc'[u].date
    BY <1>2, <1>4, <1>12 DEF Dates
  <2> QED BY <1>13, <2>1, <2>2
<1>15. Versioned'
  <2>1. ASSUME NEW u \in Topics
        PROVE  /\ toc'[u].date <= changes' /\ toc'[u].body \in Bodies
               /\ versions'[u][toc'[u].date] = toc'[u].body
               /\ \A d \in Dates : d > toc'[u].date => versions'[u][d] = Gone
    <3>1. CASE u # t
      <4>1. toc'[u].date <= changes'
        BY <1>1, <1>2, <1>4, <1>10, <3>1
      <4> QED BY <1>3, <1>9, <1>10, <3>1, <4>1 DEF Versioned
    <3>2. CASE u = t
      <4>1. toc'[u] = item /\ versions'[u] = v
        BY <1>9, <1>10, <3>2
      <4>2. \A d \in Dates : d > item.date => d # item.date /\ d > toc[t].date
        BY <1>4, <1>5, <1>11, Fields
      <4>3. \A d \in Dates : d > item.date => v[d] = Gone
        BY <1>3, <1>7, <4>2 DEF Versioned
      <4> QED BY <1>1, <1>5, <1>7, <1>11, <4>1, <4>3
    <3> QED BY <3>1, <3>2
  <2> QED BY <2>1 DEF Versioned
<1> QED BY <1>1, <1>9, <1>10, <1>11, <1>12, <1>14, <1>15

\* What is known of a manifest stays known while the server changes.
LEMMA ServerCurrent ==
    ASSUME TypeOK, CurrentInv, NEW t \in Topics, NEW item \in Items, ServerChanges(t, item),
           toc[t].live, item.body \in Bodies,
           item.date = changes + 1 \/ (item.date = toc[t].date /\ item.body = toc[t].body)
    PROVE  TypeOK' /\ CurrentInv'
<1>1. /\ toc' \in [Topics -> Items] /\ changes' \in 0 .. MaxChanges
      /\ versions' \in [Topics -> [Dates -> Bodies \union {Gone}]]
      /\ \A u \in Topics : toc[u].date <= toc'[u].date
      /\ \A u \in Topics, date \in Nat, body \in Bodies : Since(u, date, body) =>
            \E d \in date .. toc'[u].date : versions'[u][d] = body
      /\ Versioned'
  BY ServerFacts
<1>2. /\ UNCHANGED <<files, saved, pc, mode, snap, todo, chosen, mem, owners, got, path, dirty,
                     errs, existed, mishaps>>
      /\ disturbed' = Running /\ settled' = {}
  BY DEF ServerChanges, folder, run
<1>3. TypeOK'
  BY <1>1, <1>2 DEF TypeOK, Running
<1>4. ASSUME NEW m \in Manifests, Known(m), NEW u \in Topics, m[u] # NoEntry
      PROVE  \E d \in m[u].date .. toc'[u].date : versions'[u][d] = m[u].body
  <2>1. m[u] \in Entries
    BY <1>4 DEF Manifests
  <2>2. m[u].date \in Nat /\ m[u].body \in Bodies
    BY <2>1, Fields
  <2>3. Since(u, m[u].date, m[u].body)
    BY <1>4 DEF Known
  <2> QED BY <1>1, <2>2, <2>3
<1>5. Known(saved.entries)'
  <2>1. saved.entries \in Manifests /\ Known(saved.entries)
    BY DEF CurrentInv, TypeOK
  <2>2. \A u \in Topics : saved.entries[u] # NoEntry =>
            \E d \in saved.entries[u].date .. toc'[u].date :
                versions'[u][d] = saved.entries[u].body
    BY <1>4, <2>1
  <2> QED BY <1>2, <2>2 DEF Known, Since
<1>6. ASSUME NEW p \in Procs PROVE ReadInv(p)'
  <2>1. ReadInv(p) /\ Topic(p)' = Topic(p)
    BY <1>2 DEF CurrentInv, Topic
  <2>2. Known(mem[p])'
    BY <1>2, <1>4, <2>1, RunTypes DEF ReadInv, Known, Since
  <2>3. ASSUME pc[p] # "idle", NEW u \in Topics PROVE snap[p][u].date <= toc'[u].date
    <3>1. /\ snap[p] \in [Topics -> Items] /\ snap[p][u].date <= toc[u].date
      BY <2>1, <2>3 DEF ReadInv
    <3>2. snap[p][u].date \in Nat /\ toc[u].date \in Nat /\ toc'[u].date \in Nat
      BY <1>1, <3>1, Fields DEF TypeOK
    <3> QED BY <1>1, <3>1, <3>2
  <2>4. ASSUME pc[p] \in {"reserve", "write"}
        PROVE  \E d \in snap[p][Topic(p)].date .. toc'[Topic(p)].date :
                   versions'[Topic(p)][d] = got[p].body
    <3>1. snap[p] \in [Topics -> Items] /\ todo[p] # <<>> /\ got[p].body \in Bodies
          /\ Since(Topic(p), snap[p][Topic(p)].date, got[p].body)
      BY <2>1, <2>4 DEF ReadInv, Taking
    <3>2. Topic(p) \in Topics
      BY <3>1, AfterHead, RunTypes DEF Topic
    <3>3. snap[p][Topic(p)].date \in Nat
      BY <3>1, <3>2, Fields
    <3> QED BY <1>1, <3>1, <3>2, <3>3
  <2> QED BY <1>2, <2>1, <2>2, <2>3, <2>4 DEF ReadInv, Since
<1> QED BY <1>1, <1>3, <1>5, <1>6 DEF CurrentInv

\* What the person does to the folder says nothing of the server.
LEMMA PersonCurrent ==
    ASSUME TypeOK, CurrentInv, PersonWrites \/ PersonDeletes \/ ManifestDamaged
    PROVE  TypeOK' /\ CurrentInv'
<1>1. /\ UNCHANGED <<toc, versions, pc, mode, snap, todo, chosen, mem, owners, got, path, dirty,
                     errs, existed, changes>>
      /\ disturbed' = Running /\ settled' = {} /\ mishaps' \in 0 .. MaxMishaps
  BY Shapes
     DEF PersonWrites, PersonDeletes, ManifestDamaged, PersonUses, TypeOK, server, run
<1>2. files' \in [Paths -> Bodies \union {Own, Gone}]
  BY DEF PersonWrites, PersonDeletes, ManifestDamaged, TypeOK
<1>3. /\ saved' \in [state : {"absent", "corrupt", "good"}, entries : Manifests]
      /\ saved' = saved \/ saved'.entries = EmptyManifest
  BY Shapes DEF PersonWrites, PersonDeletes, ManifestDamaged, TypeOK
<1>4. TypeOK'
  BY <1>1, <1>2, <1>3 DEF TypeOK, Running
<1>5. Known(EmptyManifest)
  BY Shapes DEF Known
<1>6. Known(saved'.entries)
  BY <1>3, <1>5 DEF CurrentInv
<1>7. Known(saved.entries)'
  BY <1>1, <1>6 DEF Known, Since
<1>8. ASSUME NEW p \in Procs PROVE ReadInv(p)'
  BY <1>1, SameRead DEF CurrentInv, server
<1>9. Versioned'
  BY <1>1, SameServer DEF CurrentInv, server
<1> QED BY <1>4, <1>7, <1>8, <1>9 DEF CurrentInv

\* The environment's steps.
LEMMA EnvironmentCurrent ==
    ASSUME TypeOK, CurrentInv, Environment
    PROVE  TypeOK' /\ CurrentInv'
<1>1. CASE PersonWrites \/ PersonDeletes \/ ManifestDamaged
  BY <1>1, PersonCurrent
<1>2. ASSUME NEW t \in Topics, UpdateTopic(t) \/ MoveTopic(t) \/ RemoveTopic(t)
      PROVE  TypeOK' /\ CurrentInv'
  <2>1. toc[t] \in Items /\ toc[t].live /\ toc[t].body \in Bodies
    BY <1>2 DEF TypeOK, CurrentInv, Versioned, UpdateTopic, MoveTopic, RemoveTopic
  <2>2. CASE UpdateTopic(t)
    <3>1. PICK b \in Bodies, n \in Names :
              ServerChanges(t, [toc[t] EXCEPT !.date = changes + 1, !.body = b, !.name = n])
      BY <2>2 DEF UpdateTopic
    <3>2. changes + 1 \in Dates
      BY <3>1, Shapes DEF ServerChanges, Dates, TypeOK
    <3> DEFINE item == [toc[t] EXCEPT !.date = changes + 1, !.body = b, !.name = n]
    <3>3. item \in Items /\ item.date = changes + 1 /\ item.body = b
      BY <2>1, <3>2 DEF Items
    <3> HIDE DEF item
    <3> QED BY <2>1, <3>1, <3>3, ServerCurrent DEF item
  <2>3. CASE MoveTopic(t)
    <3>1. PICK d \in Dirs : ServerChanges(t, [toc[t] EXCEPT !.dir = d])
      BY <2>3 DEF MoveTopic
    <3> DEFINE item == [toc[t] EXCEPT !.dir = d]
    <3>2. item \in Items /\ item.date = toc[t].date /\ item.body = toc[t].body
      BY <2>1 DEF Items
    <3> HIDE DEF item
    <3> QED BY <2>1, <3>1, <3>2, ServerCurrent DEF item
  <2>4. CASE RemoveTopic(t)
    <3>1. ServerChanges(t, [toc[t] EXCEPT !.live = FALSE])
      BY <2>4 DEF RemoveTopic
    <3> DEFINE item == [toc[t] EXCEPT !.live = FALSE]
    <3>2. item \in Items /\ item.date = toc[t].date /\ item.body = toc[t].body
      BY <2>1 DEF Items
    <3> HIDE DEF item
    <3> QED BY <2>1, <3>1, <3>2, ServerCurrent DEF item
  <2> QED BY <1>2, <2>2, <2>3, <2>4
<1> QED BY <1>1, <1>2 DEF Environment

-----------------------------------------------------------------------------
(* Whom the paths belong to, and what is in step.                          *)

\* A run's step, its start, or the end of its process.
RunStep(p) == Step(p) \/ Start(p) \/ Crash(p)

\* TypeOK and CurrentInv are kept, and a run's step is its own.
LEMMA CurrentStep ==
    ASSUME TypeOK, CurrentInv
    PROVE  /\ [Next]_vars => TypeOK' /\ CurrentInv'
           /\ \A p \in Procs : RunStep(p) => Elsewhere(p)
<1>1. ASSUME NEW p \in Procs, RunStep(p)
      PROVE  TypeOK' /\ CurrentInv' /\ Elsewhere(p)
  <2>1. CASE Start(p)
    <3>1. PICK m \in Modes, types \in SUBSET {"file", "html"} \ {{}} : Begin(p, m, types)
      BY <2>1 DEF Start
    <3> QED BY <3>1, BeginCurrent
  <2>2. CASE Crash(p)
    BY <2>2, CrashCurrent
  <2>3. CASE Load(p)
    BY <2>3, LoadCurrent
  <2>4. CASE Skip(p)
    BY <2>4, SkipCurrent
  <2>5. CASE TakeTopic(p) \/ Fetch(p)
    BY <2>5, FetchCurrent
  <2>6. CASE FetchFails(p) \/ WriteFails(p)
    BY <2>6, TopicFailsCurrent DEF FetchFails, WriteFails, Taking
  <2>7. CASE Reserve(p)
    BY <2>7, ReserveCurrent
  <2>8. CASE Write(p)
    BY <2>8, WriteCurrent
  <2>9. CASE \E bad \in BOOLEAN : Finish(p, bad)
    BY <2>9, FinishCurrent
  <2> QED BY <1>1, <2>1, <2>2, <2>3, <2>4, <2>5, <2>6, <2>7, <2>8, <2>9 DEF RunStep, Step
<1>2. ASSUME UNCHANGED vars PROVE TypeOK' /\ CurrentInv'
  <2>1. UNCHANGED <<toc, versions, files, saved, pc, mode, snap, todo, chosen, mem, owners, got,
                    path, dirty, errs, existed, disturbed, settled, changes, mishaps>>
    BY <1>2 DEF vars, server, folder, run, counts
  <2>2. TypeOK'
    BY <2>1 DEF TypeOK
  <2>3. \A p \in Procs : ReadInv(p)'
    BY <2>1, SameRead DEF CurrentInv, server
  <2>4. Versioned' /\ Known(saved.entries)'
    BY <2>1, SameServer DEF CurrentInv, server, Known, Since
  <2> QED BY <2>2, <2>3, <2>4 DEF CurrentInv
<1>3. ASSUME Next PROVE TypeOK' /\ CurrentInv'
  BY <1>1, <1>3, EnvironmentCurrent DEF Next, RunStep
<1> QED BY <1>1, <1>2, <1>3

\* What is skipped is current: the entry skipped for has the tree's date, and the
\* bytes recorded with it the topic has had since.
LEMMA SkipsCurrent ==
    ASSUME TypeOK, CurrentInv, NEW p \in Procs, Skip(p)
    PROVE  \E d \in snap[p][Topic(p)].date .. MaxChanges :
               versions[Topic(p)][d] = files[PathOf(snap[p], mem[p], Topic(p))]
<1>1. /\ pc[p] = "topic" /\ Unchanged(p, Topic(p)) /\ ReadInv(p) /\ Versioned
  BY DEF Skip, CurrentInv
<1>2. todo[p] # <<>> /\ snap[p] \in [Topics -> Items] /\ Known(mem[p])
  BY <1>1 DEF ReadInv, Taking
<1>3. Topic(p) \in Topics
  BY <1>2, AfterHead, RunTypes DEF Topic
<1>4. /\ mem[p][Topic(p)] # NoEntry /\ mem[p][Topic(p)].date = snap[p][Topic(p)].date
      /\ files[PathOf(snap[p], mem[p], Topic(p))] = mem[p][Topic(p)].body
  BY <1>1 DEF Unchanged, Matches
<1>5. PICK d \in snap[p][Topic(p)].date .. toc[Topic(p)].date :
          versions[Topic(p)][d] = mem[p][Topic(p)].body
  BY <1>2, <1>3, <1>4 DEF Known, Since
<1>6. /\ snap[p][Topic(p)].date \in Nat /\ toc[Topic(p)].date \in Nat
      /\ toc[Topic(p)].date <= MaxChanges /\ MaxChanges \in Nat
  BY <1>2, <1>3, Fields, Shapes DEF TypeOK
<1>7. d \in snap[p][Topic(p)].date .. MaxChanges
  BY <1>6
<1> QED BY <1>4, <1>5, <1>7

\* A run under way that is not alone has settled nothing, nor is anything settled.
LEMMA OthersFolder ==
    ASSUME TypeOK, FolderInv, NEW p \in Procs, NEW q \in Procs \ {p}, Elsewhere(p),
           pc[p] # "idle", q \in disturbed => q \in disturbed', settled = {} => settled' = {},
           UNCHANGED saved \/ ~OneRun
    PROVE  RunInv(q)'
<1>1. RunInv(q) /\ p # q
  BY DEF FolderInv
<1>2. /\ pc'[q] = pc[q] /\ snap'[q] = snap[q] /\ todo'[q] = todo[q] /\ mem'[q] = mem[q]
      /\ mode'[q] = mode[q] /\ owners'[q] = owners[q] /\ path'[q] = path[q]
      /\ dirty'[q] = dirty[q]
  BY DEF Elsewhere
<1>3. pc[q] # "idle" => q \in disturbed /\ settled = {}
  <2>1. p \in Running
    BY DEF Running
  <2> QED BY <1>1, <2>1 DEF RunInv
<1>4. pc'[q] # "idle" => q \in disturbed' /\ settled' = {}
  BY <1>2, <1>3
<1>5. ~OneRun
  BY <1>1 DEF OneRun
<1>6. OwnInv(q)'
  <2>1. ~(OneRun')
    BY <1>5 DEF OneRun
  <2> QED BY <1>1, <1>2, <1>4, <2>1
         DEF RunInv, OwnInv, Recorded, Live, PathOf, Topic
<1>7. QuietInv(q)'
  BY <1>4 DEF QuietInv
<1> QED BY <1>1, <1>2, <1>4, <1>6, <1>7 DEF RunInv

\* A step of a run keeps FolderInv when it keeps what is settled, and the run's part.
LEMMA FolderFrom ==
    ASSUME TypeOK, FolderInv, NEW p \in Procs, Elsewhere(p), pc[p] # "idle",
           disturbed \ {p} \subseteq disturbed', settled = {} => settled' = {},
           saved'.state # "good" => saved'.entries = EmptyManifest,
           CompleteRunsSync', RunInv(p)'
    PROVE  FolderInv'
<1>1. ASSUME NEW q \in Procs \ {p} PROVE RunInv(q)'
  <2>1. ~OneRun
    BY DEF OneRun
  <2> QED BY <2>1, OthersFolder
<1> QED BY <1>1 DEF FolderInv

\* ... so too when it leaves the folder as it is.
LEMMA FolderSame ==
    ASSUME TypeOK, FolderInv, NEW p \in Procs, Elsewhere(p), pc[p] # "idle",
           UNCHANGED <<toc, files, saved, disturbed, settled>>,
           pc'[p] \notin {"idle", "load"}, OwnInv(p)', QuietInv(p)'
    PROVE  FolderInv'
<1>1. CompleteRunsSync'
  BY DEF FolderInv, CompleteRunsSync, InStep, OwnPath, Matches, PathOf, Recorded, Live
<1>2. RunInv(p)
  BY DEF FolderInv
<1>3. p \notin disturbed => Running' = {p}
  <2>1. ASSUME p \notin disturbed, NEW q \in Procs PROVE pc'[q] # "idle" <=> q = p
    <3>1. Running = {p}
      BY <1>2, <2>1 DEF RunInv
    <3>2. q # p => pc'[q] = pc[q]
      BY DEF Elsewhere
    <3> QED BY <3>1, <3>2 DEF Running
  <2> QED BY <2>1 DEF Running
<1>4. RunInv(p)'
  BY <1>2, <1>3 DEF RunInv
<1>5. saved'.state # "good" => saved'.entries = EmptyManifest
  BY DEF FolderInv
<1> QED BY <1>1, <1>4, <1>5, FolderFrom

\* The manifest a run finds is the one on disk.
LEMMA FoundIsSaved == ASSUME FolderInv PROVE Found = saved.entries
  BY DEF FolderInv, Found

\* Of the topics a run was asked for it takes one at a time.
LEMMA DoneGrows ==
    ASSUME TypeOK, NEW p \in Procs, todo[p] # <<>>, NextTopic(p), UNCHANGED chosen
    PROVE  Done(p)' \subseteq Done(p) \union {Topic(p)}
<1>1. todo[p] \in Seq(Topics) /\ todo'[p] = Tail(todo[p])
  BY RunTypes, NextTopicGoesOn
<1>2. \A u : (\E i \in 1 .. Len(todo[p]) : todo[p][i] = u)
                => u = Head(todo[p]) \/ \E i \in 1 .. Len(Tail(todo[p])) : Tail(todo[p])[i] = u
  BY <1>1, AfterHead, Zenon
<1>3. ASSUME NEW t \in Done(p)', t # Topic(p) PROVE t \in Done(p)
  <2>1. t \in chosen[p] /\ ~(\E i \in 1 .. Len(todo'[p]) : todo'[p][i] = t)
    BY <1>3 DEF Done, Left
  <2>2. ~(\E i \in 1 .. Len(todo[p]) : todo[p][i] = t)
    BY <1>1, <1>2, <1>3, <2>1, Zenon DEF Topic
  <2> QED BY <2>1, <2>2 DEF Done, Left
<1> QED BY <1>3

\* A run has read the tree once it runs.
LEMMA TreeRead ==
    ASSUME TypeOK, CurrentInv, NEW p \in Procs, pc[p] # "idle"
    PROVE  /\ snap[p] \in [Topics -> Items] /\ toc \in [Topics -> Items]
           /\ \A manifest \in Manifests, t \in Topics :
                 PathOf(snap[p], manifest, t) \in Paths /\ PathOf(toc, manifest, t) \in Paths
<1>1. snap[p] \in [Topics -> Items] /\ toc \in [Topics -> Items]
  BY DEF CurrentInv, ReadInv, TypeOK
<1> QED BY <1>1, PathOfType

\* A run begins: what is settled stays so unless another run is under way.
LEMMA BeginFolder ==
    ASSUME TypeOK, CurrentInv, FolderInv, NEW p \in Procs, NEW m \in Modes,
           NEW types \in SUBSET {"file", "html"}, Begin(p, m, types)
    PROVE  FolderInv'
<1> DEFINE sel == {t \in Live(toc) : TypeOf(t) \in types}
<1>1. sel \in SUBSET Topics /\ sel \subseteq Live(toc)
  BY DEF Live
<1> HIDE DEF sel
<1>2. PICK o \in Orders(sel) : todo' = [todo EXCEPT ![p] = o]
  BY DEF Begin, sel
<1>3. \A t \in sel : \E i \in 1 .. Len(o) : o[i] = t
  BY <1>1, OrderTakesAll
<1>4. /\ pc[p] = "idle" /\ pc'[p] = "load" /\ chosen'[p] = sel /\ todo'[p] = o
      /\ snap'[p] = toc /\ mode'[p] = m /\ dirty'[p] = dirty[p]
      /\ UNCHANGED <<toc, files, saved>>
      /\ disturbed' = (IF Running = {} THEN {} ELSE Running \union {p})
      /\ settled' = (IF Running = {} THEN settled ELSE {})
  BY <1>2 DEF Begin, Goto, sel, TypeOK, server, folder
<1>5. Elsewhere(p) /\ p \notin Running
  BY <1>4, BeginCurrent DEF Running
<1>6. Done(p)' = {}
  BY <1>3, <1>4 DEF Done, Left
<1>7. CompleteRunsSync'
  BY <1>4 DEF FolderInv, CompleteRunsSync, InStep, OwnPath, Matches, PathOf, Recorded, Live
<1>8. RunInv(p)'
  <2>1. ~dirty'[p]
    BY <1>4 DEF FolderInv, RunInv
  <2>2. p \in disturbed' => settled' = {}
    BY <1>4
  <2>3. ASSUME p \notin disturbed' PROVE Running' = {p}
    <3>1. \A q \in Procs : pc[q] = "idle"
      BY <1>4, <2>3 DEF Running
    <3>2. \A q \in Procs \ {p} : pc'[q] = "idle"
      BY <3>1, <1>5 DEF Elsewhere
    <3> QED BY <1>4, <3>2 DEF Running
  <2>4. OwnInv(p)'
    BY <1>4 DEF OwnInv
  <2>5. QuietInv(p)'
    BY <1>1, <1>4, <1>6 DEF QuietInv
  <2> QED BY <1>4, <2>1, <2>2, <2>3, <2>4, <2>5 DEF RunInv
<1>9. ASSUME NEW q \in Procs \ {p} PROVE RunInv(q)'
  <2>1. RunInv(q) /\ ~OneRun
    BY DEF FolderInv, OneRun
  <2>2. /\ pc'[q] = pc[q] /\ snap'[q] = snap[q] /\ todo'[q] = todo[q] /\ mem'[q] = mem[q]
        /\ mode'[q] = mode[q] /\ owners'[q] = owners[q] /\ path'[q] = path[q]
        /\ dirty'[q] = dirty[q]
    BY <1>5 DEF Elsewhere
  <2>3. pc'[q] # "idle" => q \in disturbed' /\ settled' = {}
    BY <1>4, <2>2 DEF Running
  <2>4. OwnInv(q)'
    <3>1. ~(OneRun')
      BY <2>1 DEF OneRun
    <3> QED BY <1>4, <2>1, <2>2, <2>3, <3>1
           DEF RunInv, OwnInv, Recorded, Live, PathOf, Topic
  <2>5. QuietInv(q)'
    BY <2>3 DEF QuietInv
  <2> QED BY <2>1, <2>2, <2>3, <2>4, <2>5 DEF RunInv
<1>10. saved'.state # "good" => saved'.entries = EmptyManifest
  BY <1>4 DEF FolderInv
<1> QED BY <1>8, <1>9, <1>7, <1>10 DEF FolderInv

\* A run loads the manifest: each path goes to the topic recorded there.
LEMMA LoadFolder ==
    ASSUME TypeOK, CurrentInv, FolderInv, NEW p \in Procs, Load(p)
    PROVE  FolderInv'
<1> DEFINE own == OwnersOf(snap[p], saved.entries, mode[p])
           m == IF mode[p] = "force" THEN EmptyManifest ELSE saved.entries
<1>1. Found = saved.entries /\ saved.entries \in Manifests
  BY FoundIsSaved DEF TypeOK
<1>2. /\ pc[p] = "load" /\ pc'[p] \in {"topic", "finish"}
      /\ mem'[p] = m /\ owners'[p] = own /\ mode'[p] = mode[p] /\ snap'[p] = snap[p]
      /\ dirty'[p] = dirty[p] /\ todo'[p] = todo[p] /\ chosen'[p] = chosen[p]
      /\ UNCHANGED <<toc, files, saved, disturbed, settled>>
  BY <1>1 DEF Load, Goto, TypeOK, server, folder
<1>3. /\ snap[p] \in [Topics -> Items]
      /\ \A t \in Topics : PathOf(snap[p], saved.entries, t) \in Paths
  BY <1>1, <1>2, TreeRead
<1>4. ASSUME NEW t \in Recorded(snap[p], saved.entries)
      PROVE  LET q == PathOf(snap[p], saved.entries, t)
             IN  /\ mode[p] # "force" => own[q] \in {Contested, t}
                 /\ Alone(snap[p], saved.entries, t) => own[q] = t
  <2>1. t \in Topics
    BY DEF Recorded, Live
  <2> QED BY <1>3, <2>1, OwnersType
<1>5. \A t \in Topics : EmptyManifest[t] = NoEntry
  BY Shapes
<1> HIDE DEF own
<1>6. OwnInv(p)'
  <2>1. ASSUME NEW t \in Recorded(snap[p], saved.entries), Alone(snap[p], saved.entries, t)
        PROVE  own[PathOf(snap[p], saved.entries, t)] = t
    BY <1>4, <2>1
  <2>2. ASSUME NEW t \in Recorded(snap[p], m)
        PROVE  \/ own[PathOf(snap[p], m, t)] = t
               \/ mode[p] # "force" /\ own[PathOf(snap[p], m, t)] = Contested
    <3>1. mode[p] # "force"
      BY <1>5, <2>2 DEF Recorded, Live
    <3> QED BY <1>4, <2>2, <3>1
  <2> HIDE DEF m
  <2> QED BY <1>2, <2>1, <2>2 DEF OwnInv, Alone, Recorded, Live, PathOf
<1>7. QuietInv(p)'
  <2> SUFFICES ASSUME p \notin disturbed' PROVE QuietInv(p)'
    BY DEF QuietInv
  <2>1. /\ QuietInv(p) /\ p \notin disturbed /\ ~dirty[p]
    BY <1>2 DEF FolderInv, RunInv
  <2>2. snap[p] = toc /\ chosen[p] \subseteq Live(toc) /\ Done(p) = {}
    BY <1>2, <2>1 DEF QuietInv
  <2>3. Done(p)' = {}
    BY <1>2, <2>2 DEF Done, Left
  <2>4. ASSUME mode[p] # "force", NEW t \in settled PROVE Keeps(p, t)'
    <3>1. InStep(t) /\ OwnPath(t) /\ t \in Topics
      BY <2>4 DEF FolderInv, CompleteRunsSync, TypeOK
    <3>2. t \in Recorded(toc, saved.entries) /\ Alone(toc, saved.entries, t)
      BY <3>1 DEF InStep, OwnPath, Alone, Recorded, Live
    <3>3. own[PathOf(toc, saved.entries, t)] = t
      BY <1>4, <2>2, <3>2
    <3>4. mem'[p] = saved.entries
      BY <1>2, <2>4
    <3> QED BY <1>2, <3>1, <3>3, <3>4 DEF InStep, Keeps, Has, Matches, PathOf
  <2> QED BY <1>2, <2>2, <2>3, <2>4 DEF QuietInv, Live
<1>8. Elsewhere(p)
  BY LoadCurrent
<1> QED BY <1>2, <1>6, <1>7, <1>8, FolderSame

\* A topic is skipped: it is in step at a path of its own.
LEMMA SkipFolder ==
    ASSUME TypeOK, CurrentInv, FolderInv, NEW p \in Procs, Skip(p)
    PROVE  FolderInv'
<1>1. /\ pc[p] = "topic" /\ Unchanged(p, Topic(p)) /\ NextTopic(p)
      /\ UNCHANGED <<toc, files, saved, mode, snap, chosen, mem, owners, got, path, dirty, errs,
                     disturbed, settled>>
  BY DEF Skip, server, folder
<1>2. ReadInv(p) /\ RunInv(p) /\ Versioned
  BY DEF CurrentInv, FolderInv
<1>3. todo[p] # <<>> /\ Known(mem[p])
  BY <1>1, <1>2 DEF ReadInv, Taking
<1>4. Topic(p) \in Topics /\ pc'[p] \in {"topic", "finish"}
  BY <1>1, <1>3, NextTopicGoesOn
<1>5. OwnInv(p)'
  BY <1>1, <1>2, <1>4 DEF RunInv, OwnInv, Alone, Recorded, Live, PathOf, OneRun
<1>6. QuietInv(p)'
  <2> SUFFICES ASSUME p \notin disturbed' PROVE QuietInv(p)'
    BY DEF QuietInv
  <2>1. QuietInv(p) /\ p \notin disturbed
    BY <1>1, <1>2 DEF RunInv
  <2>2. snap[p] = toc /\ chosen[p] \subseteq Live(toc)
    BY <1>1, <2>1 DEF QuietInv
  <2>3. Done(p)' \subseteq Done(p) \union {Topic(p)}
    BY <1>1, <1>3, DoneGrows
  <2>4. ASSUME Topic(p) \in Live(toc) PROVE Keeps(p, Topic(p))
    <3>1. /\ mem[p][Topic(p)] # NoEntry /\ mem[p][Topic(p)].date = toc[Topic(p)].date
          /\ Matches(toc, mem[p], Topic(p)) /\ mode[p] = "sync"
          /\ owners[p][PathOf(toc, mem[p], Topic(p))] = Topic(p)
      BY <1>1, <2>2 DEF Unchanged
    <3>2. PICK d \in toc[Topic(p)].date .. toc[Topic(p)].date :
              versions[Topic(p)][d] = mem[p][Topic(p)].body
      BY <1>3, <1>4, <3>1 DEF Known, Since
    <3>3. toc[Topic(p)].date \in Nat
      BY <1>4, Fields DEF TypeOK
    <3>4. d = toc[Topic(p)].date
      BY <3>2, <3>3
    <3>5. mem[p][Topic(p)].body = toc[Topic(p)].body
      BY <1>2, <1>4, <3>2, <3>4 DEF Versioned
    <3> QED BY <2>4, <3>1, <3>5 DEF Keeps, Has, Live
  <2>5. \A t : Keeps(p, t) => Keeps(p, t)'
    BY <1>1 DEF Keeps, Has, Matches, PathOf
  <2>6. ~errs[p] => \A t \in Done(p)' : Keeps(p, t)'
    <3>1. Done(p)' \subseteq Live(toc)
      BY <1>1, <2>2 DEF Done
    <3>2. ~errs[p] => \A t \in Done(p) : Keeps(p, t)
      BY <1>1, <2>1 DEF QuietInv
    <3> QED BY <2>3, <2>4, <2>5, <3>1, <3>2
  <2>7. /\ mode[p] = "sync"
        /\ mode[p] # "force" => \A t \in settled : Keeps(p, t)
        /\ ~dirty[p] => mem[p] = IF mode[p] = "force" THEN EmptyManifest ELSE saved.entries
    BY <1>1, <2>1 DEF QuietInv, Unchanged
  <2>8. pc'[p] \notin {"load", "reserve", "write"}
    BY <1>4
  <2> QED BY <1>1, <2>2, <2>5, <2>6, <2>7, <2>8 DEF QuietInv, Live
<1>7. Elsewhere(p)
  BY SkipCurrent
<1> QED BY <1>1, <1>4, <1>5, <1>6, <1>7, FolderSame

\* A failed topic is an error of the run, and changes nothing.
LEMMA TopicFailsFolder ==
    ASSUME TypeOK, CurrentInv, FolderInv, NEW p \in Procs, pc[p] \in Taking, TopicFails(p)
    PROVE  FolderInv'
<1>1. /\ NextTopic(p) /\ errs'[p] = TRUE
      /\ UNCHANGED <<toc, files, saved, mode, snap, chosen, mem, owners, dirty,
                     disturbed, settled>>
  BY DEF TopicFails, server, folder, TypeOK
<1>2. ReadInv(p) /\ RunInv(p)
  BY DEF CurrentInv, FolderInv
<1>3. todo[p] # <<>> /\ pc[p] \notin {"idle", "load"}
  BY <1>1, <1>2 DEF ReadInv, Taking
<1>4. pc'[p] \in {"topic", "finish"}
  BY <1>1, <1>3, NextTopicGoesOn
<1>5. OwnInv(p)'
  BY <1>1, <1>2, <1>3, <1>4 DEF RunInv, OwnInv, Alone, Recorded, Live, PathOf, OneRun
<1>6. QuietInv(p)'
  <2> SUFFICES ASSUME p \notin disturbed' PROVE QuietInv(p)'
    BY DEF QuietInv
  <2>1. QuietInv(p) /\ p \notin disturbed
    BY <1>1, <1>2 DEF RunInv
  <2>2. \A t : Keeps(p, t) => Keeps(p, t)'
    BY <1>1 DEF Keeps, Has, Matches, PathOf
  <2> QED BY <1>1, <1>3, <1>4, <2>1, <2>2 DEF QuietInv, Live
<1>7. Elsewhere(p)
  BY TopicFailsCurrent
<1> QED BY <1>1, <1>3, <1>4, <1>5, <1>6, <1>7, FolderSame

\* A topic is taken and downloaded.
LEMMA FetchFolder ==
    ASSUME TypeOK, CurrentInv, FolderInv, NEW p \in Procs, TakeTopic(p) \/ Fetch(p)
    PROVE  FolderInv'
<1>1. /\ UNCHANGED <<toc, files, saved, mode, snap, todo, chosen, mem, owners, dirty, errs,
                     disturbed, settled>>
      /\ pc[p] \in {"topic", "fetch"} /\ pc'[p] \in {"fetch", "reserve"}
  BY DEF TakeTopic, Fetch, Goto, server, folder, TypeOK
<1>2. pc'[p] = "reserve" => got'[p].body = toc[Topic(p)].body
  <2>1. CASE TakeTopic(p)
    BY <2>1 DEF TakeTopic, Goto, TypeOK
  <2>2. CASE Fetch(p)
    <3> DEFINE copy == [body |-> toc[Topic(p)].body, name |-> toc[Topic(p)].name]
    <3>1. got' = [got EXCEPT ![p] = copy] /\ copy.body = toc[Topic(p)].body
      BY <2>2 DEF Fetch
    <3> HIDE DEF copy
    <3> QED BY <3>1 DEF TypeOK
  <2> QED BY <2>1, <2>2
<1>3. RunInv(p)
  BY DEF FolderInv
<1>4. OwnInv(p)'
  BY <1>1, <1>3 DEF RunInv, OwnInv, Alone, Recorded, Live, PathOf, OneRun
<1>5. QuietInv(p)'
  <2> SUFFICES ASSUME p \notin disturbed' PROVE QuietInv(p)'
    BY DEF QuietInv
  <2>1. QuietInv(p) /\ p \notin disturbed
    BY <1>1, <1>3 DEF RunInv
  <2>2. /\ \A t : Keeps(p, t) => Keeps(p, t)'
        /\ Done(p)' = Done(p) /\ Topic(p)' = Topic(p)
    BY <1>1 DEF Keeps, Has, Matches, PathOf, Done, Left, Topic
  <2> QED BY <1>1, <1>2, <2>1, <2>2 DEF QuietInv, Live
<1>6. Elsewhere(p)
  BY FetchCurrent
<1> QED BY <1>1, <1>4, <1>5, <1>6, FolderSame

\* A path is reserved: no path of another topic's.
LEMMA ReserveFolder ==
    ASSUME TypeOK, CurrentInv, FolderInv, NEW p \in Procs, Reserve(p)
    PROVE  FolderInv'
<1>1. /\ UNCHANGED <<toc, files, saved, mode, snap, todo, chosen, mem, got, dirty, errs,
                     disturbed, settled>>
      /\ pc[p] = "reserve" /\ pc'[p] = "write" /\ pc[p] \in Taking
  BY DEF Reserve, Goto, server, folder, TypeOK, Taking
<1>2. PICK k \in 0 .. MaxTries :
          /\ MayUse(p, Candidate(p, k))
          /\ owners' = [owners EXCEPT ![p][Candidate(p, k)] = Topic(p)]
          /\ path' = [path EXCEPT ![p] = Candidate(p, k)]
  BY DEF Reserve
<1> DEFINE q == Candidate(p, k)
<1>3. Topic(p) \in Topics /\ q \in Paths
  BY <1>1, CandidateType
<1> HIDE DEF q
<1>4. /\ owners[p] \in [Paths -> Topics \union {Unowned, Contested}]
      /\ owners \in [Procs -> [Paths -> Topics \union {Unowned, Contested}]]
      /\ path \in [Procs -> Paths \union {NoPath}]
  BY DEF TypeOK
<1>5. \A r \in Paths : owners'[p][r] = IF r = q THEN Topic(p) ELSE owners[p][r]
  BY <1>2, <1>4 DEF q
<1>6. path'[p] = q
  BY <1>2, <1>4 DEF q
<1>7. \/ owners[p][q] = Topic(p) \/ owners[p][q] = Unowned
      \/ owners[p][q] = Contested /\ mode[p] = "force"
  BY <1>2 DEF MayUse, q
<1>8. \A t \in Topics : t # Unowned /\ t # Contested
  BY TopicSets
<1>9. Unowned # Contested
  BY DEF Unowned, Contested
<1>10. ASSUME NEW t \in Topics, NEW r \in Paths, owners[p][r] = t
       PROVE  owners'[p][r] = t
  BY <1>5, <1>7, <1>8, <1>10
<1>11. ASSUME NEW r \in Paths, owners[p][r] = Contested, mode[p] # "force"
       PROVE  owners'[p][r] = Contested
  BY <1>3, <1>5, <1>7, <1>8, <1>9, <1>11
<1>12. RunInv(p) /\ Topic(p)' = Topic(p)
  BY <1>1 DEF FolderInv, Topic
<1>13. /\ \A manifest \in Manifests, t \in Topics :
             PathOf(snap[p], manifest, t) \in Paths /\ PathOf(toc, manifest, t) \in Paths
       /\ saved.entries \in Manifests /\ mem[p] \in Manifests
  BY <1>1, TreeRead DEF TypeOK
<1>14. OwnInv(p)'
  <2>1. \A t \in Recorded(snap[p], saved.entries) :
            owners[p][PathOf(snap[p], saved.entries, t)] = t
                => owners'[p][PathOf(snap[p], saved.entries, t)] = t
    BY <1>10, <1>13 DEF Recorded, Live
  <2>2. \A t \in Recorded(snap[p], mem[p]) :
            \/ owners'[p][PathOf(snap[p], mem[p], t)] = t
            \/ mode[p] # "force" /\ owners'[p][PathOf(snap[p], mem[p], t)] = Contested
    BY <1>1, <1>10, <1>11, <1>12, <1>13 DEF RunInv, OwnInv, Recorded, Live
  <2>3. owners'[p][path'[p]] = Topic(p)
    BY <1>3, <1>5, <1>6
  <2>4. p \notin disturbed \/ OneRun =>
            \A t \in Recorded(snap[p], saved.entries) :
                Alone(snap[p], saved.entries, t) =>
                    owners'[p][PathOf(snap[p], saved.entries, t)] = t
    BY <1>1, <1>12, <2>1 DEF RunInv, OwnInv
  <2> QED BY <1>1, <1>12, <2>2, <2>3, <2>4
         DEF OwnInv, Alone, Recorded, Live, PathOf, OneRun
<1>15. QuietInv(p)'
  <2> SUFFICES ASSUME p \notin disturbed' PROVE QuietInv(p)'
    BY DEF QuietInv
  <2>1. QuietInv(p) /\ p \notin disturbed
    BY <1>1, <1>12 DEF RunInv
  <2>2. \A t \in Topics : Keeps(p, t) => Keeps(p, t)'
    <3>1. ASSUME NEW t \in Topics, Keeps(p, t) PROVE Keeps(p, t)'
      <4>1. owners'[p][PathOf(toc, mem[p], t)] = t
        BY <1>10, <1>13, <3>1 DEF Keeps
      <4> QED BY <1>1, <3>1, <4>1 DEF Keeps, Has, Matches, PathOf
    <3> QED BY <3>1
  <2>3. Done(p)' = Done(p) /\ Done(p) \subseteq Topics /\ settled \subseteq Topics
    BY <1>1, RunTypes DEF Done, Left, TypeOK
  <2> QED BY <1>1, <1>12, <2>1, <2>2, <2>3 DEF QuietInv, Live
<1>16. Elsewhere(p)
  BY ReserveCurrent
<1> QED BY <1>1, <1>14, <1>15, <1>16, FolderSame

\* A topic is written: at a path of its own, which no other topic's copy has.
LEMMA WriteFolder ==
    ASSUME TypeOK, CurrentInv, FolderInv, NEW p \in Procs, Write(p)
    PROVE  FolderInv'
<1> DEFINE T == Topic(p)
           q == path[p]
           e == Entry(p)
<1>1. /\ pc[p] = "write" /\ todo[p] # <<>> /\ NextTopic(p)
      /\ files' = [files EXCEPT ![q] = got[p].body]
      /\ mem'[p] = [mem[p] EXCEPT ![T] = e] /\ dirty'[p]
      /\ UNCHANGED <<toc, versions, saved, mode, snap, chosen, owners, errs, existed,
                     disturbed, settled, changes, mishaps>>
      /\ Elsewhere(p)
  BY WriteEffect
<1>2. /\ e # NoEntry /\ T \in Topics /\ q \in Paths
      /\ q = <<snap[p][T].dir, e.file>>
      /\ e.date = snap[p][T].date /\ e.body = got[p].body
  BY <1>1, EntryFits
<1> HIDE DEF T, q, e
<1>3. RunInv(p) /\ OwnInv(p) /\ QuietInv(p)
  BY DEF FolderInv, RunInv
<1>4. owners[p][q] = T
  BY <1>1, <1>3 DEF OwnInv, q, T
<1>5. /\ mem[p] \in Manifests /\ saved.entries \in Manifests
      /\ files \in [Paths -> Bodies \union {Own, Gone}]
  BY DEF TypeOK
<1>6. \A t \in Topics : mem'[p][t] = IF t = T THEN e ELSE mem[p][t]
  BY <1>1, <1>5 DEF Manifests
<1>7. \A r \in Paths : files'[r] = IF r = q THEN got[p].body ELSE files[r]
  BY <1>1, <1>5
<1>8. /\ \A manifest \in Manifests, t \in Topics :
            PathOf(snap[p], manifest, t) \in Paths /\ PathOf(toc, manifest, t) \in Paths
  BY <1>1, TreeRead
<1>9. /\ PathOf(snap[p], mem'[p], T) = q
      /\ \A t \in Topics \ {T} :
            /\ PathOf(snap[p], mem'[p], t) = PathOf(snap[p], mem[p], t)
            /\ PathOf(toc, mem'[p], t) = PathOf(toc, mem[p], t)
  BY <1>2, <1>6 DEF PathOf
<1>10. pc'[p] \in {"topic", "finish"}
  BY <1>1, NextTopicGoesOn
<1>11. p \notin disturbed => snap[p] = toc /\ got[p].body = toc[T].body
  BY <1>1, <1>3 DEF QuietInv, T
<1>12. CompleteRunsSync'
  <2>1. ASSUME NEW t \in settled PROVE InStep(t)' /\ OwnPath(t)'
    <3>1. t \in Topics /\ InStep(t) /\ OwnPath(t)
      BY <2>1 DEF FolderInv, CompleteRunsSync, TypeOK
    <3>2. p \notin disturbed
      BY <1>1, <1>3, <2>1 DEF RunInv
    <3> DEFINE r == PathOf(toc, saved.entries, t)
    <3>3. t \in Recorded(toc, saved.entries) /\ Alone(toc, saved.entries, t)
      BY <3>1 DEF InStep, OwnPath, Alone, Recorded, Live
    <3>4. owners[p][r] = t
      BY <1>1, <1>3, <1>11, <3>2, <3>3 DEF OwnInv
    <3>5. r \in Paths
      BY <1>5, <1>8, <3>1
    <3>6. files[r] = saved.entries[t].body /\ saved.entries[t].body = toc[t].body
      BY <3>1 DEF InStep, Matches
    <3>7. files'[r] = saved.entries[t].body
      <4> HIDE DEF r
      <4>1. CASE r = q
        <5>1. t = T
          BY <1>4, <3>4, <4>1
        <5> QED BY <1>2, <1>7, <1>11, <3>2, <3>6, <4>1, <5>1
      <4>2. CASE r # q
        BY <1>7, <3>5, <3>6, <4>2
      <4> QED BY <4>1, <4>2
    <3>8. OwnPath(t)'
      BY <1>1, <3>1 DEF OwnPath, Recorded, Live, PathOf
    <3> QED BY <1>1, <3>1, <3>7, <3>8 DEF InStep, Matches, PathOf
  <2> QED BY <1>1, <2>1 DEF CompleteRunsSync
<1>13. OwnInv(p)'
  <2>1. ASSUME NEW t \in Recorded(snap[p], mem'[p])
        PROVE  \/ owners[p][PathOf(snap[p], mem'[p], t)] = t
               \/ mode[p] # "force" /\ owners[p][PathOf(snap[p], mem'[p], t)] = Contested
    <3>1. t \in Topics
      BY DEF Recorded, Live
    <3>2. CASE t = T
      BY <1>4, <1>9, <3>2
    <3>3. CASE t # T
      <4>1. t \in Recorded(snap[p], mem[p])
        BY <1>6, <3>1, <3>3 DEF Recorded, Live
      <4> QED BY <1>1, <1>3, <1>9, <3>1, <3>3, <4>1 DEF OwnInv
    <3> QED BY <3>2, <3>3
  <2>2. p \notin disturbed \/ OneRun =>
            \A t \in Recorded(snap[p], saved.entries) :
                Alone(snap[p], saved.entries, t) =>
                    owners[p][PathOf(snap[p], saved.entries, t)] = t
    BY <1>1, <1>3 DEF OwnInv
  <2> QED BY <1>1, <1>10, <2>1, <2>2 DEF OwnInv, Alone, Recorded, Live, PathOf, OneRun
<1>14. QuietInv(p)'
  <2> SUFFICES ASSUME p \notin disturbed' PROVE QuietInv(p)'
    BY DEF QuietInv
  <2>1. p \notin disturbed /\ snap[p] = toc /\ chosen[p] \subseteq Live(toc)
    BY <1>1, <1>3 DEF QuietInv
  <2>2. ASSUME NEW t \in Live(toc), t = T PROVE Keeps(p, t)'
    <3>1. PathOf(toc, mem'[p], t) = q /\ files'[q] = got[p].body /\ mem'[p][t] = e
      BY <1>2, <1>6, <1>7, <1>9, <2>1, <2>2
    <3> QED BY <1>1, <1>2, <1>4, <1>11, <2>1, <2>2, <3>1
           DEF Keeps, Has, Matches, PathOf, Live
  <2>3. ASSUME NEW t \in Topics, t # T, Keeps(p, t) PROVE Keeps(p, t)'
    <3>1. /\ PathOf(toc, mem'[p], t) = PathOf(toc, mem[p], t) /\ mem'[p][t] = mem[p][t]
          /\ PathOf(toc, mem[p], t) \in Paths
      BY <1>5, <1>6, <1>8, <1>9, <2>3
    <3>2. PathOf(toc, mem[p], t) # q
      BY <1>4, <2>3 DEF Keeps
    <3>3. files'[PathOf(toc, mem[p], t)] = files[PathOf(toc, mem[p], t)]
      BY <1>7, <3>1, <3>2
    <3> QED BY <1>1, <2>3, <3>1, <3>3 DEF Keeps, Has, Matches, PathOf
  <2>4. mode[p] # "force" => \A t \in settled : Keeps(p, t)'
    <3>1. \A t \in settled : t \in Topics /\ t \in Live(toc)
      BY DEF FolderInv, CompleteRunsSync, InStep, TypeOK, Live
    <3>2. mode[p] # "force" => \A t \in settled : Keeps(p, t)
      BY <1>1, <1>3, <2>1 DEF QuietInv
    <3> QED BY <2>2, <2>3, <3>1, <3>2
  <2>5. ~errs[p] => \A t \in Done(p)' : Keeps(p, t)'
    <3>1. Done(p)' \subseteq Done(p) \union {T}
      BY <1>1, DoneGrows DEF T
    <3>2. Done(p)' \subseteq Live(toc) /\ Live(toc) \subseteq Topics
      BY <1>1, <2>1 DEF Done, Live
    <3>3. ~errs[p] => \A t \in Done(p) : Keeps(p, t)
      BY <1>1, <1>3, <2>1 DEF QuietInv
    <3> QED BY <2>2, <2>3, <3>1, <3>2, <3>3
  <2> QED BY <1>1, <1>10, <2>1, <2>4, <2>5 DEF QuietInv, Live
<1>15. RunInv(p)'
  <2>1. p \notin disturbed => Running' = {p}
    <3>1. ASSUME p \notin disturbed, NEW s \in Procs PROVE pc'[s] # "idle" <=> s = p
      <4>1. Running = {p}
        BY <1>1, <1>3, <3>1 DEF RunInv
      <4>2. s # p => pc'[s] = pc[s]
        BY <1>1 DEF Elsewhere
      <4> QED BY <1>10, <4>1, <4>2 DEF Running
    <3> QED BY <3>1 DEF Running
  <2>2. p \in disturbed => settled = {}
    BY <1>1, <1>3 DEF RunInv
  <2> QED BY <1>1, <1>10, <1>13, <1>14, <2>1, <2>2 DEF RunInv
<1>16. saved'.state # "good" => saved'.entries = EmptyManifest
  BY <1>1 DEF FolderInv
<1> QED BY <1>1, <1>12, <1>15, <1>16, FolderFrom

\* A run that ends without an error leaves in step what it was asked for.
LEMMA FinishFolder ==
    ASSUME TypeOK, CurrentInv, FolderInv, NEW p \in Procs, NEW bad \in BOOLEAN, Finish(p, bad)
    PROVE  FolderInv'
<1> DEFINE failed == errs[p] \/ bad
<1>1. /\ pc[p] = "finish" /\ Leave(p) /\ Elsewhere(p) /\ UNCHANGED <<toc, files>>
      /\ disturbed' = disturbed \ {p}
      /\ saved' = IF Saves(p, failed) THEN [state |-> "good", entries |-> mem[p]] ELSE saved
      /\ Settles(p, failed)
  BY FinishCurrent DEF Finish, server
<1>2. pc'[p] = "idle" /\ ~dirty'[p]
  BY <1>1, LeaveGoes
<1>3. RunInv(p) /\ OwnInv(p) /\ todo[p] = <<>>
  BY <1>1 DEF FolderInv, RunInv, CurrentInv, ReadInv
<1>4. RunInv(p)'
  BY <1>2 DEF RunInv, OwnInv, QuietInv
<1>5. p \in disturbed => settled = {} /\ settled' = {}
  BY <1>1, <1>3 DEF RunInv, Settles
<1>6. settled = {} => settled' = {} \/ p \notin disturbed
  BY <1>5
<1>7. saved'.state # "good" => saved'.entries = EmptyManifest
  BY <1>1 DEF FolderInv
<1>8. CompleteRunsSync'
  <2>1. CASE p \in disturbed
    BY <1>5, <2>1 DEF CompleteRunsSync
  <2>2. CASE p \notin disturbed
    <3>1. /\ snap[p] = toc /\ chosen[p] \subseteq Live(toc)
          /\ mode[p] # "force" => \A t \in settled : Keeps(p, t)
          /\ ~errs[p] => \A t \in Done(p) : Keeps(p, t)
          /\ ~dirty[p] =>
                /\ mem[p] = IF mode[p] = "force" THEN EmptyManifest ELSE saved.entries
                /\ ~errs[p] /\ mode[p] # "sync" => Done(p) = {}
      BY <1>1, <1>3, <2>2 DEF RunInv, QuietInv
    <3>2. Done(p) = chosen[p]
      BY <1>3, EmptySeq DEF Done, Left
    <3>3. ASSUME NEW t \in settled' PROVE Keeps(p, t) /\ saved'.entries = mem[p]
      <4>1. CASE mode[p] = "force"
        <5>1. ~failed /\ t \in chosen[p]
          BY <1>1, <2>2, <3>3, <4>1 DEF Settles
        <5>2. dirty[p]
          BY <3>1, <3>2, <4>1, <5>1
        <5> QED BY <1>1, <3>1, <3>2, <5>1, <5>2 DEF Saves
      <4>2. CASE mode[p] # "force"
        <5>1. t \in settled \/ (~failed /\ t \in chosen[p])
          BY <1>1, <2>2, <3>3, <4>2 DEF Settles
        <5>2. saved'.entries = mem[p]
          BY <1>1, <3>1, <4>2 DEF Saves
        <5> QED BY <3>1, <3>2, <4>2, <5>1, <5>2
      <4> QED BY <4>1, <4>2
    <3>4. ASSUME NEW t \in settled' PROVE InStep(t)' /\ OwnPath(t)'
      <4>1. Keeps(p, t) /\ saved'.entries = mem[p]
        BY <3>3
      <4>2. InStep(t)'
        BY <1>1, <4>1 DEF Keeps, Has, InStep, Matches, PathOf
      <4>3. \A u \in Recorded(toc, mem[p]) \ {t} : PathOf(toc, mem[p], u) # PathOf(toc, mem[p], t)
        <5>1. ASSUME NEW u \in Recorded(toc, mem[p]) \ {t},
                     PathOf(toc, mem[p], u) = PathOf(toc, mem[p], t)
              PROVE  FALSE
          <6>1. owners[p][PathOf(toc, mem[p], u)] \in {u, Contested}
            BY <1>1, <1>3, <3>1 DEF OwnInv
          <6>2. owners[p][PathOf(toc, mem[p], u)] = t
            BY <4>1, <5>1 DEF Keeps
          <6>3. t \in Topics
            BY FinishCurrent DEF TypeOK
          <6>4. t # Contested
            BY <6>3, TopicSets
          <6> QED BY <6>1, <6>2, <6>4
        <5> QED BY <5>1
      <4> QED BY <1>1, <4>1, <4>2, <4>3 DEF OwnPath, Recorded, Live, PathOf
    <3> QED BY <3>4 DEF CompleteRunsSync
  <2> QED BY <2>1, <2>2
<1>9. ASSUME NEW q \in Procs \ {p} PROVE RunInv(q)'
  <2>1. CASE p \in disturbed
    <3>1. settled = {} => settled' = {}
      BY <1>5, <2>1
    <3>2. ~OneRun
      BY DEF OneRun
    <3> QED BY <1>1, <3>1, <3>2, OthersFolder
  <2>2. CASE p \notin disturbed
    <3>1. Running = {p}
      BY <1>1, <1>3, <2>2 DEF RunInv
    <3>2. pc'[q] = "idle" /\ dirty'[q] = dirty[q] /\ pc[q] = "idle"
      BY <1>1, <3>1 DEF Elsewhere, Running
    <3> QED BY <3>2 DEF FolderInv, RunInv, OwnInv, QuietInv
  <2> QED BY <2>1, <2>2
<1> QED BY <1>4, <1>7, <1>8, <1>9 DEF FolderInv

\* A run that is killed leaves its files, and the manifest as it was.
LEMMA CrashFolder ==
    ASSUME TypeOK, CurrentInv, FolderInv, NEW p \in Procs, Crash(p)
    PROVE  FolderInv'
<1>1. /\ pc[p] # "idle" /\ Leave(p) /\ Elsewhere(p) /\ disturbed' = disturbed \ {p}
      /\ UNCHANGED <<toc, files, saved, settled>>
  BY CrashCurrent DEF Crash, server, folder
<1>2. pc'[p] = "idle" /\ ~dirty'[p]
  BY <1>1, LeaveGoes
<1>3. RunInv(p)'
  BY <1>2 DEF RunInv, OwnInv, QuietInv
<1>4. CompleteRunsSync'
  BY <1>1 DEF FolderInv, CompleteRunsSync, InStep, OwnPath, Matches, PathOf, Recorded, Live
<1>5. saved'.state # "good" => saved'.entries = EmptyManifest
  BY <1>1 DEF FolderInv
<1> QED BY <1>1, <1>3, <1>4, <1>5, FolderFrom

\* What changes on the server, or by the person, disturbs every run under way.
LEMMA EnvironmentFolder ==
    ASSUME TypeOK, CurrentInv, FolderInv, Environment
    PROVE  FolderInv'
<1>1. /\ UNCHANGED run /\ disturbed' = Running /\ settled' = {}
      /\ saved' = saved \/ saved'.entries = EmptyManifest
  <2>1. CASE PersonWrites \/ PersonDeletes \/ ManifestDamaged
    BY <2>1 DEF PersonWrites, PersonDeletes, ManifestDamaged, PersonUses
  <2>2. ASSUME NEW t \in Topics, UpdateTopic(t) \/ MoveTopic(t) \/ RemoveTopic(t)
        PROVE  /\ UNCHANGED <<run, saved>> /\ disturbed' = Running /\ settled' = {}
    BY <2>2 DEF UpdateTopic, MoveTopic, RemoveTopic, ServerChanges, folder
  <2> QED BY <2>1, <2>2 DEF Environment
<1>2. UNCHANGED <<pc, mode, snap, todo, chosen, mem, owners, got, path, dirty, errs, existed>>
  BY <1>1 DEF run
<1>3. saved'.state # "good" => saved'.entries = EmptyManifest
  BY <1>1 DEF FolderInv
<1>4. \A t \in Topics : EmptyManifest[t] = NoEntry
  BY Shapes
<1>5. ASSUME NEW p \in Procs PROVE RunInv(p)'
  <2>1. RunInv(p) /\ (pc[p] # "idle" => p \in disturbed')
    BY <1>1 DEF FolderInv, Running
  <2>2. p \notin disturbed' => pc'[p] = "idle"
    BY <1>2, <2>1
  <2>3. OwnInv(p)'
    <3>1. CASE saved' = saved
      BY <1>2, <2>1, <2>2, <3>1
         DEF RunInv, OwnInv, Alone, Recorded, Live, PathOf, Topic, OneRun
    <3>2. CASE saved'.entries = EmptyManifest
      <4>1. Recorded(snap[p], saved'.entries) = {}
        BY <1>4, <3>2 DEF Recorded, Live
      <4>2. \A t \in Recorded(snap[p], saved.entries)' : FALSE
        BY <1>2, <4>1 DEF Recorded, Live
      <4> QED BY <1>2, <2>1, <4>2 DEF RunInv, OwnInv, Recorded, Live, PathOf, Topic
    <3> QED BY <1>1, <3>1, <3>2
  <2>4. QuietInv(p)'
    BY <2>2 DEF QuietInv
  <2> QED BY <1>1, <1>2, <2>1, <2>2, <2>3, <2>4 DEF RunInv
<1> QED BY <1>1, <1>3, <1>5 DEF FolderInv, CompleteRunsSync

\* Nothing happens.
LEMMA StutterFolder ==
    ASSUME FolderInv, UNCHANGED vars
    PROVE  FolderInv'
<1>1. UNCHANGED <<toc, versions, files, saved, pc, mode, snap, todo, chosen, mem, owners, got,
                  path, dirty, errs, existed, disturbed, settled, changes, mishaps>>
  BY DEF vars, server, folder, run, counts
<1>2. CompleteRunsSync'
  BY <1>1 DEF FolderInv, CompleteRunsSync, InStep, OwnPath, Matches, PathOf, Recorded, Live
<1>3. ASSUME NEW p \in Procs PROVE RunInv(p)'
  <2>1. OwnInv(p)'
    BY <1>1 DEF FolderInv, RunInv, OwnInv, Alone, Recorded, Live, PathOf, Topic, OneRun
  <2>2. QuietInv(p)'
    BY <1>1 DEF FolderInv, RunInv, QuietInv, Keeps, Has, Matches, PathOf, Done, Left, Topic,
                Live
  <2> QED BY <1>1, <2>1, <2>2 DEF FolderInv, RunInv, Running
<1> QED BY <1>1, <1>2, <1>3 DEF FolderInv

\* While topics lie where the run read them, what it writes is no other's copy.
LEMMA WritesApart ==
    ASSUME TypeOK, CurrentInv, FolderInv, OneRun, NEW p \in Procs, Write(p),
           Placed(toc) = Placed(snap[p]), NEW t \in Topics \ {Topic(p)}, InStep(t), OwnPath(t)
    PROVE  InStep(t)'
<1>1. /\ pc[p] = "write" /\ files' = [files EXCEPT ![path[p]] = got[p].body]
      /\ UNCHANGED <<toc, saved>>
  BY WriteEffect
<1>2. DOMAIN Placed(toc) = Live(toc) /\ DOMAIN Placed(snap[p]) = Live(snap[p])
  BY DEF Placed
<1>3. Live(toc) = Live(snap[p])
  BY <1>2
<1>4. \A u \in Live(toc) : toc[u].dir = snap[p][u].dir
  <2>1. \A u \in Live(toc) : Placed(toc)[u] = toc[u].dir /\ Placed(snap[p])[u] = snap[p][u].dir
    BY <1>3 DEF Placed
  <2> QED BY <2>1
<1>5. \A u \in Live(toc) : PathOf(snap[p], saved.entries, u) = PathOf(toc, saved.entries, u)
  BY <1>4 DEF PathOf
<1>6. t \in Recorded(toc, saved.entries) /\ Recorded(toc, saved.entries) \subseteq Live(toc)
  BY DEF InStep, Recorded, Live
<1>7. Recorded(snap[p], saved.entries) = Recorded(toc, saved.entries)
  BY <1>3 DEF Recorded
<1>8. Alone(snap[p], saved.entries, t)
  BY <1>5, <1>6, <1>7 DEF OwnPath, Alone
<1>9. owners[p][PathOf(toc, saved.entries, t)] = t /\ owners[p][path[p]] = Topic(p)
  BY <1>1, <1>5, <1>6, <1>7, <1>8 DEF FolderInv, RunInv, OwnInv
<1>10. PathOf(toc, saved.entries, t) # path[p]
  BY <1>9
<1>11. PathOf(toc, saved.entries, t) \in Paths
  BY <1>1, TreeRead DEF TypeOK
<1>12. files'[PathOf(toc, saved.entries, t)] = files[PathOf(toc, saved.entries, t)]
  BY <1>1, <1>10, <1>11 DEF TypeOK
<1> QED BY <1>1, <1>12 DEF InStep, Matches, PathOf

-----------------------------------------------------------------------------
(* The theorems.                                                           *)

IInv == TypeOK /\ CurrentInv /\ FolderInv

\* The strengthened invariant holds at first.
LEMMA InitInv == Init => IInv
<1> SUFFICES ASSUME Init PROVE FolderInv
  BY InitCurrent DEF IInv
<1>1. /\ \A p \in Procs : pc[p] = "idle" /\ dirty[p] = FALSE
      /\ settled = {} /\ saved.entries = EmptyManifest
  BY DEF Init
<1>2. \A p \in Procs : RunInv(p)
  BY <1>1 DEF RunInv, OwnInv, QuietInv
<1> QED BY <1>1, <1>2 DEF FolderInv, CompleteRunsSync

\* Every step keeps it.
LEMMA StepInv == IInv /\ [Next]_vars => IInv'
<1> SUFFICES ASSUME IInv, [Next]_vars PROVE IInv'
  OBVIOUS
<1>1. TypeOK /\ CurrentInv /\ FolderInv /\ TypeOK' /\ CurrentInv'
  BY CurrentStep DEF IInv
<1>2. ASSUME NEW p \in Procs, RunStep(p) PROVE FolderInv'
  <2>1. CASE Start(p)
    <3>1. PICK m \in Modes, types \in SUBSET {"file", "html"} \ {{}} : Begin(p, m, types)
      BY <2>1 DEF Start
    <3> QED BY <1>1, <3>1, BeginFolder
  <2>2. CASE Crash(p)
    BY <1>1, <2>2, CrashFolder
  <2>3. CASE Load(p)
    BY <1>1, <2>3, LoadFolder
  <2>4. CASE Skip(p)
    BY <1>1, <2>4, SkipFolder
  <2>5. CASE TakeTopic(p) \/ Fetch(p)
    BY <1>1, <2>5, FetchFolder
  <2>6. CASE FetchFails(p) \/ WriteFails(p)
    BY <1>1, <2>6, TopicFailsFolder DEF FetchFails, WriteFails, Taking
  <2>7. CASE Reserve(p)
    BY <1>1, <2>7, ReserveFolder
  <2>8. CASE Write(p)
    BY <1>1, <2>8, WriteFolder
  <2>9. CASE \E bad \in BOOLEAN : Finish(p, bad)
    BY <1>1, <2>9, FinishFolder
  <2> QED BY <1>2, <2>1, <2>2, <2>3, <2>4, <2>5, <2>6, <2>7, <2>8, <2>9 DEF RunStep, Step
<1>3. CASE Next
  BY <1>1, <1>2, <1>3, EnvironmentFolder DEF Next, RunStep, IInv
<1>4. CASE UNCHANGED vars
  BY <1>1, <1>4, StutterFolder DEF IInv
<1> QED BY <1>1, <1>3, <1>4 DEF IInv

\* Type correctness, and the invariants the other theorems rest on.
THEOREM Invariance == Spec => []IInv
BY InitInv, StepInv, PTL DEF Spec

\* Whatever the runs do to one folder, and whoever edits it, a sync skips a topic
\* only for bytes the server has had since the date its tree shows.
THEOREM SkipsForCurrentBytes == Spec => SkipsAreCurrent
<1>1. IInv /\ [Next]_vars =>
        [\A p \in Procs : Skip(p) =>
            \E d \in snap[p][Topic(p)].date .. MaxChanges :
                versions[Topic(p)][d] = files[PathOf(snap[p], mem[p], Topic(p))]]_vars
  BY SkipsCurrent DEF IInv
<1> QED BY <1>1, Invariance, PTL DEF Spec, SkipsAreCurrent

\* What a run without an error was asked for is in step when nothing interfered,
\* and stays so while one run at a time works on the folder.
THEOREM CompleteRunsAreInSync == Spec => []CompleteRunsSync
<1>1. IInv => CompleteRunsSync
  BY DEF IInv, FolderInv
<1> QED BY <1>1, Invariance, PTL

\* Where one process works on the folder, the file it writes is no other topic's copy.
THEOREM NoTopicTakesAnothers == OneRun => (Spec => TopicsDoNotCollide)
<1> SUFFICES ASSUME OneRun PROVE Spec => TopicsDoNotCollide
  OBVIOUS
<1>1. IInv /\ [Next]_vars =>
        [\A p \in Procs : Write(p) /\ Placed(toc) = Placed(snap[p]) =>
            \A t \in Topics \ {Topic(p)} : InStep(t) /\ OwnPath(t) => InStep(t)']_vars
  BY WritesApart DEF IInv
<1> QED BY <1>1, Invariance, PTL DEF Spec, TopicsDoNotCollide
=============================================================================
