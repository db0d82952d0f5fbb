------------------------ MODULE AssignmentFilesProofs ------------------------
(***************************************************************************)
(* Proofs about AssignmentFiles for any number of processes, attachments,  *)
(* directories, names and bytes.  IInv says of every manifest that it      *)
(* records bytes its attachments have had, and of a whole sync nothing     *)
(* disturbs what it has settled so far: in a first one every attachment    *)
(* gets a path of its folder with some file at it, in a second one a path  *)
(* no other attachment has and its own bytes there, and a third one has    *)
(* nothing left to write.                                                  *)
(***************************************************************************)
EXTENDS AssignmentFiles, FiniteSetTheorems, WellFoundedInduction, TLAPS

\* Who takes attachments has the folders, and so has a run of chosen ones that loads.
ListedInv ==
    \A p \in Procs :
        run[p].pc = "take" \/ (run[p].pc = "load" /\ Selected(run[p])) =>
            run[p].listed \in [Atts -> Attachment]

\* The attachment a run has asked for is one it has yet to take; the answer may replace
\* only what it claims, and for a legacy entry only a path that had no file.
AskedInv(r) ==
    /\ r.asked # {} => r.pc = "take"
    /\ \A a \in r.asked :
          /\ a \in r.todo
          /\ r.target \subseteq Claim(r, a)
          /\ r.prior[a].legacy => r.target \subseteq r.vacant

AskInv == \A p \in Procs : AskedInv(run[p])

TypeInv == TypeOK /\ ListedInv /\ AskInv

\* The manifest records bytes the attachments have had.
Known(m) == \A a \in Atts : m[a].body \in had[a] \union {0}

\* What the server has, and what any manifest, on disk or of a run, records of an
\* attachment are bytes it has had.
HadInv ==
    /\ \A a \in Atts : server[a].body \in had[a]
    /\ Known(saved.entries)
    /\ \A p \in Procs : Known(run[p].prior) /\ Known(run[p].mem)

\* Without a readable manifest there are no entries.
SavedInv == saved.state # "good" => saved.entries = Empty

\* A sync is of all folders.  While the last syncs count as undisturbed, what runs is
\* a sync, alone.
AloneInv ==
    \A p \in Procs :
        /\ run[p].alone => \A q \in Procs \ {p} : run[q].pc = "idle"
        /\ run[p].pc # "idle" =>
              /\ run[p].mode = "sync" => run[p].wanted = Atts
              /\ quiet > 0 => run[p].mode = "sync" /\ run[p].alone

\* The entry k of attachment a is of its folder and of the size the server has, and
\* some file is at its path: what one undisturbed sync achieves.
Settled(k, a) ==
    /\ k.body # 0 /\ ~k.legacy /\ k.path[1] = server[a].dir
    /\ Size(k.body) = Size(server[a].body)
    /\ files[k.path] # 0

\* The attachments S, settled in manifest m, have paths of their own with their bytes:
\* what the next one achieves.
Apart(m, S) ==
    /\ \A a \in S : files[m[a].path] = m[a].body
    /\ \A a, b \in S : a # b => m[a].path # m[b].path

\* The attachments a run is done with, or need not take.
Done(r) == Live(Atts) \ r.todo

\* What a sync alone knows while it takes attachments, whatever the folder was like:
\* who is done with has an entry as above, at a path the run has claimed; after one
\* undisturbed sync these lie apart, each at the path it had or at one that was
\* nobody's; after two, only what it is done with is claimed, and nothing is asked for.
TakeInv(r) ==
    /\ r.listed = server /\ r.prior = saved.entries /\ r.todo \subseteq Live(Atts)
    /\ \A a \in r.todo : r.mem[a] = saved.entries[a]
    /\ ~r.dirty => r.mem = saved.entries
    /\ ~r.failed =>
          /\ \A a \in Done(r) : Settled(r.mem[a], a) /\ r.mem[a].path \in r.claimed
          /\ quiet > 0 =>
                /\ Apart(r.mem, Done(r))
                /\ \A a \in Done(r) :
                      \/ r.mem[a].path = saved.entries[a].path
                      \/ \A b \in Live(Atts) : saved.entries[b].path # r.mem[a].path
    /\ quiet = 2 => /\ r.claimed \subseteq {saved.entries[a].path : a \in Done(r)}
                    /\ r.asked = {}

\* And at its end.
EndInv(r) ==
    /\ ~r.dirty => r.mem = saved.entries
    /\ ~r.failed => /\ \A a \in Live(Atts) : Settled(r.mem[a], a)
                    /\ quiet > 0 => Apart(r.mem, Live(Atts))

\* What it knows at each place.
SyncInv(r) ==
    r.mode = "sync" /\ r.alone =>
        /\ r.pc \in {"load", "list"} => r.claimed = {} /\ ~r.dirty
        /\ r.pc = "list" => r.prior = saved.entries /\ r.mem = saved.entries
        /\ r.pc = "take" => TakeInv(r)
        /\ r.pc = "finish" => EndInv(r)

\* What undisturbed syncs have left on disk.
QuietInv ==
    /\ quiet > 0 => \A a \in Live(Atts) : Settled(saved.entries[a], a)
    /\ quiet = 2 => Apart(saved.entries, Live(Atts))

\* What makes syncs settle.
SettleInv == SavedInv /\ AloneInv /\ QuietInv /\ \A p \in Procs : SyncInv(run[p])

\* The inductive invariant.
IInv == HadInv /\ SettleInv

-----------------------------------------------------------------------------
(* Sets of numbers, and paths.                                             *)

\* Max of a finite set of numbers is one of them.
LEMMA MaxIsIn ==
    ASSUME NEW S \in SUBSET Nat, IsFiniteSet(S), S # {}
    PROVE  Max(S) \in S
<1> DEFINE Above(t) == {u \in S : u >= t}
           R == StrictSubsetOrdering(S)
           B == {Above(t) : t \in S}
<1>1. IsWellFoundedOn(R, FiniteSubsetsOf(S))
  BY FS_StrictSubsetOrderingWellFounded
<1>2. B \subseteq FiniteSubsetsOf(S)
  <2>1. ASSUME NEW t \in S PROVE Above(t) \in FiniteSubsetsOf(S)
    <3>1. Above(t) \in SUBSET S
      OBVIOUS
    <3> HIDE DEF Above
    <3>2. IsFiniteSet(Above(t))
      BY <3>1, FS_Subset
    <3> QED BY <3>1, <3>2 DEF FiniteSubsetsOf
  <2> HIDE DEF Above
  <2> QED BY <2>1, Zenon
<1>3. B # {}
  <2> HIDE DEF Above
  <2> QED OBVIOUS
<1>4. (\A t \in S : Above(t) \in B) /\ \A x \in B : \E t \in S : x = Above(t)
  <2> HIDE DEF Above
  <2> QED BY Zenon
<1> HIDE DEF R, B
<1>5. PICK x \in B : \A y \in B : <<y, x>> \notin R
  BY <1>1, <1>2, <1>3, WFMin, Zenon
<1>6. PICK t \in S : x = Above(t)
  BY <1>4, <1>5
<1>7. ASSUME NEW u \in S, u > t
      PROVE  FALSE
  <2>1. Above(u) \subseteq Above(t) /\ t \in Above(t) /\ t \notin Above(u)
    <3>1. u \in Nat /\ t \in Nat /\ \A m \in S : m \in Nat
      OBVIOUS
    <3>2. \A m \in S : m >= u => m >= t
      BY <1>7, <3>1
    <3>3. t >= t /\ ~(t >= u)
      BY <1>7, <3>1
    <3> QED BY <3>2, <3>3, Zenon
  <2>2. Above(u) \in SUBSET S /\ Above(t) \in SUBSET S
    OBVIOUS
  <2>3. Above(u) \in B
    BY <1>4
  <2> HIDE DEF Above
  <2>4. <<Above(u), x>> \in R
    BY <1>6, <2>1, <2>2 DEF R, StrictSubsetOrdering
  <2> QED BY <1>5, <2>3, <2>4
<1>8. \A m \in S : m \in Nat
  OBVIOUS
<1>9. \A m \in S : t >= m
  BY <1>7, <1>8
<1> HIDE DEF Above
<1> QED BY <1>9, Zenon DEF Max

\* Min of a set of numbers is one of them.
LEMMA MinIsIn ==
    ASSUME NEW S \in SUBSET Nat, S # {}
    PROVE  Min(S) \in S
<1>1. PICK x \in S : \A y \in S : <<y, x>> \notin OpToRel(<, Nat)
  BY NatLessThanWellFounded, WFMin
<1>2. \A y \in S : y \in Nat
  OBVIOUS
<1>3. \A y \in S : ~(y < x)
  BY <1>1, <1>2 DEF OpToRel
<1>4. \A y \in S : x =< y
  BY <1>2, <1>3
<1> QED BY <1>4, Zenon DEF Min

\* The parts of a path.
LEMMA PathParts ==
    /\ \A q \in Paths : q[1] \in Dirs /\ q[2] \in Names /\ q[3] \in 0 .. MaxTries
    /\ \A f \in Dirs, m \in Names, k \in 0 .. MaxTries :
          <<f, m, k>> \in Paths /\ <<f, m, k>>[1] = f
BY DEF Paths

\* Bytes are numbers other than 0.
LEMMA Numbers ==
    /\ \A b \in Bodies : b \in Nat /\ b # 0
    /\ \A a \in Atts : a \in Nat
    /\ MaxTries \in Nat /\ MaxEvents \in Nat
BY NumberAssumption

\* An entry with bytes has a path; without entries there are none.
LEMMA EntryParts ==
    /\ \A k \in Entry \union {NoEntry} :
          /\ k.legacy \in BOOLEAN /\ k.body \in Bodies \union {0}
          /\ k.body # 0 => k.path \in Paths
    /\ Empty \in Manifests /\ \A a \in Atts : Empty[a].body = 0
    /\ \A q \in Paths, b \in Bodies \union {0}, l \in BOOLEAN :
          [legacy |-> l, path |-> q, body |-> b] \in Entry
<1>1. \A k \in Entry : k.legacy \in BOOLEAN /\ k.body \in Bodies \union {0} /\ k.path \in Paths
  BY DEF Entry
<1>2. NoEntry.legacy = FALSE /\ NoEntry.body = 0
  BY DEF NoEntry
<1>3. Empty \in Manifests /\ \A a \in Atts : Empty[a].body = 0
  BY DEF Empty, Manifests, NoEntry
<1>4. \A q \in Paths, b \in Bodies \union {0}, l \in BOOLEAN :
          [legacy |-> l, path |-> q, body |-> b] \in Entry
  BY DEF Entry
<1> QED BY <1>1, <1>2, <1>3, <1>4

\* The path an entry gives an attachment is in the attachment's directory, and the
\* recorded one unless the entry is of an old release.
LEMMA PathInIs ==
    ASSUME NEW k \in Entry \union {NoEntry}, NEW f \in Dirs
    PROVE  /\ PathIn(k, f) \subseteq Paths
           /\ \A q \in PathIn(k, f) : k.body # 0 /\ q[1] = f /\ (~k.legacy => q = k.path)
           /\ k.body # 0 /\ ~k.legacy /\ k.path[1] = f => PathIn(k, f) = {k.path}
<1>1. k.legacy \in BOOLEAN /\ (k.body # 0 => k.path \in Paths)
  BY EntryParts
<1>2. CASE k.body = 0
  BY <1>2 DEF PathIn
<1>3. CASE k.body # 0 /\ k.legacy
  <2>1. PathIn(k, f) = {<<f, k.path[2], k.path[3]>>}
    BY <1>3 DEF PathIn
  <2>2. <<f, k.path[2], k.path[3]>> \in Paths /\ <<f, k.path[2], k.path[3]>>[1] = f
    BY <1>1, <1>3, PathParts
  <2> QED BY <1>3, <2>1, <2>2
<1>4. CASE k.body # 0 /\ ~k.legacy
  <2>1. PathIn(k, f) = IF k.path[1] = f THEN {k.path} ELSE {}
    BY <1>4 DEF PathIn
  <2> QED BY <1>1, <1>4, <2>1
<1> QED BY <1>1, <1>2, <1>3, <1>4

\* The fields of a run.
LEMMA RunParts ==
    ASSUME NEW r \in Run
    PROVE  /\ r.prior \in Manifests /\ r.mem \in Manifests
           /\ r.todo \in SUBSET Atts /\ r.wanted \in SUBSET Atts
           /\ r.claimed \in SUBSET Paths /\ r.mine \in SUBSET Paths
           /\ r.asked \in SUBSET Atts /\ r.target \in SUBSET Paths /\ r.vacant \in SUBSET Paths
           /\ r.pc \in {"idle", "load", "list", "take", "finish"}
           /\ r.mode \in {"sync", "download", "force", "single"}
           /\ {r.dirty, r.failed, r.existed, r.alone} \subseteq BOOLEAN
           /\ \A a \in Atts : r.prior[a] \in Entry \union {NoEntry}
                              /\ r.mem[a] \in Entry \union {NoEntry}
BY DEF Run, Manifests

\* Where the paths come from that a run may take for an attachment: the entry it found.
LEMMA ClaimIs ==
    ASSUME NEW r \in Run, NEW a \in Atts, r.listed \in [Atts -> Attachment]
    PROVE  /\ Claim(r, a) \subseteq Paths
           /\ Replaces(r, a) \subseteq Claim(r, a) /\ Matches(r, a) \subseteq Claim(r, a)
           /\ \A q \in Claim(r, a) :
                 /\ r.prior[a].body # 0 /\ q[1] = r.listed[a].dir
                 /\ ~r.prior[a].legacy => q = r.prior[a].path
<1>1. r.listed[a].dir \in Dirs
  BY DEF Attachment
<1>2. Claim(r, a) \subseteq PathIn(r.prior[a], r.listed[a].dir)
  BY DEF Claim
<1>3. Replaces(r, a) \subseteq Claim(r, a) /\ Matches(r, a) \subseteq Claim(r, a)
  BY DEF Replaces, Matches
<1>4. r.prior[a] \in Entry \union {NoEntry}
  BY RunParts
<1> QED BY <1>1, <1>2, <1>3, <1>4, PathInIs

\* A fresh path is in the attachment's directory, has no file and no claim.
LEMMA FreshPathIs ==
    ASSUME NEW r \in Run, NEW a \in Atts, r.listed \in [Atts -> Attachment]
    PROVE  \A q \in FreshPath(r, a) :
              /\ q \in Paths /\ q[1] = r.listed[a].dir
              /\ files[q] = 0 /\ q \notin r.claimed \union Claim(r, a)
<1> DEFINE path(k) == <<r.listed[a].dir, r.listed[a].name, k>>
           free == {k \in 0 .. MaxTries :
                      files[path(k)] = 0 /\ path(k) \notin r.claimed \union Claim(r, a)}
<1>1. r.listed[a].dir \in Dirs /\ r.listed[a].name \in Names
  BY DEF Attachment
<1>2. \A k \in 0 .. MaxTries : path(k) \in Paths /\ path(k)[1] = r.listed[a].dir
  BY <1>1, PathParts
<1>3. free \subseteq 0 .. MaxTries
      /\ \A k \in free : files[path(k)] = 0 /\ path(k) \notin r.claimed \union Claim(r, a)
  <2> HIDE DEF path
  <2> QED BY Zenon
<1>4. free \in SUBSET Nat
  <2> HIDE DEF free
  <2> QED BY <1>3, Numbers
<1>5. FreshPath(r, a) = IF free = {} THEN {} ELSE {path(Min(free))}
  BY DEF FreshPath
<1> HIDE DEF path, free
<1>6. free # {} => Min(free) \in free
  BY <1>4, MinIsIn
<1> QED BY <1>2, <1>3, <1>5, <1>6

-----------------------------------------------------------------------------
(* What the steps make of a run.                                           *)

\* A run after it skipped attachment a, whose file is at q.
Skipped(r, a, q) ==
    [Claimed(r, a) EXCEPT !.mem[a] = [@ EXCEPT !.legacy = FALSE, !.path = q],
                          !.dirty = @ \/ r.prior[a].legacy,
                          !.mine = @ \union {q}]

\* A run after it wrote bytes b of attachment a to q.
Downloaded(r, a, q, b) ==
    [Claimed(r, a) EXCEPT !.claimed = @ \union {q},
                          !.mem[a] = [legacy |-> FALSE, path |-> q, body |-> b],
                          !.dirty = TRUE,
                          !.mine = @ \union {q}]

\* A run whose download of a failed.
Failing(r, a) == [Claimed(r, a) EXCEPT !.failed = TRUE]

\* A run that could not read a's folder.
Passing(r, a) == [r EXCEPT !.todo = @ \ {a}, !.failed = TRUE]

\* A run with the claims C, the entries m and the own paths M, dirty if d.
Recorded(r, C, m, d, M) ==
    [r EXCEPT !.claimed = C, !.mem = m, !.dirty = d, !.mine = M]

\* An entry that takes the path q.
Placed(k, q) == [k EXCEPT !.legacy = FALSE, !.path = q]

\* What the runs s and r have in common when s goes on where r was.
SameRun(s, r) ==
    /\ s.mode = r.mode /\ s.wanted = r.wanted /\ s.alone = r.alone
    /\ s.listed = r.listed /\ s.prior = r.prior /\ s.pc = r.pc

\* Goes leaves what the run has recorded and only changes its place, or ends it.
LEMMA GoesIs ==
    ASSUME NEW r \in Run
    PROVE  /\ Goes(r) \in Run
           /\ Goes(r).mode = r.mode /\ Goes(r).wanted = r.wanted /\ Goes(r).alone = r.alone
           /\ Goes(r).mem = r.mem /\ Goes(r).dirty = r.dirty /\ Goes(r).failed = r.failed
           /\ Goes(r).todo = r.todo /\ Goes(r).asked = r.asked
           /\ r.todo # {} => /\ Goes(r).pc = "take" /\ Goes(r).listed = r.listed
                             /\ Goes(r).prior = r.prior /\ Goes(r).claimed = r.claimed
           /\ r.todo = {} => Goes(r).pc = "finish" /\ Goes(r).prior = Empty
<1>1. Empty \in Manifests
  BY EntryParts
<1>2. CASE r.todo # {}
  <2>1. Goes(r) = [r EXCEPT !.pc = "take"]
    BY <1>2 DEF Goes
  <2> QED BY <1>2, <2>1 DEF Run
<1>3. CASE r.todo = {}
  <2>1. Goes(r) = [r EXCEPT !.pc = "finish", !.listed = NoList, !.prior = Empty,
                            !.claimed = {}, !.mine = {}]
    BY <1>3 DEF Goes
  <2> DEFINE s == [r EXCEPT !.pc = "finish", !.listed = NoList]
  <2>2. /\ s \in Run /\ s.pc = "finish" /\ s.mode = r.mode /\ s.wanted = r.wanted
        /\ s.alone = r.alone /\ s.mem = r.mem /\ s.dirty = r.dirty
        /\ s.failed = r.failed /\ s.todo = r.todo /\ s.asked = r.asked
    BY DEF Run
  <2> HIDE DEF s
  <2> DEFINE u == [s EXCEPT !.prior = Empty]
  <2>3. /\ u \in Run /\ u.pc = "finish" /\ u.mode = r.mode /\ u.wanted = r.wanted
        /\ u.alone = r.alone /\ u.mem = r.mem /\ u.dirty = r.dirty
        /\ u.failed = r.failed /\ u.todo = r.todo /\ u.prior = Empty /\ u.asked = r.asked
    BY <1>1, <2>2 DEF Run
  <2>4. Goes(r) = [u EXCEPT !.claimed = {}, !.mine = {}]
    BY <2>1 DEF s
  <2> HIDE DEF u
  <2>5. /\ Goes(r) \in Run /\ Goes(r).pc = "finish" /\ Goes(r).mode = r.mode
        /\ Goes(r).wanted = r.wanted
        /\ Goes(r).alone = r.alone /\ Goes(r).mem = r.mem /\ Goes(r).dirty = r.dirty
        /\ Goes(r).failed = r.failed /\ Goes(r).todo = r.todo /\ Goes(r).prior = Empty
        /\ Goes(r).asked = r.asked
    BY <2>3, <2>4 DEF Run
  <2> QED BY <1>3, <2>5
<1> QED BY <1>2, <1>3

\* Claimed changes what is claimed and what is left to take.
LEMMA ClaimedIs ==
    ASSUME NEW r \in Run, NEW a \in Atts, r.listed \in [Atts -> Attachment]
    PROVE  /\ Claimed(r, a) \in Run /\ SameRun(Claimed(r, a), r)
           /\ Claimed(r, a).mem = r.mem /\ Claimed(r, a).dirty = r.dirty
           /\ Claimed(r, a).failed = r.failed /\ Claimed(r, a).mine = r.mine
           /\ Claimed(r, a).todo = r.todo \ {a}
           /\ Claimed(r, a).claimed = r.claimed \union Claim(r, a)
           /\ Claimed(r, a).asked = {}
<1> DEFINE C == r.claimed \union Claim(r, a)
           t == r.todo \ {a}
           u == [r EXCEPT !.claimed = C, !.todo = t]
<1>1. C \in SUBSET Paths /\ t \in SUBSET Atts
  BY ClaimIs, RunParts
<1>2. Claimed(r, a) = [u EXCEPT !.asked = {}, !.target = {}, !.vacant = {}]
  BY DEF Claimed
<1>3. C = r.claimed \union Claim(r, a) /\ t = r.todo \ {a}
  OBVIOUS
<1> HIDE DEF C, t
<1>4. /\ u \in Run /\ SameRun(u, r) /\ u.mem = r.mem /\ u.dirty = r.dirty
      /\ u.failed = r.failed /\ u.mine = r.mine /\ u.todo = t /\ u.claimed = C
  BY <1>1 DEF Run, SameRun
<1> HIDE DEF u
<1> DEFINE v == [u EXCEPT !.asked = {}, !.target = {}, !.vacant = {}]
<1>5. /\ v \in Run /\ SameRun(v, u) /\ v.mem = u.mem /\ v.dirty = u.dirty
      /\ v.failed = u.failed /\ v.mine = u.mine /\ v.todo = u.todo /\ v.claimed = u.claimed
      /\ v.asked = {}
  BY <1>4 DEF Run, SameRun
<1>6. Claimed(r, a) = v
  BY <1>2
<1> HIDE DEF v
<1> QED BY <1>3, <1>4, <1>5, <1>6 DEF SameRun

\* What one more entry and one more own path make of a run.
LEMMA RecordedIs ==
    ASSUME NEW r \in Run, NEW m \in Manifests, NEW d \in BOOLEAN,
           NEW C \in SUBSET Paths, NEW M \in SUBSET Paths,
           NEW s, s = Recorded(r, C, m, d, M)
    PROVE  /\ s \in Run /\ SameRun(s, r) /\ s.failed = r.failed /\ s.todo = r.todo
           /\ s.claimed = C /\ s.mem = m /\ s.dirty = d /\ s.asked = r.asked
<1> DEFINE u == [r EXCEPT !.claimed = C, !.mem = m]
<1>1. /\ u \in Run /\ SameRun(u, r) /\ u.failed = r.failed /\ u.todo = r.todo
      /\ u.claimed = C /\ u.mem = m /\ u.asked = r.asked
  BY DEF Run, SameRun
<1>2. s = [u EXCEPT !.dirty = d, !.mine = M]
  BY DEF Recorded
<1> HIDE DEF u
<1>3. /\ s \in Run /\ SameRun(s, u) /\ s.failed = u.failed /\ s.todo = u.todo
      /\ s.claimed = u.claimed /\ s.mem = u.mem /\ s.dirty = d /\ s.asked = u.asked
  BY <1>1, <1>2 DEF Run, SameRun
<1> QED BY <1>1, <1>3 DEF SameRun

\* What a skip makes of an entry.
LEMMA SkippedEntry ==
    ASSUME NEW k \in Entry \union {NoEntry}, NEW q \in Paths
    PROVE  /\ Placed(k, q) \in Entry /\ Placed(k, q).legacy = FALSE
           /\ Placed(k, q).path = q /\ Placed(k, q).body = k.body
<1>1. k \in [legacy : BOOLEAN, path : Paths \union {<<NoDir>>}, body : Bodies \union {0}]
  <2>1. CASE k = NoEntry
    BY <2>1 DEF NoEntry
  <2>2. CASE k \in Entry
    BY <2>2 DEF Entry
  <2> QED BY <2>1, <2>2
<1> QED BY <1>1 DEF Entry, Placed

\* s is the run r after it skipped a at q.
SkipMade(s, r, a, q) ==
    /\ s \in Run /\ SameRun(s, r) /\ s.failed = r.failed /\ s.todo = r.todo \ {a}
    /\ s.claimed = r.claimed \union Claim(r, a) /\ s.asked = {}
    /\ s.dirty = (r.dirty \/ r.prior[a].legacy)
    /\ s.mem[a] \in Entry /\ s.mem[a].legacy = FALSE /\ s.mem[a].path = q
    /\ s.mem[a].body = r.mem[a].body
    /\ \A b \in Atts \ {a} : s.mem[b] = r.mem[b]

\* s is the run r after it wrote bytes b of a to q.
DownloadMade(s, r, a, q, b) ==
    /\ s \in Run /\ SameRun(s, r) /\ s.failed = r.failed /\ s.todo = r.todo \ {a}
    /\ s.claimed = r.claimed \union Claim(r, a) \union {q} /\ s.asked = {}
    /\ s.dirty
    /\ s.mem[a].legacy = FALSE /\ s.mem[a].path = q /\ s.mem[a].body = b
    /\ \A o \in Atts \ {a} : s.mem[o] = r.mem[o]

\* What a skip makes of a run.
LEMMA SkippedIs ==
    ASSUME NEW r \in Run, NEW a \in Atts, NEW q \in Paths, r.listed \in [Atts -> Attachment],
           NEW s, s = Skipped(r, a, q)
    PROVE  SkipMade(s, r, a, q)
<1> DEFINE c == Claimed(r, a)
           x == Placed(c.mem[a], q)
           m == [c.mem EXCEPT ![a] = x]
           d == c.dirty \/ r.prior[a].legacy
<1>1. /\ c \in Run /\ SameRun(c, r)
      /\ c.mem = r.mem /\ c.dirty = r.dirty /\ c.failed = r.failed /\ c.mine = r.mine
      /\ c.todo = r.todo \ {a} /\ c.claimed = r.claimed \union Claim(r, a)
      /\ c.asked = {}
  BY ClaimedIs
<1>2. s = [c EXCEPT !.mem = m, !.dirty = d, !.mine = @ \union {q}]
  BY DEF Skipped, Placed
<1> HIDE DEF c
<1>3. x \in Entry /\ x.legacy = FALSE /\ x.path = q /\ x.body = r.mem[a].body
  <2>1. c.mem[a] \in Entry \union {NoEntry}
    BY <1>1, RunParts
  <2> DEFINE k == c.mem[a]
  <2>2. k = r.mem[a]
    BY <1>1
  <2> HIDE DEF k
  <2>3. /\ Placed(k, q) \in Entry /\ Placed(k, q).legacy = FALSE
        /\ Placed(k, q).path = q /\ Placed(k, q).body = k.body
    BY <2>1, SkippedEntry, Zenon DEF k
  <2> QED BY <2>2, <2>3 DEF k
<1> HIDE DEF x
<1>4. m \in Manifests /\ m[a] = x /\ \A b \in Atts \ {a} : m[b] = r.mem[b]
  BY <1>1, <1>3, RunParts DEF Manifests
<1>5. d \in BOOLEAN
  BY <1>1, RunParts, EntryParts
<1> HIDE DEF m, d
<1>6. c.claimed \in SUBSET Paths /\ c.mine \union {q} \in SUBSET Paths
  BY <1>1, RunParts
<1>7. s = Recorded(c, c.claimed, m, d, c.mine \union {q})
  BY <1>1, <1>2 DEF Run, Recorded
<1>8. /\ s \in Run /\ SameRun(s, c) /\ s.failed = c.failed /\ s.todo = c.todo
      /\ s.claimed = c.claimed /\ s.mem = m /\ s.dirty = d /\ s.asked = c.asked
  BY <1>1, <1>4, <1>5, <1>6, <1>7, RecordedIs
<1>9. d = (r.dirty \/ r.prior[a].legacy)
  BY <1>1 DEF d
<1> QED BY <1>1, <1>3, <1>4, <1>8, <1>9 DEF SameRun, SkipMade

\* What a download makes of a run.
LEMMA DownloadedIs ==
    ASSUME NEW r \in Run, NEW a \in Atts, NEW q \in Paths, NEW b \in Bodies,
           r.listed \in [Atts -> Attachment], NEW s, s = Downloaded(r, a, q, b)
    PROVE  DownloadMade(s, r, a, q, b)
<1> DEFINE c == Claimed(r, a)
           x == [legacy |-> FALSE, path |-> q, body |-> b]
           m == [c.mem EXCEPT ![a] = x]
           d == TRUE
<1>1. /\ c \in Run /\ SameRun(c, r)
      /\ c.mem = r.mem /\ c.dirty = r.dirty /\ c.failed = r.failed /\ c.mine = r.mine
      /\ c.todo = r.todo \ {a} /\ c.claimed = r.claimed \union Claim(r, a)
      /\ c.asked = {}
  BY ClaimedIs
<1>2. s = [c EXCEPT !.claimed = @ \union {q}, !.mem = m, !.dirty = TRUE,
                    !.mine = @ \union {q}]
  BY DEF Downloaded
<1>2a. s = Recorded(c, c.claimed \union {q}, m, d, c.mine \union {q})
  BY <1>2 DEF Recorded
<1> HIDE DEF c
<1>3. x \in Entry /\ x.legacy = FALSE /\ x.path = q /\ x.body = b
  BY EntryParts
<1> HIDE DEF x
<1>4. m \in Manifests /\ m[a] = x /\ \A o \in Atts \ {a} : m[o] = r.mem[o]
  BY <1>1, <1>3, RunParts DEF Manifests
<1>4a. d \in BOOLEAN
  OBVIOUS
<1>4b. d
  OBVIOUS
<1> HIDE DEF m, d
<1>5. c.claimed \union {q} \in SUBSET Paths /\ c.mine \union {q} \in SUBSET Paths
  BY <1>1, RunParts
<1> DEFINE C == c.claimed \union {q}
           M == c.mine \union {q}
<1>5a. C \in SUBSET Paths /\ M \in SUBSET Paths /\ s = Recorded(c, C, m, d, M)
  BY <1>2a, <1>5 DEF m, d
<1>5b. C = c.claimed \union {q}
  OBVIOUS
<1> HIDE DEF C, M
<1>6. /\ s \in Run /\ SameRun(s, c) /\ s.failed = c.failed /\ s.todo = c.todo
      /\ s.claimed = C /\ s.mem = m /\ s.dirty = d /\ s.asked = c.asked
  BY <1>1, <1>4, <1>4a, <1>5a, RecordedIs
<1> QED BY <1>1, <1>3, <1>4, <1>4b, <1>5b, <1>6 DEF SameRun, DownloadMade

\* What a failed download, and an unreadable folder, make of a run.
LEMMA FailingIs ==
    ASSUME NEW r \in Run, NEW a \in Atts, r.listed \in [Atts -> Attachment]
    PROVE  /\ Failing(r, a) \in Run /\ SameRun(Failing(r, a), r)
           /\ Failing(r, a).mem = r.mem /\ Failing(r, a).dirty = r.dirty
           /\ Failing(r, a).failed /\ Failing(r, a).todo = r.todo \ {a}
           /\ Failing(r, a).claimed = r.claimed \union Claim(r, a) /\ Failing(r, a).asked = {}
           /\ Passing(r, a) \in Run /\ SameRun(Passing(r, a), r)
           /\ Passing(r, a).mem = r.mem /\ Passing(r, a).dirty = r.dirty
           /\ Passing(r, a).failed /\ Passing(r, a).todo = r.todo \ {a}
           /\ Passing(r, a).claimed = r.claimed /\ Passing(r, a).asked = r.asked
<1>1. /\ Claimed(r, a) \in Run /\ SameRun(Claimed(r, a), r)
      /\ Claimed(r, a).mem = r.mem /\ Claimed(r, a).dirty = r.dirty
      /\ Claimed(r, a).todo = r.todo \ {a}
      /\ Claimed(r, a).claimed = r.claimed \union Claim(r, a) /\ Claimed(r, a).asked = {}
  BY ClaimedIs
<1>2. /\ Failing(r, a) \in Run /\ SameRun(Failing(r, a), r)
      /\ Failing(r, a).mem = r.mem /\ Failing(r, a).dirty = r.dirty
      /\ Failing(r, a).failed /\ Failing(r, a).todo = r.todo \ {a}
      /\ Failing(r, a).claimed = r.claimed \union Claim(r, a) /\ Failing(r, a).asked = {}
  BY <1>1 DEF Failing, Run, SameRun
<1>3. /\ Passing(r, a) \in Run /\ SameRun(Passing(r, a), r)
      /\ Passing(r, a).mem = r.mem /\ Passing(r, a).dirty = r.dirty
      /\ Passing(r, a).failed /\ Passing(r, a).todo = r.todo \ {a}
      /\ Passing(r, a).claimed = r.claimed /\ Passing(r, a).asked = r.asked
  BY DEF Passing, Run, SameRun
<1> QED BY <1>2, <1>3

-----------------------------------------------------------------------------
(* Types.                                                                  *)

\* A run that has the folders where it needs them, and has asked for what it may.
GoodRun(s) ==
    /\ s \in Run /\ AskedInv(s)
    /\ s.pc = "take" \/ (s.pc = "load" /\ Selected(s)) => s.listed \in [Atts -> Attachment]

\* Runs are good runs.
LEMMA GoodRuns == ASSUME TypeInv, NEW p \in Procs PROVE GoodRun(run[p])
BY DEF TypeInv, TypeOK, ListedInv, AskInv, GoodRun

\* A run that has asked for nothing.
LEMMA AskedNothing == ASSUME NEW r, r.asked = {} PROVE AskedInv(r)
BY DEF AskedInv

\* A step of one process to a good run keeps the runs good.
LEMMA RunsStayGood ==
    ASSUME TypeInv, NEW p \in Procs, NEW s, GoodRun(s), run' = [run EXCEPT ![p] = s]
    PROVE  run' \in [Procs -> Run] /\ ListedInv' /\ AskInv'
<1>1. run \in [Procs -> Run]
  BY DEF TypeInv, TypeOK
<1>2. run'[p] = s /\ \A q \in Procs \ {p} : run'[q] = run[q]
  BY <1>1
<1>3. \A q \in Procs : GoodRun(run'[q])
  BY <1>2, GoodRuns
<1>4. run' \in [Procs -> Run]
  BY <1>1 DEF GoodRun
<1> QED BY <1>3, <1>4 DEF ListedInv, AskInv, GoodRun

\* A process that does nothing is a good run.
LEMMA IdleIsGood ==
    /\ GoodRun(Idle) /\ Idle.pc = "idle" /\ ~Idle.alone
    /\ \A a \in Atts : Idle.prior[a].body = 0 /\ Idle.mem[a].body = 0
<1>1. Empty \in Manifests /\ \A a \in Atts : Empty[a].body = 0
  BY EntryParts
<1>2. Idle \in Run
  BY <1>1 DEF Idle, Run
<1>3. /\ Idle.pc = "idle" /\ ~Idle.alone /\ Idle.asked = {}
      /\ Idle.prior = Empty /\ Idle.mem = Empty
  BY DEF Idle
<1> QED BY <1>1, <1>2, <1>3, AskedNothing DEF GoodRun

\* A run that goes on with the folders is good.
LEMMA GoesIsGood ==
    ASSUME NEW r \in Run, r.listed \in [Atts -> Attachment], r.asked = {}
    PROVE  GoodRun(Goes(r))
BY GoesIs, AskedNothing DEF GoodRun

\* A disturbance only says that no run is alone.
LEMMA DisturbedIs ==
    ASSUME TypeInv
    PROVE  /\ Disturbed \in [Procs -> Run]
           /\ \A q \in Procs :
                 /\ GoodRun(Disturbed[q]) /\ ~Disturbed[q].alone
                 /\ Disturbed[q].pc = run[q].pc /\ Disturbed[q].mode = run[q].mode
                 /\ Disturbed[q].wanted = run[q].wanted
                 /\ Disturbed[q].prior = run[q].prior /\ Disturbed[q].mem = run[q].mem
<1>1. ASSUME NEW q \in Procs
      PROVE  /\ GoodRun(Disturbed[q]) /\ ~Disturbed[q].alone
             /\ Disturbed[q].pc = run[q].pc /\ Disturbed[q].mode = run[q].mode
             /\ Disturbed[q].wanted = run[q].wanted
             /\ Disturbed[q].prior = run[q].prior /\ Disturbed[q].mem = run[q].mem
  <2>1. Disturbed[q] = [run[q] EXCEPT !.alone = FALSE]
    BY DEF Disturbed
  <2> DEFINE r == run[q]
  <2>2. GoodRun(r)
    BY GoodRuns
  <2> HIDE DEF r
  <2>3. r \in Run
    BY <2>2 DEF GoodRun
  <2> DEFINE s == [r EXCEPT !.alone = FALSE]
  <2>4. /\ s \in Run /\ ~s.alone /\ s.pc = r.pc /\ s.mode = r.mode /\ s.wanted = r.wanted
        /\ s.prior = r.prior /\ s.mem = r.mem /\ s.listed = r.listed
        /\ s.asked = r.asked /\ s.todo = r.todo /\ s.claimed = r.claimed
        /\ s.target = r.target /\ s.vacant = r.vacant
    BY <2>3 DEF Run
  <2>5. Disturbed[q] = s
    BY <2>1 DEF r
  <2> HIDE DEF s
  <2>6. GoodRun(s)
    <3>1. \A a : Claim(s, a) = Claim(r, a)
      BY <2>4 DEF Claim
    <3>2. AskedInv(s)
      BY <2>2, <2>4, <3>1 DEF GoodRun, AskedInv
    <3> QED BY <2>2, <2>4, <3>2 DEF GoodRun, Selected
  <2> QED BY <2>4, <2>5, <2>6 DEF r
<1>2. \A q \in Procs : Disturbed[q] \in Run
  BY <1>1 DEF GoodRun
<1> QED BY <1>1, <1>2 DEF Disturbed

\* What a run is when it starts.
Begun(p, m, wanted) ==
    [Idle EXCEPT !.pc = IF wanted = Atts THEN "load" ELSE "list",
                 !.mode = m, !.wanted = wanted, !.alone = Alone(p)]

\* A run that starts knows nothing and has claimed nothing.
LEMMA BegunIs ==
    ASSUME NEW p \in Procs, NEW m \in {"sync", "download", "force", "single"},
           NEW wanted \in SUBSET Atts
    PROVE  /\ GoodRun(Begun(p, m, wanted))
           /\ Begun(p, m, wanted).pc = IF wanted = Atts THEN "load" ELSE "list"
           /\ Begun(p, m, wanted).mode = m /\ Begun(p, m, wanted).wanted = wanted
           /\ Begun(p, m, wanted).alone = Alone(p)
           /\ Begun(p, m, wanted).claimed = {} /\ ~Begun(p, m, wanted).dirty
           /\ Begun(p, m, wanted).asked = {}
           /\ Begun(p, m, wanted).prior = Empty /\ Begun(p, m, wanted).mem = Empty
<1>1. Idle \in Run /\ Idle.claimed = {} /\ ~Idle.dirty /\ Idle.prior = Empty
      /\ Idle.mem = Empty /\ Idle.asked = {}
  BY IdleIsGood DEF GoodRun, Idle
<1>2. Alone(p) \in BOOLEAN
  BY DEF Alone
<1> DEFINE i == Idle
           c == Alone(p)
           f == IF wanted = Atts THEN "load" ELSE "list"
           s == [i EXCEPT !.pc = f, !.mode = m, !.wanted = wanted, !.alone = c]
<1>3. Begun(p, m, wanted) = s
  BY DEF Begun
<1>4. f \in {"load", "list"}
  OBVIOUS
<1>5. i \in Run /\ i.claimed = {} /\ ~i.dirty /\ i.prior = Empty /\ i.mem = Empty
      /\ i.asked = {}
  BY <1>1
<1>6. c \in BOOLEAN
  BY <1>2
<1> HIDE DEF i, c, f
<1>7. /\ s \in Run /\ s.pc = f /\ s.mode = m /\ s.wanted = wanted /\ s.alone = c
      /\ s.claimed = {} /\ ~s.dirty /\ s.prior = Empty /\ s.mem = Empty /\ s.asked = {}
  BY <1>4, <1>5, <1>6 DEF Run
<1> HIDE DEF s
<1>8. ~(s.pc = "take" \/ (s.pc = "load" /\ Selected(s)))
  BY <1>7 DEF f, Selected
<1> QED BY <1>3, <1>7, <1>8, AskedNothing DEF GoodRun, f, c

\* A run with the manifest it found.
Loaded(r) ==
    [r EXCEPT !.prior = Found, !.mem = IF r.mode = "force" THEN Empty ELSE Found,
              !.existed = saved.state # "absent",
              !.failed = @ \/ (saved.state = "corrupt" /\ r.mode # "force")]

\* What the manifest makes of a run.
LEMMA LoadedIs ==
    ASSUME TypeInv, NEW r \in Run, NEW s, s = Loaded(r)
    PROVE  /\ s \in Run /\ s.pc = r.pc /\ s.mode = r.mode /\ s.wanted = r.wanted
           /\ s.alone = r.alone /\ s.listed = r.listed /\ s.todo = r.todo
           /\ s.claimed = r.claimed /\ s.dirty = r.dirty /\ s.asked = r.asked
           /\ s.prior = Found /\ s.mem = (IF r.mode = "force" THEN Empty ELSE Found)
<1> DEFINE F == Found
           m == IF r.mode = "force" THEN Empty ELSE Found
           x == saved.state # "absent"
           f == r.failed \/ (saved.state = "corrupt" /\ r.mode # "force")
           u == [r EXCEPT !.prior = F, !.mem = m]
<1>1. F \in Manifests /\ m \in Manifests
  BY EntryParts DEF Found, TypeInv, TypeOK
<1>2. x \in BOOLEAN /\ f \in BOOLEAN
  BY RunParts
<1>3. s = [u EXCEPT !.existed = x, !.failed = f]
  BY DEF Loaded
<1>4. F = Found /\ m = IF r.mode = "force" THEN Empty ELSE Found
  OBVIOUS
<1> HIDE DEF F, m, x, f
<1>5. /\ u \in Run /\ u.pc = r.pc /\ u.mode = r.mode /\ u.wanted = r.wanted
      /\ u.alone = r.alone /\ u.listed = r.listed /\ u.todo = r.todo
      /\ u.claimed = r.claimed /\ u.dirty = r.dirty /\ u.prior = F /\ u.mem = m
      /\ u.asked = r.asked
  BY <1>1 DEF Run
<1> HIDE DEF u
<1>6. /\ s \in Run /\ s.pc = u.pc /\ s.mode = u.mode /\ s.wanted = u.wanted
      /\ s.alone = u.alone /\ s.listed = u.listed /\ s.todo = u.todo
      /\ s.claimed = u.claimed /\ s.dirty = u.dirty /\ s.prior = u.prior /\ s.mem = u.mem
      /\ s.asked = u.asked
  BY <1>2, <1>3, <1>5 DEF Run
<1> QED BY <1>4, <1>5, <1>6

\* Where a run can be once it has the manifest.
LEMMA LoadStep ==
    ASSUME TypeInv, NEW p \in Procs, Load(p)
    PROVE  \E s : /\ run' = [run EXCEPT ![p] = s]
                  /\ GoodRun(s)
                  /\ \/ ~Selected(run[p]) /\ s = [Loaded(run[p]) EXCEPT !.pc = "list"]
                     \/ Selected(run[p]) /\ s \in {Idle, Goes(Loaded(run[p]))}
                     \/ run[p].mode = "single" /\ s = Idle
<1> DEFINE r == run[p]
           l == Loaded(r)
           t == CASE ~Selected(l) -> [l EXCEPT !.pc = "list"]
                  [] l.mode = "single" /\ saved.state = "corrupt" -> Idle
                  [] OTHER -> Goes(l)
<1>1. run' = [run EXCEPT ![p] = t] /\ r.pc = "load"
  BY DEF Load, Loaded, At
<1>2. GoodRun(r)
  BY GoodRuns
<1>3. r \in Run /\ r.asked = {}
  BY <1>1, <1>2 DEF GoodRun, AskedInv
<1> HIDE DEF r
<1>4. /\ l \in Run /\ l.pc = r.pc /\ l.mode = r.mode /\ l.wanted = r.wanted
      /\ l.listed = r.listed /\ l.asked = {}
  BY <1>3, LoadedIs
<1> HIDE DEF l
<1>5. Selected(l) = Selected(r)
  BY <1>4 DEF Selected
<1>6. \/ ~Selected(r) /\ t = [l EXCEPT !.pc = "list"]
      \/ Selected(r) /\ t \in {Idle, Goes(l)}
      \/ r.mode = "single" /\ t = Idle
  BY <1>4, <1>5
<1> HIDE DEF t
<1>7. GoodRun([l EXCEPT !.pc = "list"])
  BY <1>4, AskedNothing DEF GoodRun, Run
<1>8. Selected(r) => GoodRun(Goes(l))
  BY <1>1, <1>2, <1>4, GoesIsGood DEF GoodRun
<1>9. GoodRun(t)
  BY <1>6, <1>7, <1>8, IdleIsGood
<1> QED BY <1>1, <1>6, <1>9 DEF r, l

\* A run with the folders.
Read(r) == [r EXCEPT !.listed = server, !.todo = Live(r.wanted)]

\* What the folders make of a run.
LEMMA ReadIs ==
    ASSUME TypeInv, NEW r \in Run, NEW s, s = Read(r)
    PROVE  /\ s \in Run /\ s.pc = r.pc /\ s.mode = r.mode /\ s.wanted = r.wanted
           /\ s.alone = r.alone /\ s.listed = server /\ s.todo = Live(r.wanted)
           /\ s.claimed = r.claimed /\ s.dirty = r.dirty /\ s.failed = r.failed
           /\ s.prior = r.prior /\ s.mem = r.mem /\ s.asked = r.asked
           /\ s.listed \in [Atts -> Attachment]
<1> DEFINE L == Live(r.wanted)
<1>1. L \in SUBSET Atts
  BY RunParts DEF Live
<1>2. server \in [Atts -> Attachment]
  BY DEF TypeInv, TypeOK
<1>3. s = [r EXCEPT !.listed = server, !.todo = L]
  BY DEF Read
<1>4. L = Live(r.wanted)
  OBVIOUS
<1> HIDE DEF L
<1> QED BY <1>1, <1>2, <1>3, <1>4 DEF Run

\* Where a run can be once it has the folders.
LEMMA ListStep ==
    ASSUME TypeInv, NEW p \in Procs, List(p)
    PROVE  \E s : /\ run' = [run EXCEPT ![p] = s]
                  /\ GoodRun(s)
                  /\ \/ ~Selected(run[p]) /\ s = Goes(Read(run[p]))
                     \/ Selected(run[p]) /\ s \in {Idle, [Read(run[p]) EXCEPT !.pc = "load"]}
<1> DEFINE r == run[p]
           l == Read(r)
<1>1. PICK s \in IF Selected(l) THEN Preflight(l) ELSE {Goes(l)} : run' = [run EXCEPT ![p] = s]
  BY DEF List, Read
<1>2. GoodRun(r) /\ r.pc = "list"
  BY GoodRuns DEF List, At
<1>3. r \in Run /\ r.asked = {}
  BY <1>2 DEF GoodRun, AskedInv
<1> HIDE DEF r
<1>4. l \in Run /\ l.wanted = r.wanted /\ l.listed \in [Atts -> Attachment] /\ l.asked = {}
  BY <1>3, ReadIs
<1> HIDE DEF l
<1>5. Selected(l) = Selected(r)
  BY <1>4 DEF Selected
<1>6. \/ ~Selected(r) /\ s = Goes(l)
      \/ Selected(r) /\ s \in {Idle, [l EXCEPT !.pc = "load"]}
  BY <1>1, <1>5 DEF Preflight
<1>7. GoodRun([l EXCEPT !.pc = "load"])
  BY <1>4, AskedNothing DEF GoodRun, Run
<1>8. GoodRun(s)
  BY <1>4, <1>6, <1>7, IdleIsGood, GoesIsGood
<1> QED BY <1>1, <1>6, <1>8 DEF r, l

\* A run that takes attachments, or has asked for one, is a run with the folders.
LEMMA Taking ==
    ASSUME TypeInv, NEW p \in Procs, NEW a \in Atts,
           Takes(p, a) \/ (At(p, "take") /\ a \in run[p].asked)
    PROVE  /\ run[p] \in Run /\ run[p].pc = "take" /\ run[p].listed \in [Atts -> Attachment]
           /\ a \in run[p].todo /\ AskedInv(run[p])
           /\ Takes(p, a) => run[p].asked = {}
BY GoodRuns DEF GoodRun, At, Takes, AskedInv

\* What asking for attachment a makes of a run.
Asking(r, a) ==
    [r EXCEPT !.asked = {a}, !.target = Replaces(r, a), !.vacant = {q \in Paths : files[q] = 0}]

\* Nothing else.
LEMMA AskingIs ==
    ASSUME NEW r \in Run, NEW a \in Atts, r.listed \in [Atts -> Attachment], NEW s,
           s = Asking(r, a)
    PROVE  /\ s \in Run /\ SameRun(s, r) /\ s.mem = r.mem /\ s.dirty = r.dirty
           /\ s.failed = r.failed /\ s.todo = r.todo /\ s.claimed = r.claimed
           /\ s.asked = {a} /\ s.target = Replaces(r, a)
           /\ s.vacant = {q \in Paths : files[q] = 0}
<1> DEFINE A == {a}
           T == Replaces(r, a)
           V == {q \in Paths : files[q] = 0}
<1>1. A \in SUBSET Atts /\ T \in SUBSET Paths /\ V \in SUBSET Paths
  BY ClaimIs
<1>2. s = [r EXCEPT !.asked = A, !.target = T, !.vacant = V]
  BY DEF Asking
<1> HIDE DEF A, T, V
<1>3. /\ s \in Run /\ SameRun(s, r) /\ s.mem = r.mem /\ s.dirty = r.dirty
      /\ s.failed = r.failed /\ s.todo = r.todo /\ s.claimed = r.claimed
      /\ s.asked = A /\ s.target = T /\ s.vacant = V
  BY <1>1, <1>2 DEF Run, SameRun
<1> QED BY <1>3 DEF A, T, V

\* Where asking leaves the run.
LEMMA AskStep ==
    ASSUME TypeInv, NEW p \in Procs, NEW a \in Atts, Ask(p, a)
    PROVE  /\ run' = [run EXCEPT ![p] = Asking(run[p], a)]
           /\ GoodRun(Asking(run[p], a))
<1> DEFINE r == run[p]
<1>1. run' = [run EXCEPT ![p] = Asking(r, a)]
  BY DEF Ask, Asking
<1>2. r \in Run /\ r.pc = "take" /\ r.listed \in [Atts -> Attachment] /\ a \in r.todo
  BY Taking DEF Ask
<1> HIDE DEF r
<1>3. PICK s : s = Asking(r, a)
  OBVIOUS
<1>4. /\ s \in Run /\ SameRun(s, r) /\ s.todo = r.todo /\ s.claimed = r.claimed
      /\ s.asked = {a} /\ s.target = Replaces(r, a)
      /\ s.vacant = {q \in Paths : files[q] = 0}
  BY <1>2, <1>3, AskingIs
<1>5. Claim(s, a) = Claim(r, a) /\ s.prior = r.prior /\ s.pc = "take" /\ s.listed = r.listed
  BY <1>2, <1>4 DEF SameRun, Claim
<1>6. Replaces(r, a) \subseteq Claim(r, a) /\ Claim(r, a) \subseteq Paths
  BY <1>2, ClaimIs
<1>7. r.prior[a].legacy => \A q \in Replaces(r, a) : files[q] = 0
  BY DEF Replaces
<1>8. AskedInv(s)
  BY <1>2, <1>4, <1>5, <1>6, <1>7 DEF AskedInv
<1> QED BY <1>1, <1>2, <1>3, <1>4, <1>5, <1>8 DEF GoodRun, r

\* Where a skip leaves the run.
LEMMA SkipStep ==
    ASSUME TypeInv, NEW p \in Procs, NEW a \in Atts, Skip(p, a)
    PROVE  \E q \in Matches(run[p], a) :
              /\ q \in Paths
              /\ run' = [run EXCEPT ![p] = Goes(Skipped(run[p], a, q))]
              /\ GoodRun(Goes(Skipped(run[p], a, q)))
<1>1. PICK q \in Matches(run[p], a) : run' = [run EXCEPT ![p] = Goes(Skipped(run[p], a, q))]
  BY DEF Skip, Skipped
<1>2. run[p] \in Run /\ run[p].listed \in [Atts -> Attachment]
  BY Taking DEF Skip
<1>3. q \in Paths
  BY <1>2, ClaimIs
<1> DEFINE s == Skipped(run[p], a, q)
           r == run[p]
<1>4. s = Skipped(r, a, q) /\ r \in Run /\ r.listed \in [Atts -> Attachment]
  BY <1>2
<1> HIDE DEF s, r
<1>4a. s \in Run /\ SameRun(s, r) /\ s.asked = {}
  BY <1>3, <1>4, SkippedIs DEF SkipMade
<1>4b. s.listed \in [Atts -> Attachment]
  BY <1>4, <1>4a DEF SameRun
<1>5. GoodRun(Goes(s))
  BY <1>4a, <1>4b, GoesIsGood
<1> QED BY <1>1, <1>3, <1>5 DEF s, r

\* Where a download leaves the run, and what it writes.
LEMMA DownloadStep ==
    ASSUME TypeInv, NEW p \in Procs, NEW a \in Atts, Download(p, a)
    PROVE  \E q \in Paths :
              /\ \/ q \in Claim(run[p], a) /\ q \in run[p].target
                 \/ q \in FreshPath(run[p], a)
              /\ server[a].body \in Bodies
              /\ files' = [files EXCEPT ![q] = server[a].body]
              /\ run' = [run EXCEPT ![p] = Goes(Downloaded(run[p], a, q, server[a].body))]
              /\ GoodRun(Goes(Downloaded(run[p], a, q, server[a].body)))
<1>1. PICK q \in run[p].target \union FreshPath(run[p], a) :
              /\ files' = [files EXCEPT ![q] = server[a].body]
              /\ run' = [run EXCEPT ![p] = Goes(Downloaded(run[p], a, q, server[a].body))]
  BY DEF Download, Downloaded
<1>2. /\ run[p] \in Run /\ run[p].listed \in [Atts -> Attachment]
      /\ run[p].target \subseteq Claim(run[p], a)
  BY Taking DEF Download, AskedInv
<1>3. q \in Paths
  BY <1>2, ClaimIs, FreshPathIs
<1>4. server[a].body \in Bodies
  BY DEF TypeInv, TypeOK, Attachment
<1> DEFINE s == Downloaded(run[p], a, q, server[a].body)
           r == run[p]
           b == server[a].body
<1>5. s = Downloaded(r, a, q, b) /\ r \in Run /\ r.listed \in [Atts -> Attachment]
      /\ b \in Bodies
  BY <1>2, <1>4
<1> HIDE DEF s, r, b
<1>5a. s \in Run /\ SameRun(s, r) /\ s.asked = {}
  BY <1>3, <1>5, DownloadedIs DEF DownloadMade
<1>5b. s.listed \in [Atts -> Attachment]
  BY <1>5, <1>5a DEF SameRun
<1>6. GoodRun(Goes(s))
  BY <1>5a, <1>5b, GoesIsGood
<1> QED BY <1>1, <1>2, <1>3, <1>4, <1>6 DEF s, r, b

\* Where a failed download, and an unreadable folder, leave the run.
LEMMA FailStep ==
    ASSUME TypeInv, NEW p \in Procs, NEW a \in Atts, DownloadFails(p, a) \/ FolderFails(p, a)
    PROVE  \E s : /\ run' = [run EXCEPT ![p] = s] /\ GoodRun(s)
                  /\ \/ run[p].mode = "single" /\ s = Idle
                     \/ DownloadFails(p, a) /\ s = Goes(Failing(run[p], a))
                     \/ FolderFails(p, a) /\ s = Goes(Passing(run[p], a))
<1>1. /\ run[p] \in Run /\ run[p].listed \in [Atts -> Attachment]
      /\ FolderFails(p, a) => run[p].asked = {}
  BY Taking DEF DownloadFails, FolderFails
<1> DEFINE f == Failing(run[p], a)
           g == Passing(run[p], a)
<1>2. \/ DownloadFails(p, a) /\ run' = [run EXCEPT ![p] = IF @.mode = "single" THEN Idle ELSE Goes(f)]
      \/ FolderFails(p, a) /\ run' = [run EXCEPT ![p] = Goes(g)]
  BY DEF DownloadFails, FolderFails, Failing, Passing
<1>3. f \in Run /\ f.listed \in [Atts -> Attachment] /\ f.asked = {}
      /\ g \in Run /\ g.listed \in [Atts -> Attachment] /\ g.asked = run[p].asked
  BY <1>1, FailingIs DEF SameRun
<1> HIDE DEF f, g
<1>4. GoodRun(Goes(f)) /\ (run[p].asked = {} => GoodRun(Goes(g)))
  BY <1>3, GoesIsGood
<1>5. CASE DownloadFails(p, a) /\ run[p].mode = "single" /\ run' = [run EXCEPT ![p] = Idle]
  BY <1>5, IdleIsGood
<1>6. CASE DownloadFails(p, a) /\ run' = [run EXCEPT ![p] = Goes(f)]
  BY <1>4, <1>6 DEF f
<1>7. CASE FolderFails(p, a) /\ run' = [run EXCEPT ![p] = Goes(g)]
  BY <1>1, <1>4, <1>7 DEF g
<1> QED BY <1>2, <1>5, <1>6, <1>7

\* Where an unreadable list of folders leaves the run.
LEMMA ListFailsStep ==
    ASSUME TypeInv, NEW p \in Procs, ListFails(p)
    PROVE  \E s : /\ run' = [run EXCEPT ![p] = s] /\ GoodRun(s)
                  /\ \/ Selected(run[p]) /\ s = Idle
                     \/ s = [run[p] EXCEPT !.pc = "finish", !.failed = TRUE]
<1> DEFINE r == run[p]
           f == [r EXCEPT !.pc = "finish", !.failed = TRUE]
<1>1. run' = [run EXCEPT ![p] = IF Selected(r) THEN Idle ELSE f]
  BY DEF ListFails
<1>2. r \in Run /\ r.asked = {}
  BY GoodRuns DEF GoodRun, AskedInv, ListFails, At
<1> HIDE DEF r
<1>3. GoodRun(f)
  BY <1>2, AskedNothing DEF GoodRun, Run
<1>4. CASE Selected(r)
  BY <1>1, <1>4, IdleIsGood DEF r
<1>5. CASE ~Selected(r)
  BY <1>1, <1>3, <1>5 DEF r
<1> QED BY <1>4, <1>5

\* Where the runs are after one has begun.
LEMMA BeginsStep ==
    ASSUME TypeInv, NEW p \in Procs, NEW m \in {"sync", "download", "force", "single"},
           NEW wanted \in SUBSET Atts, Begins(p, m, wanted)
    PROVE  /\ run' = [Disturbed EXCEPT ![p] = Begun(p, m, wanted)]
           /\ run' \in [Procs -> Run] /\ ListedInv' /\ AskInv'
<1>1. run' = [Disturbed EXCEPT ![p] = Begun(p, m, wanted)]
  BY DEF Begins, Begun
<1>2. GoodRun(Begun(p, m, wanted))
  BY BegunIs
<1>3. Disturbed \in [Procs -> Run] /\ \A q \in Procs : GoodRun(Disturbed[q])
  BY DisturbedIs
<1> DEFINE b == Begun(p, m, wanted)
           d == Disturbed
<1> HIDE DEF b, d
<1>4. run' = [d EXCEPT ![p] = b] /\ d \in [Procs -> Run] /\ GoodRun(b)
      /\ \A q \in Procs : GoodRun(d[q])
  BY <1>1, <1>2, <1>3 DEF b, d
<1>5. run' \in [Procs -> Run] /\ \A q \in Procs : GoodRun(run'[q])
  BY <1>4 DEF GoodRun
<1>6. ListedInv' /\ AskInv'
  BY <1>5 DEF ListedInv, AskInv, GoodRun
<1> QED BY <1>1, <1>5, <1>6

\* What begins.
LEMMA StartIs ==
    ASSUME NEW p \in Procs, Start(p) \/ StartSingle(p)
    PROVE  \E m \in {"sync", "download", "force", "single"}, wanted \in SUBSET Atts :
              Begins(p, m, wanted) /\ (m = "sync" => wanted = Atts)
BY DEF Start, StartSingle

\* A kill leaves the process idle.
LEMMA CrashStep ==
    ASSUME TypeInv, NEW p \in Procs, Crash(p) \/ Finish(p)
    PROVE  run' = [run EXCEPT ![p] = Idle] /\ GoodRun(Idle)
BY IdleIsGood DEF Crash, Finish

\* The first states have the types, and satisfy the invariant.
LEMMA Starts == Init => TypeInv /\ IInv
<1> SUFFICES ASSUME Init PROVE TypeInv /\ IInv
  OBVIOUS
<1>1. server \in [Atts -> Attachment] /\ had = [a \in Atts |-> {server[a].body}]
      /\ \A a \in Atts : /\ server[a].dir \in Dirs /\ server[a].name \in Names
                         /\ server[a].body \in Bodies
  BY DEF Init, Attachment
<1> DEFINE at(a) == <<server[a].dir, server[a].name, 0>>
<1>2. PICK old \in SUBSET Atts :
          /\ saved = [state |-> IF old = {} THEN "absent" ELSE "good",
                      entries |-> [a \in Atts |->
                          IF a \in old
                          THEN [legacy |-> TRUE, path |-> at(a), body |-> server[a].body]
                          ELSE NoEntry]]
          /\ files = [q \in Paths |->
                        IF {a \in old : at(a) = q} = {} THEN 0
                        ELSE server[Max({a \in old : at(a) = q})].body]
  BY DEF Init
<1>3. \A a \in Atts : at(a) \in Paths
  BY <1>1, PathParts, Numbers
<1>4. run = [p \in Procs |-> Idle] /\ quiet = 0 /\ events = 0
  BY DEF Init
<1>5. \A p \in Procs : run[p] = Idle
  BY <1>4
<1>6. /\ run \in [Procs -> Run]
      /\ \A p \in Procs : /\ run[p].pc = "idle" /\ ~run[p].alone /\ AskedInv(run[p])
                          /\ \A a \in Atts : run[p].prior[a].body = 0 /\ run[p].mem[a].body = 0
  BY <1>4, <1>5, IdleIsGood DEF GoodRun
<1>7. files \in [Paths -> Bodies \union {0}]
  <2> SUFFICES ASSUME NEW q \in Paths PROVE files[q] \in Bodies \union {0}
    BY <1>2
  <2> DEFINE on == {a \in old : at(a) = q}
  <2>1. files[q] = IF on = {} THEN 0 ELSE server[Max(on)].body
    BY <1>2
  <2>2. on \in SUBSET Atts
    OBVIOUS
  <2> HIDE DEF on
  <2>3. on \in SUBSET Nat /\ IsFiniteSet(on)
    BY <2>2, NumberAssumption, FS_Subset
  <2>4. on # {} => Max(on) \in Atts
    BY <2>2, <2>3, MaxIsIn
  <2> QED BY <1>1, <2>1, <2>4
<1>8. /\ saved.state \in {"absent", "good"} /\ saved.entries \in Manifests
      /\ saved.state # "good" => saved.entries = Empty
      /\ \A a \in Atts : saved.entries[a].body \in {0, server[a].body}
  <2>1. saved.state = IF old = {} THEN "absent" ELSE "good"
    BY <1>2
  <2> DEFINE E(a) == IF a \in old
                     THEN [legacy |-> TRUE, path |-> at(a), body |-> server[a].body]
                     ELSE NoEntry
  <2>2. saved.entries = [a \in Atts |-> E(a)]
    BY <1>2
  <2>3. \A a \in Atts : E(a) \in Entry \union {NoEntry} /\ E(a).body \in {0, server[a].body}
    <3> HIDE DEF at
    <3>1. \A a \in Atts : [legacy |-> TRUE, path |-> at(a), body |-> server[a].body] \in Entry
      BY <1>1, <1>3 DEF Entry
    <3>2. NoEntry.body = 0
      BY DEF NoEntry
    <3> QED BY <3>1, <3>2
  <2>4. old = {} => \A a \in Atts : E(a) = NoEntry
    OBVIOUS
  <2> HIDE DEF E
  <2>5. saved.entries \in Manifests
    BY <2>2, <2>3 DEF Manifests
  <2>6. old = {} => saved.entries = Empty
    BY <2>2, <2>4 DEF Empty
  <2> QED BY <2>1, <2>2, <2>3, <2>5, <2>6
<1> HIDE DEF at
<1>9. had \in [Atts -> SUBSET Bodies]
  BY <1>1
<1>10. TypeInv
  BY <1>1, <1>4, <1>6, <1>7, <1>8, <1>9, Numbers DEF TypeInv, TypeOK, ListedInv, AskInv
<1>11. HadInv
  BY <1>1, <1>6, <1>8 DEF HadInv, Known
<1> QED BY <1>4, <1>6, <1>8, <1>10, <1>11
        DEF IInv, SettleInv, SavedInv, AloneInv, SyncInv, QuietInv

\* Every step keeps the types.
LEMMA TypesKept ==
    ASSUME TypeInv, [Next]_vars
    PROVE  TypeInv'
<1>0. /\ server \in [Atts -> Attachment] /\ had \in [Atts -> SUBSET Bodies]
      /\ files \in [Paths -> Bodies \union {0}]
      /\ saved.state \in {"absent", "corrupt", "good"} /\ saved.entries \in Manifests
      /\ quiet \in 0 .. 2 /\ events \in 0 .. MaxEvents
  BY DEF TypeInv, TypeOK
<1>1. ASSUME NEW p \in Procs, Start(p) \/ StartSingle(p) PROVE TypeInv'
  <2>1. PICK m \in {"sync", "download", "force", "single"}, wanted \in SUBSET Atts :
            Begins(p, m, wanted)
    BY <1>1, StartIs
  <2>2. run' \in [Procs -> Run] /\ ListedInv' /\ AskInv'
    BY <2>1, BeginsStep
  <2> QED BY <1>0, <2>1, <2>2 DEF Begins, TypeInv, TypeOK
<1>2. ASSUME NEW p \in Procs,
             \/ Load(p) \/ List(p) \/ ListFails(p)
             \/ \E a \in Atts : Skip(p, a) \/ Ask(p, a) \/ DownloadFails(p, a) \/ FolderFails(p, a)
      PROVE TypeInv'
  <2>1. UNCHANGED <<server, had, files, saved, quiet, events>>
    BY <1>2 DEF Load, List, ListFails, Skip, Ask, DownloadFails, FolderFails
  <2>2. \E s : GoodRun(s) /\ run' = [run EXCEPT ![p] = s]
    BY <1>2, LoadStep, ListStep, ListFailsStep, SkipStep, AskStep, FailStep
  <2>3. run' \in [Procs -> Run] /\ ListedInv' /\ AskInv'
    BY <2>2, RunsStayGood
  <2> QED BY <1>0, <2>1, <2>3 DEF TypeInv, TypeOK
<1>3. ASSUME NEW p \in Procs, NEW a \in Atts, Download(p, a) PROVE TypeInv'
  <2>1. UNCHANGED <<server, had, saved, quiet, events>>
    BY <1>3 DEF Download
  <2>2. PICK q \in Paths :
              /\ server[a].body \in Bodies
              /\ files' = [files EXCEPT ![q] = server[a].body]
              /\ run' = [run EXCEPT ![p] = Goes(Downloaded(run[p], a, q, server[a].body))]
              /\ GoodRun(Goes(Downloaded(run[p], a, q, server[a].body)))
    BY <1>3, DownloadStep
  <2>3. run' \in [Procs -> Run] /\ ListedInv' /\ AskInv'
    BY <2>2, RunsStayGood
  <2>4. files' \in [Paths -> Bodies \union {0}]
    BY <1>0, <2>2
  <2> QED BY <1>0, <2>1, <2>3, <2>4 DEF TypeInv, TypeOK
<1>4. ASSUME NEW p \in Procs, Finish(p) \/ Crash(p) PROVE TypeInv'
  <2>1. run' \in [Procs -> Run] /\ ListedInv' /\ AskInv'
    BY <1>4, CrashStep, RunsStayGood
  <2>2. CASE Crash(p)
    BY <1>0, <2>1, <2>2, Numbers DEF Crash, Event, TypeInv, TypeOK
  <2>3. CASE Finish(p)
    <3>1. UNCHANGED <<server, had, files, events>>
      BY <2>3 DEF Finish
    <3>2. quiet' \in 0 .. 2
      BY <1>0, <2>3 DEF Finish
    <3>3. UNCHANGED saved \/ Save(run[p].mem)
      BY <2>3 DEF Finish
    <3>4. run[p].mem \in Manifests
      BY GoodRuns, RunParts DEF GoodRun
    <3>5. saved'.state \in {"absent", "corrupt", "good"} /\ saved'.entries \in Manifests
      BY <1>0, <3>3, <3>4 DEF Save
    <3> QED BY <1>0, <2>1, <3>1, <3>2, <3>5 DEF TypeInv, TypeOK
  <2> QED BY <1>4, <2>2, <2>3
<1>5. ASSUME (\E a \in Atts : ServerChanges(a)) \/ PersonWrites \/ ManifestDamaged PROVE TypeInv'
  <2>1. run' = Disturbed /\ quiet' = 0 /\ Event
    BY <1>5 DEF ServerChanges, PersonWrites, ManifestDamaged, PersonUses
  <2>2. run' \in [Procs -> Run] /\ ListedInv' /\ AskInv'
    BY <2>1, DisturbedIs DEF ListedInv, AskInv, GoodRun
  <2>3. quiet' \in 0 .. 2 /\ events' \in 0 .. MaxEvents
    BY <1>0, <2>1, Numbers DEF Event
  <2>4. CASE \E a \in Atts : ServerChanges(a)
    <3>1. PICK a \in Atts : ServerChanges(a)
      BY <2>4
    <3>2. server' \in [Atts -> Attachment]
      <4>1. server[a] \in Attachment
        BY <1>0
      <4>2. \E x \in Attachment : server' = [server EXCEPT ![a] = x]
        <5> DEFINE o == server[a]
        <5>1. o \in Attachment
          BY <4>1
        <5>2. \/ \E b \in Bodies : server' = [server EXCEPT ![a] = [o EXCEPT !.body = b]]
              \/ \E m \in Names : server' = [server EXCEPT ![a] = [o EXCEPT !.name = m]]
              \/ \E d \in Dirs : server' = [server EXCEPT ![a] = [o EXCEPT !.dir = d]]
              \/ server' = [server EXCEPT ![a] = [o EXCEPT !.live = FALSE]]
          BY <3>1 DEF ServerChanges
        <5> HIDE DEF o
        <5>3. /\ \A b \in Bodies : [o EXCEPT !.body = b] \in Attachment
              /\ \A m \in Names : [o EXCEPT !.name = m] \in Attachment
              /\ \A d \in Dirs : [o EXCEPT !.dir = d] \in Attachment
              /\ [o EXCEPT !.live = FALSE] \in Attachment
          BY <5>1 DEF Attachment
        <5> QED BY <5>2, <5>3, Zenon
      <4> QED BY <1>0, <4>2
    <3>3. had' \in [Atts -> SUBSET Bodies]
      <4>1. server'[a].body \in Bodies
        BY <3>2 DEF Attachment
      <4> QED BY <1>0, <3>1, <4>1 DEF ServerChanges
    <3>4. UNCHANGED <<files, saved>>
      BY <3>1 DEF ServerChanges
    <3> QED BY <1>0, <2>2, <2>3, <3>2, <3>3, <3>4 DEF TypeInv, TypeOK
  <2>5. CASE PersonWrites
    <3>1. UNCHANGED <<server, had, saved>>
      BY <2>5 DEF PersonWrites, PersonUses
    <3>2. files' \in [Paths -> Bodies \union {0}]
      BY <1>0, <2>5 DEF PersonWrites
    <3> QED BY <1>0, <2>2, <2>3, <3>1, <3>2 DEF TypeInv, TypeOK
  <2>6. CASE ManifestDamaged
    <3>1. UNCHANGED <<server, had, files>>
      BY <2>6 DEF ManifestDamaged, PersonUses
    <3>2. saved'.state \in {"absent", "corrupt", "good"} /\ saved'.entries \in Manifests
      BY <2>6, EntryParts DEF ManifestDamaged
    <3> QED BY <1>0, <2>2, <2>3, <3>1, <3>2 DEF TypeInv, TypeOK
  <2> QED BY <1>5, <2>4, <2>5, <2>6
<1>6. CASE UNCHANGED vars
  BY <1>6 DEF vars, TypeInv, TypeOK, ListedInv, AskInv, Selected
<1> QED BY <1>1, <1>2, <1>3, <1>4, <1>5, <1>6 DEF Next

-----------------------------------------------------------------------------
(* What manifests record.                                                  *)

\* The manifests of a run record bytes the attachments have had.
KnownRun(s) == Known(s.prior) /\ Known(s.mem)

\* A step of one process that gives no attachment other bytes keeps HadInv.
LEMMA HadFrom ==
    ASSUME TypeInv, HadInv, NEW p \in Procs, NEW s, run' = [run EXCEPT ![p] = s],
           KnownRun(s), UNCHANGED <<server, had>>, Known(saved'.entries)
    PROVE  HadInv'
<1>1. run'[p] = s /\ \A q \in Procs \ {p} : run'[q] = run[q]
  BY DEF TypeInv, TypeOK
<1>2. \A q \in Procs : Known(run'[q].prior) /\ Known(run'[q].mem)
  BY <1>1 DEF HadInv, KnownRun
<1> QED BY <1>2 DEF HadInv, Known

\* No entry records bytes that were not there; and Goes keeps the entries or drops them.
LEMMA KnownRuns ==
    /\ Known(Empty) /\ KnownRun(Idle)
    /\ \A r \in Run : KnownRun(r) => KnownRun(Goes(r))
<1>1. Known(Empty) /\ KnownRun(Idle)
  BY EntryParts, IdleIsGood DEF Known, KnownRun
<1>2. ASSUME NEW r \in Run, KnownRun(r) PROVE KnownRun(Goes(r))
  <2>1. Goes(r).mem = r.mem /\ Goes(r).prior \in {r.prior, Empty}
    BY GoesIs
  <2> QED BY <1>1, <1>2, <2>1 DEF KnownRun
<1> QED BY <1>1, <1>2

\* Every step keeps it.
LEMMA HadKept ==
    ASSUME TypeInv, HadInv, [Next]_vars
    PROVE  HadInv'
<1>1. \A q \in Procs : run[q] \in Run /\ KnownRun(run[q])
  BY GoodRuns DEF GoodRun, HadInv, KnownRun
<1>2. Known(saved.entries) /\ Known(Found)
  BY KnownRuns DEF HadInv, Found
<1>3. ASSUME NEW p \in Procs, Start(p) \/ StartSingle(p) PROVE HadInv'
  <2>1. PICK m \in {"sync", "download", "force", "single"}, wanted \in SUBSET Atts :
            Begins(p, m, wanted)
    BY <1>3, StartIs
  <2>2. run' = [Disturbed EXCEPT ![p] = Begun(p, m, wanted)]
    BY <2>1, BeginsStep
  <2>3. KnownRun(Begun(p, m, wanted))
    BY BegunIs, KnownRuns DEF KnownRun
  <2>4. Disturbed \in [Procs -> Run] /\ \A q \in Procs : KnownRun(Disturbed[q])
    BY <1>1, DisturbedIs DEF KnownRun
  <2>5. \A q \in Procs : KnownRun(run'[q])
    BY <2>2, <2>3, <2>4
  <2>6. UNCHANGED <<server, had, saved>>
    BY <2>1 DEF Begins
  <2> QED BY <2>5, <2>6 DEF HadInv, Known, KnownRun
<1>4. ASSUME NEW p \in Procs,
             \/ Load(p) \/ List(p) \/ ListFails(p)
             \/ \E a \in Atts : Ask(p, a) \/ DownloadFails(p, a) \/ FolderFails(p, a)
      PROVE HadInv'
  <2> DEFINE r == run[p]
  <2>1. UNCHANGED <<server, had, saved>>
    BY <1>4 DEF Load, List, ListFails, Ask, DownloadFails, FolderFails
  <2>2. r \in Run /\ KnownRun(r)
    BY <1>1
  <2>3. ASSUME Load(p) PROVE \E s : run' = [run EXCEPT ![p] = s] /\ KnownRun(s)
    <3> DEFINE l == Loaded(r)
    <3>1. l \in Run /\ l.prior = Found /\ l.mem \in {Found, Empty}
      BY <2>2, LoadedIs
    <3>2. PICK s : /\ run' = [run EXCEPT ![p] = s]
                   /\ s \in {Idle, [l EXCEPT !.pc = "list"], Goes(l)}
      BY <2>3, LoadStep
    <3> HIDE DEF l
    <3>3. KnownRun(l)
      BY <1>2, <3>1, KnownRuns DEF KnownRun
    <3>4. KnownRun([l EXCEPT !.pc = "list"])
      BY <3>1, <3>3 DEF KnownRun, Run
    <3> QED BY <3>1, <3>2, <3>3, <3>4, KnownRuns
  <2>4. ASSUME List(p) PROVE \E s : run' = [run EXCEPT ![p] = s] /\ KnownRun(s)
    <3> DEFINE l == Read(r)
    <3>1. l \in Run /\ l.prior = r.prior /\ l.mem = r.mem
      BY <2>2, ReadIs
    <3>2. PICK s : /\ run' = [run EXCEPT ![p] = s]
                   /\ s \in {Idle, [l EXCEPT !.pc = "load"], Goes(l)}
      BY <2>4, ListStep
    <3> HIDE DEF l
    <3>3. KnownRun(l)
      BY <2>2, <3>1 DEF KnownRun
    <3>4. KnownRun([l EXCEPT !.pc = "load"])
      BY <3>1, <3>3 DEF KnownRun, Run
    <3> QED BY <3>1, <3>2, <3>3, <3>4, KnownRuns
  <2>5. ASSUME ListFails(p) PROVE \E s : run' = [run EXCEPT ![p] = s] /\ KnownRun(s)
    <3>1. PICK s : /\ run' = [run EXCEPT ![p] = s]
                   /\ s \in {Idle, [r EXCEPT !.pc = "finish", !.failed = TRUE]}
      BY <2>5, ListFailsStep
    <3> HIDE DEF r
    <3>2. KnownRun([r EXCEPT !.pc = "finish", !.failed = TRUE])
      BY <2>2 DEF KnownRun, Run
    <3> QED BY <3>1, <3>2, KnownRuns
  <2>6. ASSUME NEW a \in Atts, DownloadFails(p, a) \/ FolderFails(p, a)
        PROVE \E s : run' = [run EXCEPT ![p] = s] /\ KnownRun(s)
    <3>1. r.listed \in [Atts -> Attachment]
      BY <2>6, Taking DEF DownloadFails, FolderFails
    <3>2. PICK s : /\ run' = [run EXCEPT ![p] = s]
                   /\ s \in {Idle, Goes(Failing(r, a)), Goes(Passing(r, a))}
      BY <2>6, FailStep
    <3> HIDE DEF r
    <3> DEFINE f == Failing(r, a)
               g == Passing(r, a)
    <3>3. /\ f \in Run /\ f.mem = r.mem /\ f.prior = r.prior
          /\ g \in Run /\ g.mem = r.mem /\ g.prior = r.prior
      BY <2>2, <3>1, FailingIs DEF SameRun
    <3> HIDE DEF f, g
    <3>4. KnownRun(Goes(f)) /\ KnownRun(Goes(g))
      BY <2>2, <3>3, KnownRuns DEF KnownRun
    <3> QED BY <3>2, <3>4, KnownRuns DEF f, g
  <2>7. ASSUME NEW a \in Atts, Ask(p, a)
        PROVE \E s : run' = [run EXCEPT ![p] = s] /\ KnownRun(s)
    <3>1. r.listed \in [Atts -> Attachment] /\ run' = [run EXCEPT ![p] = Asking(r, a)]
      BY <2>7, Taking, AskStep DEF Ask
    <3> HIDE DEF r
    <3>2. KnownRun(Asking(r, a))
      BY <2>2, <3>1, AskingIs DEF KnownRun, SameRun
    <3> QED BY <3>1, <3>2
  <2>8. \E s : run' = [run EXCEPT ![p] = s] /\ KnownRun(s)
    BY <1>4, <2>3, <2>4, <2>5, <2>6, <2>7
  <2> QED BY <1>2, <2>1, <2>8, HadFrom
<1>5. ASSUME NEW p \in Procs, NEW a \in Atts, Skip(p, a) PROVE HadInv'
  <2> DEFINE r == run[p]
  <2>1. PICK q \in Paths : run' = [run EXCEPT ![p] = Goes(Skipped(r, a, q))]
    BY <1>5, SkipStep
  <2>2. r \in Run /\ KnownRun(r) /\ r.listed \in [Atts -> Attachment]
    BY <1>1, <1>5, Taking DEF Skip
  <2>3. PICK s : s = Skipped(r, a, q)
    OBVIOUS
  <2>4. UNCHANGED <<server, had, saved>> /\ run' = [run EXCEPT ![p] = Goes(s)]
    BY <1>5, <2>1, <2>3 DEF Skip
  <2> HIDE DEF r
  <2>5. SkipMade(s, r, a, q)
    BY <2>2, <2>3, SkippedIs
  <2>6. s \in Run /\ KnownRun(s)
    BY <2>2, <2>5 DEF SkipMade, KnownRun, Known, SameRun
  <2> QED BY <1>2, <2>4, <2>6, KnownRuns, HadFrom
<1>6. ASSUME NEW p \in Procs, NEW a \in Atts, Download(p, a) PROVE HadInv'
  <2> DEFINE r == run[p]
             b == server[a].body
  <2>1. PICK q \in Paths : /\ b \in Bodies
                           /\ run' = [run EXCEPT ![p] = Goes(Downloaded(r, a, q, b))]
    BY <1>6, DownloadStep
  <2>2. r \in Run /\ KnownRun(r) /\ r.listed \in [Atts -> Attachment]
    BY <1>1, <1>6, Taking DEF Download
  <2>3. b \in had[a]
    BY DEF HadInv
  <2>4. PICK s : s = Downloaded(r, a, q, b)
    OBVIOUS
  <2>5. UNCHANGED <<server, had, saved>> /\ run' = [run EXCEPT ![p] = Goes(s)]
    BY <1>6, <2>1, <2>4 DEF Download
  <2> HIDE DEF r, b
  <2>6. DownloadMade(s, r, a, q, b)
    BY <2>1, <2>2, <2>4, DownloadedIs
  <2>7. s \in Run /\ KnownRun(s)
    BY <2>2, <2>3, <2>6 DEF DownloadMade, KnownRun, Known, SameRun
  <2> QED BY <1>2, <2>5, <2>7, KnownRuns, HadFrom
<1>7. ASSUME NEW p \in Procs, Finish(p) \/ Crash(p) PROVE HadInv'
  <2>1. run' = [run EXCEPT ![p] = Idle]
    BY <1>7, CrashStep
  <2>2. UNCHANGED <<server, had>> /\ (UNCHANGED saved \/ Save(run[p].mem))
    BY <1>7 DEF Finish, Crash
  <2>3. Known(saved'.entries)
    BY <1>1, <1>2, <2>2 DEF Save, KnownRun
  <2> QED BY <2>1, <2>2, <2>3, KnownRuns, HadFrom
<1>8. ASSUME NEW a \in Atts, ServerChanges(a) PROVE HadInv'
  <2>1. had' = [had EXCEPT ![a] = @ \union {server'[a].body}] /\ run' = Disturbed
        /\ UNCHANGED saved
    BY <1>8 DEF ServerChanges
  <2>2. \A b \in Atts \ {a} : server'[b] = server[b]
    BY <1>8 DEF ServerChanges, TypeInv, TypeOK
  <2>3. \A b \in Atts : had[b] \subseteq had'[b] /\ server'[b].body \in had'[b]
    BY <2>1, <2>2 DEF HadInv, TypeInv, TypeOK
  <2>4. \A q \in Procs : KnownRun(Disturbed[q])
    BY <1>1, DisturbedIs DEF KnownRun
  <2> QED BY <2>1, <2>3, <2>4 DEF HadInv, Known, KnownRun
<1>9. ASSUME PersonWrites \/ ManifestDamaged PROVE HadInv'
  <2>1. UNCHANGED <<server, had>> /\ run' = Disturbed
        /\ saved'.entries \in {saved.entries, Empty}
    BY <1>9 DEF PersonWrites, ManifestDamaged, PersonUses
  <2>2. \A q \in Procs : KnownRun(Disturbed[q])
    BY <1>1, DisturbedIs DEF KnownRun
  <2> QED BY <1>2, <2>1, <2>2, KnownRuns DEF HadInv, Known, KnownRun
<1>10. CASE UNCHANGED vars
  BY <1>10 DEF vars, HadInv, Known
<1> QED BY <1>3, <1>4, <1>5, <1>6, <1>7, <1>8, <1>9, <1>10 DEF Next

\* What a skip keeps has bytes the attachment has had.
LEMMA SkipIsCurrent ==
    ASSUME TypeInv, HadInv, NEW p \in Procs, NEW a \in Atts, Skip(p, a)
    PROVE  LET q == run'[p].mem[a].path IN
           /\ files[q] \in had[a]
           /\ Size(files[q]) = Size(run[p].listed[a].body)
           /\ q[1] = run[p].listed[a].dir
<1> DEFINE r == run[p]
<1>1. PICK q \in Matches(r, a) : /\ q \in Paths
                                 /\ run' = [run EXCEPT ![p] = Goes(Skipped(r, a, q))]
  BY SkipStep
<1>2. r \in Run /\ r.listed \in [Atts -> Attachment] /\ Known(r.prior)
  BY Taking DEF Skip, HadInv
<1>3. PICK s : s = Skipped(r, a, q)
  OBVIOUS
<1>4. run'[p] = Goes(s)
  BY <1>1, <1>3 DEF TypeInv, TypeOK
<1> HIDE DEF r
<1>5. SkipMade(s, r, a, q)
  BY <1>1, <1>2, <1>3, SkippedIs
<1>6. run'[p].mem[a].path = q
  BY <1>4, <1>5, GoesIs DEF SkipMade
<1>7. q \in Claim(r, a) /\ files[q] = r.prior[a].body
      /\ Size(r.listed[a].body) = Size(r.prior[a].body)
  BY <1>1 DEF Matches
<1>8. r.prior[a].body # 0 /\ q[1] = r.listed[a].dir
  BY <1>2, <1>7, ClaimIs
<1>9. files[q] \in had[a]
  BY <1>2, <1>7, <1>8 DEF Known
<1> QED BY <1>6, <1>7, <1>8, <1>9 DEF r

\* What a download replaces is the attachment's own file, or for a legacy entry one that
\* was not there when it was asked for.
LEMMA DownloadIsOwn ==
    ASSUME TypeInv, NEW p \in Procs, NEW a \in Atts, Download(p, a)
    PROVE  \A q \in Paths : files'[q] # files[q] /\ files[q] # 0 =>
              IF run[p].prior[a].legacy THEN q \in run[p].vacant
              ELSE run[p].prior[a].path = q
<1> DEFINE r == run[p]
<1>1. PICK q \in Paths : /\ \/ q \in Claim(r, a) /\ q \in r.target
                            \/ q \in FreshPath(r, a)
                         /\ files' = [files EXCEPT ![q] = server[a].body]
  BY DownloadStep
<1>2. /\ r \in Run /\ r.listed \in [Atts -> Attachment]
      /\ r.prior[a].legacy => r.target \subseteq r.vacant
  BY Taking DEF Download, AskedInv
<1>3. \A o \in Paths \ {q} : files'[o] = files[o]
  BY <1>1 DEF TypeInv, TypeOK
<1> HIDE DEF r
<1>4. CASE q \in FreshPath(r, a)
  <2>1. files[q] = 0
    BY <1>2, <1>4, FreshPathIs
  <2> QED BY <1>3, <2>1
<1>5. CASE q \in Claim(r, a) /\ q \in r.target
  <2>1. r.prior[a].legacy => q \in r.vacant
    BY <1>2, <1>5
  <2>2. ~r.prior[a].legacy => q = r.prior[a].path
    BY <1>2, <1>5, ClaimIs
  <2> QED BY <1>3, <2>1, <2>2 DEF r
<1> QED BY <1>1, <1>4, <1>5

-----------------------------------------------------------------------------
(* Who is alone.                                                           *)

\* s goes on where r was, or has stopped.
Follows(s, r) ==
    \/ s.pc = "idle" /\ ~s.alone
    \/ s.mode = r.mode /\ s.wanted = r.wanted /\ s.alone = r.alone

\* A step of a process that was not idle: the others are as before, and none of them
\* is alone.
LEMMA AloneFrom ==
    ASSUME TypeInv, AloneInv, NEW p \in Procs, run[p].pc # "idle",
           NEW s, s \in Run, run' = [run EXCEPT ![p] = s], Follows(s, run[p]),
           quiet' > 0 => quiet > 0 \/ (run[p].alone /\ s.pc = "idle")
    PROVE  /\ AloneInv' /\ run'[p] = s
           /\ \A q \in Procs \ {p} : run'[q] = run[q] /\ ~run'[q].alone
<1>1. run'[p] = s /\ \A q \in Procs \ {p} : run'[q] = run[q]
  BY DEF TypeInv, TypeOK
<1>2. \A q \in Procs \ {p} : ~run[q].alone
  BY DEF AloneInv
<1>3. s.pc # "idle" => s.mode = run[p].mode /\ s.wanted = run[p].wanted /\ s.alone = run[p].alone
  BY DEF Follows
<1>4. s.alone => run[p].alone
  BY DEF Follows
<1>5. quiet' > 0 => run[p].alone /\ (quiet > 0 \/ s.pc = "idle")
  BY DEF AloneInv
<1>6. ASSUME NEW q \in Procs
      PROVE  /\ run'[q].alone => \A o \in Procs \ {q} : run'[o].pc = "idle"
             /\ run'[q].pc # "idle" =>
                   /\ run'[q].mode = "sync" => run'[q].wanted = Atts
                   /\ quiet' > 0 => run'[q].mode = "sync" /\ run'[q].alone
  <2>1. CASE q = p
    <3>1. run'[q].alone => \A o \in Procs \ {q} : run'[o].pc = "idle"
      BY <1>1, <1>4, <2>1 DEF AloneInv
    <3>2. run'[q].pc # "idle" /\ run'[q].mode = "sync" => run'[q].wanted = Atts
      BY <1>1, <1>3, <2>1 DEF AloneInv
    <3>3. run'[q].pc # "idle" /\ quiet' > 0 => run'[q].mode = "sync" /\ run'[q].alone
      BY <1>1, <1>3, <1>5, <2>1 DEF AloneInv
    <3> QED BY <3>1, <3>2, <3>3
  <2>2. CASE q # p
    BY <1>1, <1>2, <1>5, <2>2 DEF AloneInv
  <2> QED BY <2>1, <2>2
<1> QED BY <1>1, <1>2, <1>6 DEF AloneInv

-----------------------------------------------------------------------------
(* What a sync alone has settled.                                          *)

\* A step that leaves what SyncInv is about.
LEMMA SameWorld ==
    ASSUME NEW s, UNCHANGED <<server, files, saved, quiet>>
    PROVE  /\ SyncInv(s) => SyncInv(s)'
           /\ SavedInv => SavedInv'
           /\ QuietInv => QuietInv'
<1>1. /\ Live(Atts)' = Live(Atts) /\ Done(s)' = Done(s)
      /\ \A k, a : Settled(k, a)' = Settled(k, a)
      /\ \A m, S : Apart(m, S)' = Apart(m, S)
  BY DEF Live, Done, Settled, Apart
<1>2. TakeInv(s) => TakeInv(s)'
  BY <1>1 DEF TakeInv
<1>3. EndInv(s) => EndInv(s)'
  BY <1>1 DEF EndInv
<1>4. SyncInv(s) => SyncInv(s)'
  BY <1>2, <1>3 DEF SyncInv
<1>5. SavedInv => SavedInv'
  BY DEF SavedInv
<1>6. QuietInv => QuietInv'
  BY <1>1 DEF QuietInv
<1> QED BY <1>4, <1>5, <1>6

\* A step of a process that was not idle keeps SettleInv if it keeps what is said of
\* the manifest, of the syncs before and of that process.
LEMMA SettleFrom ==
    ASSUME TypeInv, SettleInv, NEW p \in Procs, run[p].pc # "idle",
           NEW s, s \in Run, run' = [run EXCEPT ![p] = s], Follows(s, run[p]),
           quiet' > 0 => quiet > 0 \/ (run[p].alone /\ s.pc = "idle"),
           SavedInv', QuietInv', SyncInv(s)'
    PROVE  SettleInv'
<1>1. /\ AloneInv' /\ run'[p] = s
      /\ \A q \in Procs \ {p} : run'[q] = run[q] /\ ~run'[q].alone
  BY AloneFrom DEF SettleInv
<1>2. \A q \in Procs \ {p} : SyncInv(run[q])'
  BY <1>1 DEF SyncInv
<1>3. SyncInv(run[p])'
  BY <1>1
<1>4. \A q \in Procs : SyncInv(run[q])'
  BY <1>2, <1>3
<1> QED BY <1>1, <1>4 DEF SettleInv

\* A step that only changes one run.
LEMMA RunSettles ==
    ASSUME TypeInv, SettleInv, NEW p \in Procs, run[p].pc # "idle",
           NEW s, s \in Run, run' = [run EXCEPT ![p] = s], Follows(s, run[p]),
           UNCHANGED <<server, files, saved, quiet>>, SyncInv(s)
    PROVE  SettleInv'
<1>1. SavedInv' /\ QuietInv' /\ SyncInv(s)'
  BY SameWorld DEF SettleInv
<1> QED BY <1>1, SettleFrom

\* Of a run that is no sync, or not alone, nothing is said, and there was no
\* undisturbed sync before it.
LEMMA NothingSaid ==
    ASSUME NEW r, NEW s, Follows(s, r), ~(r.mode = "sync" /\ r.alone)
    PROVE  SyncInv(s) /\ SyncInv(s)'
BY DEF Follows, SyncInv

\* A sync goes on, or ends, with what it knows.
LEMMA GoesSync ==
    ASSUME NEW r \in Run
    PROVE  /\ TakeInv(r) => SyncInv(Goes(r))
           /\ TakeInv(r)' => SyncInv(Goes(r))'
<1> DEFINE u == Goes(r)
<1>1. /\ u.mem = r.mem /\ u.dirty = r.dirty /\ u.failed = r.failed /\ u.todo = r.todo
      /\ u.asked = r.asked
      /\ r.todo # {} => /\ u.pc = "take" /\ u.listed = r.listed
                        /\ u.prior = r.prior /\ u.claimed = r.claimed
      /\ r.todo = {} => u.pc = "finish"
  BY GoesIs
<1> HIDE DEF u
<1>2. CASE r.todo # {}
  <2>1. Done(u) = Done(r) /\ Done(u)' = Done(r)'
    BY <1>1 DEF Done
  <2>2. TakeInv(r) => TakeInv(u)
    BY <1>1, <1>2, <2>1 DEF TakeInv
  <2>3. TakeInv(r)' => TakeInv(u)'
    BY <1>1, <1>2, <2>1 DEF TakeInv
  <2> QED BY <1>1, <1>2, <2>2, <2>3 DEF SyncInv, u
<1>3. CASE r.todo = {}
  <2>1. Done(r) = Live(Atts) /\ Done(r)' = Live(Atts)'
    BY <1>3 DEF Done
  <2>2. TakeInv(r) => EndInv(u)
    BY <1>1, <2>1 DEF TakeInv, EndInv
  <2>3. TakeInv(r)' => EndInv(u)'
    BY <1>1, <2>1 DEF TakeInv, EndInv
  <2> QED BY <1>1, <1>3, <2>2, <2>3 DEF SyncInv, u
<1> QED BY <1>2, <1>3

\* A sync alone has the folders as they are, and the manifest on disk.
LEMMA Current ==
    ASSUME TypeInv, NEW r \in Run, TakeInv(r), NEW a \in r.todo
    PROVE  /\ a \in Atts /\ a \in Live(Atts) /\ a \notin Done(r)
           /\ r.listed \in [Atts -> Attachment] /\ r.listed[a] = server[a]
           /\ r.prior[a] = saved.entries[a] /\ r.mem[a] = saved.entries[a]
           /\ saved.entries[a] \in Entry \union {NoEntry}
           /\ Done(r) \subseteq Live(Atts) /\ Live(Atts) \subseteq Atts
<1>1. r.listed = server /\ r.prior = saved.entries /\ r.todo \subseteq Live(Atts)
      /\ r.mem[a] = saved.entries[a]
  BY DEF TakeInv
<1>2. Live(Atts) \subseteq Atts
  BY DEF Live
<1>3. server \in [Atts -> Attachment] /\ saved.entries \in Manifests
  BY DEF TypeInv, TypeOK
<1> QED BY <1>1, <1>2, <1>3 DEF Done, Manifests

\* After an undisturbed sync an attachment can claim only its recorded path, and only
\* if no attachment the run is done with has that path.
LEMMA OwnClaim ==
    ASSUME TypeInv, QuietInv, NEW r \in Run, TakeInv(r), quiet > 0,
           NEW a \in r.todo, NEW q \in Claim(r, a)
    PROVE  /\ q = saved.entries[a].path
           /\ ~r.failed => \A b \in Done(r) : r.mem[b].path # q
<1>1. /\ a \in Atts /\ a \in Live(Atts) /\ a \notin Done(r)
      /\ r.listed \in [Atts -> Attachment] /\ r.prior[a] = saved.entries[a]
      /\ Done(r) \subseteq Live(Atts) /\ Live(Atts) \subseteq Atts
  BY Current
<1>2. \A b \in Live(Atts) : Settled(saved.entries[b], b)
  BY DEF QuietInv
<1>3. q = saved.entries[a].path
  BY <1>1, <1>2, ClaimIs DEF Settled
<1>4. Owners(r.prior, q) = {a} \/ q \notin r.claimed
  BY DEF Claim
<1>5. r.prior = saved.entries
  BY DEF TakeInv
<1>6. ASSUME ~r.failed, NEW b \in Done(r), r.mem[b].path = q
      PROVE  FALSE
  <2>1. /\ q \in r.claimed
        /\ \/ q = saved.entries[b].path
           \/ \A c \in Live(Atts) : saved.entries[c].path # q
    BY <1>6 DEF TakeInv
  <2>2. q = saved.entries[b].path
    BY <1>1, <1>3, <2>1
  <2>3. b \in Owners(r.prior, q)
    BY <1>1, <1>2, <1>5, <2>2 DEF Owners, Settled
  <2> QED BY <1>1, <1>4, <2>1, <2>3
<1> QED BY <1>3, <1>6

\* After two of them, an attachment's file is as recorded, at a path it can claim.
LEMMA NothingToWrite ==
    ASSUME TypeInv, QuietInv, NEW r \in Run, TakeInv(r), r.mode = "sync", quiet = 2,
           NEW a \in r.todo
    PROVE  Matches(r, a) # {}
<1>1. /\ a \in Atts /\ a \in Live(Atts) /\ a \notin Done(r)
      /\ r.listed[a] = server[a] /\ r.prior[a] = saved.entries[a]
      /\ saved.entries[a] \in Entry \union {NoEntry}
      /\ Done(r) \subseteq Live(Atts) /\ Live(Atts) \subseteq Atts
  BY Current
<1> DEFINE k == saved.entries[a]
           O == Owners(r.prior, k.path)
<1>2. quiet > 0
  OBVIOUS
<1>3. Settled(k, a) /\ Apart(saved.entries, Live(Atts))
  BY <1>1, <1>2 DEF QuietInv
<1>4. server[a].dir \in Dirs
  BY <1>1 DEF TypeInv, TypeOK, Attachment
<1>5. PathIn(k, server[a].dir) = {k.path}
  BY <1>1, <1>3, <1>4, PathInIs DEF Settled
<1>6. a \in O
  BY <1>1, <1>3 DEF Owners, Settled
<1>7. O = {a} \/ Cardinality(O) # 1
  <2>1. IsFiniteSet(O)
    <3>1. O \in SUBSET Atts
      BY DEF Owners
    <3> HIDE DEF O
    <3> QED BY <3>1, NumberAssumption, FS_Subset
  <2> HIDE DEF O
  <2>2. Cardinality(O) = 1 => \E x : O = {x}
    BY <2>1, FS_Singleton
  <2> QED BY <1>6, <2>2
<1>8. k.path \notin r.claimed
  <2>1. \A b \in Done(r) : saved.entries[b].path # k.path
    BY <1>1, <1>3 DEF Apart
  <2>2. r.claimed \subseteq {saved.entries[b].path : b \in Done(r)}
    BY DEF TakeInv
  <2> QED BY <2>1, <2>2
<1>9. k.path \in Claim(r, a)
  BY <1>1, <1>5, <1>7, <1>8 DEF Claim
<1>10. Size(r.listed[a].body) = Size(r.prior[a].body) /\ files[k.path] = r.prior[a].body
  BY <1>1, <1>3 DEF Settled, Apart
<1>11. k.path \in Matches(r, a)
  BY <1>9, <1>10 DEF Matches
<1> QED BY <1>11

\* A skip keeps what a sync alone knows.
LEMMA SkipSettles ==
    ASSUME TypeInv, QuietInv, NEW r \in Run, TakeInv(r),
           NEW a \in r.todo, NEW q \in Matches(r, a), q \in Paths,
           NEW s, SkipMade(s, r, a, q)
    PROVE  TakeInv(s)
<1>1. /\ a \in Atts /\ a \in Live(Atts) /\ a \notin Done(r)
      /\ r.listed \in [Atts -> Attachment] /\ r.listed[a] = server[a]
      /\ r.prior[a] = saved.entries[a] /\ r.mem[a] = saved.entries[a]
      /\ saved.entries[a] \in Entry \union {NoEntry}
      /\ Done(r) \subseteq Live(Atts) /\ Live(Atts) \subseteq Atts
  BY Current
<1>2. /\ q \in Claim(r, a) /\ files[q] = r.prior[a].body
      /\ Size(server[a].body) = Size(r.prior[a].body)
  BY <1>1 DEF Matches
<1>3. /\ r.prior[a].body # 0 /\ q[1] = server[a].dir
      /\ ~r.prior[a].legacy => q = r.prior[a].path
  BY <1>1, <1>2, ClaimIs
<1>4. /\ s \in Run /\ s.listed = r.listed /\ s.prior = r.prior /\ s.failed = r.failed
      /\ s.todo = r.todo \ {a} /\ s.claimed = r.claimed \union Claim(r, a)
      /\ s.asked = {}
      /\ s.dirty = (r.dirty \/ r.prior[a].legacy)
      /\ s.mem[a] \in Entry /\ s.mem[a].legacy = FALSE /\ s.mem[a].path = q
      /\ s.mem[a].body = r.prior[a].body
      /\ \A b \in Atts \ {a} : s.mem[b] = r.mem[b]
  BY <1>1 DEF SkipMade, SameRun
<1>5. Done(s) = Done(r) \union {a}
  BY <1>1, <1>4 DEF Done
<1>6. s.listed = server /\ s.prior = saved.entries /\ s.todo \subseteq Live(Atts)
      /\ \A b \in s.todo : s.mem[b] = saved.entries[b]
  BY <1>1, <1>4 DEF TakeInv
<1>7. ~s.dirty => s.mem = saved.entries
  <2> SUFFICES ASSUME ~s.dirty
               PROVE  s.mem = saved.entries
    OBVIOUS
  <2>1. ~r.dirty /\ ~r.prior[a].legacy
    BY <1>4
  <2>2. r.mem = saved.entries
    BY <2>1 DEF TakeInv
  <2> DEFINE k == saved.entries[a]
             x == s.mem[a]
  <2>3. k \in Entry \union {NoEntry} /\ k.body # 0 /\ ~k.legacy /\ k.path = q
    BY <1>1, <1>3, <2>1
  <2>4. x \in Entry /\ x.legacy = FALSE /\ x.path = k.path /\ x.body = k.body
    BY <1>1, <1>4, <2>3
  <2> HIDE DEF k, x
  <2>5. k \in Entry /\ k.legacy = FALSE
    BY <2>3 DEF NoEntry, Entry
  <2>6. x = k
    BY <2>4, <2>5 DEF Entry
  <2>7. \A b \in Atts : s.mem[b] = r.mem[b]
    BY <1>1, <1>4, <2>6 DEF k, x
  <2>8. s.mem \in Manifests /\ r.mem \in Manifests
    BY <1>4, RunParts
  <2>9. s.mem = r.mem
    BY <2>7, <2>8 DEF Manifests
  <2> QED BY <2>2, <2>9
<1>8. ASSUME ~s.failed
      PROVE  \A b \in Done(s) : Settled(s.mem[b], b) /\ s.mem[b].path \in s.claimed
  <2>1. Settled(s.mem[a], a) /\ s.mem[a].path \in s.claimed
    BY <1>2, <1>3, <1>4 DEF Settled
  <2>2. \A b \in Done(r) : Settled(s.mem[b], b) /\ s.mem[b].path \in s.claimed
    <3>1. \A b \in Done(r) : Settled(r.mem[b], b) /\ r.mem[b].path \in r.claimed
      BY <1>4, <1>8 DEF TakeInv
    <3>2. \A b \in Done(r) : s.mem[b] = r.mem[b]
      BY <1>1, <1>4
    <3> QED BY <1>4, <3>1, <3>2
  <2> QED BY <1>5, <2>1, <2>2
<1>9. ASSUME ~s.failed, quiet > 0
      PROVE  /\ Apart(s.mem, Done(s))
             /\ \A b \in Done(s) :
                   \/ s.mem[b].path = saved.entries[b].path
                   \/ \A c \in Live(Atts) : saved.entries[c].path # s.mem[b].path
  <2>1. q = saved.entries[a].path /\ \A b \in Done(r) : r.mem[b].path # q
    BY <1>2, <1>4, <1>9, OwnClaim
  <2>2. \A b \in Done(r) : s.mem[b] = r.mem[b] /\ b # a
    BY <1>1, <1>4
  <2>3. /\ Apart(r.mem, Done(r))
        /\ \A b \in Done(r) :
              \/ r.mem[b].path = saved.entries[b].path
              \/ \A c \in Live(Atts) : saved.entries[c].path # r.mem[b].path
    BY <1>4, <1>9 DEF TakeInv
  <2>4. Apart(s.mem, Done(s))
    BY <1>2, <1>4, <1>5, <2>1, <2>2, <2>3 DEF Apart
  <2> QED BY <1>4, <1>5, <2>1, <2>2, <2>3, <2>4
<1>10. ASSUME quiet = 2
       PROVE  s.claimed \subseteq {saved.entries[b].path : b \in Done(s)} /\ s.asked = {}
  <2>1. \A o \in Claim(r, a) : o = saved.entries[a].path
    BY <1>10, OwnClaim
  <2>2. r.claimed \subseteq {saved.entries[b].path : b \in Done(r)}
    BY <1>10 DEF TakeInv
  <2> QED BY <1>4, <1>5, <2>1, <2>2
<1> QED BY <1>6, <1>7, <1>8, <1>9, <1>10 DEF TakeInv

\* A download keeps it, and what the sync before has settled.
LEMMA DownloadSettles ==
    ASSUME TypeInv, QuietInv, NEW r \in Run, TakeInv(r), quiet # 2,
           NEW a \in r.todo, NEW q \in Paths, NEW b \in Bodies, b = server[a].body,
           q \in Claim(r, a) \/ q \in FreshPath(r, a),
           NEW s, DownloadMade(s, r, a, q, b),
           files' = [files EXCEPT ![q] = b], UNCHANGED <<server, saved, quiet>>
    PROVE  QuietInv' /\ TakeInv(s)'
<1>1. /\ a \in Atts /\ a \in Live(Atts) /\ a \notin Done(r)
      /\ r.listed \in [Atts -> Attachment] /\ r.listed[a] = server[a]
      /\ r.prior[a] = saved.entries[a] /\ r.mem[a] = saved.entries[a]
      /\ Done(r) \subseteq Live(Atts) /\ Live(Atts) \subseteq Atts
  BY Current
<1>2. /\ s \in Run /\ s.listed = r.listed /\ s.prior = r.prior /\ s.failed = r.failed
      /\ s.todo = r.todo \ {a} /\ s.claimed = r.claimed \union Claim(r, a) \union {q}
      /\ s.dirty
      /\ s.mem[a].legacy = FALSE /\ s.mem[a].path = q /\ s.mem[a].body = b
      /\ \A c \in Atts \ {a} : s.mem[c] = r.mem[c]
  BY DEF DownloadMade, SameRun
<1>3. Live(Atts)' = Live(Atts) /\ Done(s)' = Done(s) /\ Done(s) = Done(r) \union {a}
  BY <1>1, <1>2 DEF Done, Live
<1>4. /\ files'[q] = b /\ b # 0
      /\ \A o \in Paths \ {q} : files'[o] = files[o]
  BY Numbers DEF TypeInv, TypeOK
<1>5. \A o : files[o] # 0 /\ o \in Paths => files'[o] # 0
  BY <1>4
<1>6. \A k \in Entry \union {NoEntry}, c \in Atts : Settled(k, c) => Settled(k, c)'
  BY <1>5, EntryParts DEF Settled
<1>7. saved.entries \in Manifests /\ \A c \in Atts : saved.entries[c] \in Entry \union {NoEntry}
  BY DEF TypeInv, TypeOK, Manifests
<1>8. QuietInv'
  <2>1. quiet > 0 => \A c \in Live(Atts) : Settled(saved.entries[c], c)'
    BY <1>1, <1>6, <1>7 DEF QuietInv
  <2> QED BY <1>3, <2>1 DEF QuietInv
<1>9. (/\ s.listed = server /\ s.prior = saved.entries /\ s.todo \subseteq Live(Atts)
       /\ \A c \in s.todo : s.mem[c] = saved.entries[c])'
  BY <1>1, <1>2, <1>3 DEF TakeInv
<1>10. q[1] = server[a].dir
  BY <1>1, ClaimIs, FreshPathIs
<1>11. \A c \in Done(r) : s.mem[c] = r.mem[c] /\ c # a /\ r.mem[c] \in Entry \union {NoEntry}
  BY <1>1, <1>2, RunParts
<1>12. ASSUME ~s.failed
       PROVE  \A c \in Done(s) : Settled(s.mem[c], c)' /\ s.mem[c].path \in s.claimed
  <2>1. Settled(s.mem[a], a)' /\ s.mem[a].path \in s.claimed
    BY <1>2, <1>4, <1>10 DEF Settled
  <2>2. \A c \in Done(r) : Settled(r.mem[c], c) /\ r.mem[c].path \in r.claimed
    BY <1>2, <1>12 DEF TakeInv
  <2>3. ASSUME NEW c \in Done(r) PROVE Settled(s.mem[c], c)' /\ s.mem[c].path \in s.claimed
    <3> DEFINE k == r.mem[c]
    <3>1. k \in Entry \union {NoEntry} /\ c \in Atts /\ Settled(k, c)
          /\ s.mem[c] = k /\ k.path \in s.claimed
      BY <1>1, <1>2, <1>11, <2>2
    <3> HIDE DEF k
    <3>2. Settled(k, c)'
      BY <1>6, <3>1
    <3> QED BY <3>1, <3>2
  <2> QED BY <1>3, <2>1, <2>3
<1>13. ASSUME ~s.failed, quiet > 0
       PROVE  /\ Apart(s.mem, Done(s))'
              /\ \A c \in Done(s) :
                    \/ s.mem[c].path = saved.entries[c].path
                    \/ \A o \in Live(Atts) : saved.entries[o].path # s.mem[c].path
  <2>1. /\ Apart(r.mem, Done(r))
        /\ \A c \in Done(r) :
              /\ r.mem[c].path \in r.claimed
              /\ r.mem[c].body # 0
              /\ \/ r.mem[c].path = saved.entries[c].path
                 \/ \A o \in Live(Atts) : saved.entries[o].path # r.mem[c].path
    BY <1>2, <1>13 DEF TakeInv, Settled
  <2>2. /\ \A c \in Done(r) : r.mem[c].path # q
        /\ \/ q = saved.entries[a].path
           \/ \A o \in Live(Atts) : saved.entries[o].path # q
    <3>1. CASE q \in Claim(r, a)
      BY <1>2, <1>13, <3>1, OwnClaim
    <3>2. CASE q \in FreshPath(r, a)
      <4>1. files[q] = 0 /\ q \notin r.claimed
        BY <1>1, <3>2, FreshPathIs
      <4>2. \A o \in Live(Atts) : files[saved.entries[o].path] # 0
        BY <1>13 DEF QuietInv, Settled
      <4> QED BY <2>1, <4>1, <4>2
    <3> QED BY <3>1, <3>2
  <2>3. \A c \in Done(r) : r.mem[c].path \in Paths
    BY <1>11, <2>1, EntryParts
  <2>4. \A c \in Done(s) : files'[s.mem[c].path] = s.mem[c].body
    <3>1. files'[s.mem[a].path] = s.mem[a].body
      BY <1>2, <1>4
    <3>2. \A c \in Done(r) : files'[r.mem[c].path] = r.mem[c].body
      BY <1>4, <2>1, <2>2, <2>3 DEF Apart
    <3> QED BY <1>3, <1>11, <3>1, <3>2
  <2>5. \A c, d \in Done(s) : c # d => s.mem[c].path # s.mem[d].path
    BY <1>2, <1>3, <1>11, <2>1, <2>2 DEF Apart
  <2>6. Apart(s.mem, Done(s))'
    BY <1>3, <2>4, <2>5 DEF Apart
  <2> QED BY <1>2, <1>3, <1>11, <2>1, <2>2, <2>6
<1>14. (~s.failed =>
          /\ \A c \in Done(s) : Settled(s.mem[c], c) /\ s.mem[c].path \in s.claimed
          /\ quiet > 0 =>
                /\ Apart(s.mem, Done(s))
                /\ \A c \in Done(s) :
                      \/ s.mem[c].path = saved.entries[c].path
                      \/ \A o \in Live(Atts) : saved.entries[o].path # s.mem[c].path)'
  BY <1>3, <1>12, <1>13
<1> QED BY <1>2, <1>8, <1>9, <1>14 DEF TakeInv

-----------------------------------------------------------------------------
(* Every step keeps what makes syncs settle.                               *)

\* What a process that has begun is at.
LEMMA Busy ==
    ASSUME TypeInv, SettleInv, NEW p \in Procs, run[p].pc # "idle"
    PROVE  /\ run[p] \in Run /\ SyncInv(run[p])
           /\ run[p].mode = "sync" => ~Selected(run[p]) /\ run[p].wanted = Atts
           /\ quiet > 0 => run[p].mode = "sync" /\ run[p].alone
BY GoodRuns DEF GoodRun, SettleInv, AloneInv, Selected

\* Goes goes on.
LEMMA GoesFollows ==
    ASSUME NEW r \in Run, NEW u, Follows(r, u), r.mode = u.mode, r.wanted = u.wanted,
           r.alone = u.alone
    PROVE  Goes(r) \in Run /\ Follows(Goes(r), u)
BY GoesIs DEF Follows

\* Idle follows everything, and nothing is said of it.
LEMMA IdleFollows ==
    /\ Idle \in Run /\ Idle.pc = "idle"
    /\ \A u : Follows(Idle, u)
    /\ SyncInv(Idle) /\ SyncInv(Idle)'
BY IdleIsGood DEF GoodRun, Follows, SyncInv

\* The manifest is loaded.
LEMMA LoadSettles ==
    ASSUME TypeInv, SettleInv, NEW p \in Procs, Load(p)
    PROVE  SettleInv'
<1> DEFINE r == run[p]
           l == Loaded(r)
<1>1. r.pc = "load" /\ UNCHANGED <<server, files, saved, quiet>>
  BY DEF Load, At
<1>2. /\ r \in Run /\ SyncInv(r)
      /\ r.mode = "sync" => ~Selected(r)
  BY <1>1, Busy
<1>3. PICK s : /\ run' = [run EXCEPT ![p] = s] /\ s \in Run
               /\ \/ ~Selected(r) /\ s = [l EXCEPT !.pc = "list"]
                  \/ Selected(r) /\ s \in {Idle, Goes(l)}
                  \/ r.mode = "single" /\ s = Idle
  BY LoadStep DEF GoodRun
<1>4. r = run[p]
  OBVIOUS
<1> HIDE DEF r
<1>5. /\ l \in Run /\ l.mode = r.mode /\ l.wanted = r.wanted /\ l.alone = r.alone
      /\ l.claimed = r.claimed /\ l.dirty = r.dirty
      /\ l.prior = Found /\ (r.mode # "force" => l.mem = Found)
  BY <1>2, LoadedIs
<1> HIDE DEF l
<1>6. Follows(s, r) /\ SyncInv(s)
  <2>1. CASE s = Idle
    BY <2>1, IdleFollows
  <2>2. CASE s = Goes(l) /\ Selected(r)
    <3>1. Follows(l, r)
      BY <1>5 DEF Follows
    <3>2. Follows(s, r)
      BY <1>5, <2>2, <3>1, GoesFollows
    <3>3. r.mode # "sync"
      BY <1>2, <2>2
    <3> QED BY <3>2, <3>3, NothingSaid
  <2>3. CASE s = [l EXCEPT !.pc = "list"]
    <3>1. /\ s.pc = "list" /\ s.mode = r.mode /\ s.wanted = r.wanted /\ s.alone = r.alone
          /\ s.claimed = r.claimed /\ s.dirty = r.dirty
          /\ s.prior = Found /\ (r.mode # "force" => s.mem = Found)
      BY <1>5, <2>3 DEF Run
    <3>2. Found = saved.entries
      BY DEF Found, SettleInv, SavedInv
    <3>3. r.mode = "sync" /\ r.alone => r.claimed = {} /\ ~r.dirty
      BY <1>1, <1>2 DEF SyncInv
    <3> QED BY <3>1, <3>2, <3>3 DEF SyncInv, Follows
  <2> QED BY <1>3, <2>1, <2>2, <2>3
<1> QED BY <1>1, <1>3, <1>4, <1>6, RunSettles

\* The folders are read, or cannot be.
LEMMA ListSettles ==
    ASSUME TypeInv, SettleInv, NEW p \in Procs, List(p) \/ ListFails(p)
    PROVE  SettleInv'
<1> DEFINE r == run[p]
           l == Read(r)
           f == [r EXCEPT !.pc = "finish", !.failed = TRUE]
<1>1. r.pc = "list" /\ UNCHANGED <<server, files, saved, quiet>>
  BY DEF List, ListFails, At
<1>2. /\ r \in Run /\ SyncInv(r)
      /\ r.mode = "sync" => ~Selected(r) /\ r.wanted = Atts
  BY <1>1, Busy
<1>2a. r.asked = {}
  BY <1>1, GoodRuns DEF GoodRun, AskedInv
<1>3. PICK s : /\ run' = [run EXCEPT ![p] = s] /\ s \in Run
               /\ \/ ~Selected(r) /\ s = Goes(l)
                  \/ Selected(r) /\ s \in {Idle, [l EXCEPT !.pc = "load"]}
                  \/ s = f
  BY ListStep, ListFailsStep DEF GoodRun
<1>4. r = run[p]
  OBVIOUS
<1> HIDE DEF r
<1>5. /\ l \in Run /\ l.mode = r.mode /\ l.wanted = r.wanted /\ l.alone = r.alone
      /\ l.claimed = r.claimed /\ l.dirty = r.dirty /\ l.listed = server
      /\ l.todo = Live(r.wanted) /\ l.prior = r.prior /\ l.mem = r.mem
      /\ l.asked = r.asked
  BY <1>2, ReadIs
<1>6. /\ f.mode = r.mode /\ f.wanted = r.wanted /\ f.alone = r.alone /\ f.pc = "finish"
      /\ f.mem = r.mem /\ f.failed
  BY <1>2 DEF Run
<1>7. Follows(l, r)
  BY <1>5 DEF Follows
<1>8. r.mode = "sync" /\ r.alone =>
         r.claimed = {} /\ ~r.dirty /\ r.prior = saved.entries /\ r.mem = saved.entries
  BY <1>1, <1>2 DEF SyncInv
<1> HIDE DEF l, f
<1>9. Follows(s, r)
  <2>1. CASE s = Idle
    BY <2>1, IdleFollows
  <2>2. CASE s = Goes(l)
    BY <1>5, <1>7, <2>2, GoesFollows
  <2>3. CASE s = [l EXCEPT !.pc = "load"]
    BY <1>5, <2>3 DEF Follows, Run
  <2>4. CASE s = f
    BY <1>6, <2>4 DEF Follows
  <2> QED BY <1>3, <2>1, <2>2, <2>3, <2>4
<1>10. SyncInv(s)
  <2>1. CASE ~(r.mode = "sync" /\ r.alone)
    BY <1>9, <2>1, NothingSaid
  <2>2. CASE r.mode = "sync" /\ r.alone /\ s = Goes(l)
    <3>1. Done(l) = {} /\ l.todo = Live(Atts)
      BY <1>2, <1>5, <2>2 DEF Done
    <3>2. TakeInv(l)
      BY <1>2a, <1>5, <1>8, <2>2, <3>1, Zenon DEF TakeInv, Apart, Live
    <3> QED BY <1>5, <2>2, <3>2, GoesSync
  <2>3. CASE r.mode = "sync" /\ r.alone /\ s = f
    BY <1>6, <1>8, <2>3 DEF SyncInv, EndInv
  <2> QED BY <1>2, <1>3, <2>1, <2>2, <2>3
<1> QED BY <1>1, <1>3, <1>4, <1>9, <1>10, RunSettles

\* A request or a write fails, or a folder cannot be read.
LEMMA FailureSettles ==
    ASSUME TypeInv, SettleInv, NEW p \in Procs, NEW a \in Atts,
           DownloadFails(p, a) \/ FolderFails(p, a)
    PROVE  SettleInv'
<1> DEFINE r == run[p]
           f == Failing(r, a)
           g == Passing(r, a)
<1>1. /\ r.pc = "take" /\ UNCHANGED <<server, files, saved, quiet>>
      /\ DownloadFails(p, a) => r.asked # {}
  BY DEF DownloadFails, FolderFails, Takes, At
<1>2. r \in Run /\ SyncInv(r)
  BY <1>1, Busy
<1>2a. FolderFails(p, a) => r.asked = {}
  BY Taking DEF FolderFails
<1>3. PICK s : /\ run' = [run EXCEPT ![p] = s] /\ s \in Run
               /\ \/ s = Idle
                  \/ r.asked # {} /\ s = Goes(f)
                  \/ r.asked = {} /\ s = Goes(g)
  BY <1>1, <1>2a, FailStep DEF GoodRun
<1>4. r.listed \in [Atts -> Attachment]
  BY Taking DEF DownloadFails, FolderFails
<1>5. r = run[p]
  OBVIOUS
<1> HIDE DEF r
<1>6. /\ f \in Run /\ SameRun(f, r) /\ f.mem = r.mem /\ f.dirty = r.dirty
      /\ f.failed /\ f.todo = r.todo \ {a} /\ f.claimed = r.claimed \union Claim(r, a)
      /\ f.asked = {}
      /\ g \in Run /\ SameRun(g, r) /\ g.mem = r.mem /\ g.dirty = r.dirty
      /\ g.failed /\ g.todo = r.todo \ {a} /\ g.claimed = r.claimed
      /\ g.asked = r.asked
  BY <1>2, <1>4, FailingIs
<1> HIDE DEF f, g
<1>7. Follows(f, r) /\ Follows(g, r)
  BY <1>6 DEF Follows, SameRun
<1>8. Follows(s, r)
  <2>1. Follows(Goes(f), r) /\ Follows(Goes(g), r)
    BY <1>6, <1>7, GoesFollows DEF SameRun
  <2> QED BY <1>3, <2>1, IdleFollows
<1>9. SyncInv(s)
  <2>1. CASE ~(r.mode = "sync" /\ r.alone)
    BY <1>8, <2>1, NothingSaid
  <2>2. CASE s = Idle
    BY <2>2, IdleFollows
  <2>3. CASE r.mode = "sync" /\ r.alone /\ s # Idle
    <3>1. TakeInv(r)
      BY <1>1, <1>2, <2>3 DEF SyncInv
    <3>2. /\ r.listed = server /\ r.prior = saved.entries /\ r.todo \subseteq Live(Atts)
          /\ \A b \in r.todo : r.mem[b] = saved.entries[b]
          /\ ~r.dirty => r.mem = saved.entries
          /\ quiet = 2 => /\ r.claimed \subseteq {saved.entries[b].path : b \in Done(r)}
                          /\ r.asked = {}
      BY <3>1 DEF TakeInv
    <3>3. CASE s = Goes(g)
      <4>1. Done(r) \subseteq Done(g)
        BY <1>6 DEF Done
      <4>2. TakeInv(g)
        BY <1>6, <3>2, <4>1 DEF TakeInv, SameRun
      <4> QED BY <1>6, <3>3, <4>2, GoesSync
    <3>4. CASE r.asked # {} /\ s = Goes(f)
      <4>1. quiet # 2
        BY <3>2, <3>4
      <4>2. TakeInv(f)
        BY <1>6, <3>2, <4>1 DEF TakeInv, SameRun
      <4> QED BY <1>6, <3>4, <4>2, GoesSync
    <3> QED BY <1>3, <2>3, <3>3, <3>4
  <2> QED BY <2>1, <2>2, <2>3
<1> QED BY <1>1, <1>3, <1>5, <1>8, <1>9, RunSettles

\* An attachment is skipped.
LEMMA SkipKeeps ==
    ASSUME TypeInv, SettleInv, NEW p \in Procs, NEW a \in Atts, Skip(p, a)
    PROVE  SettleInv'
<1> DEFINE r == run[p]
<1>1. r.pc = "take" /\ a \in r.todo /\ UNCHANGED <<server, files, saved, quiet>>
  BY DEF Skip, Takes, At
<1>2. r \in Run /\ SyncInv(r) /\ r.listed \in [Atts -> Attachment]
  BY <1>1, Busy, Taking DEF Skip
<1>3. PICK q \in Matches(r, a) : /\ q \in Paths
                                 /\ run' = [run EXCEPT ![p] = Goes(Skipped(r, a, q))]
  BY SkipStep
<1>4. PICK s : s = Skipped(r, a, q)
  OBVIOUS
<1>5. PICK u : u = Goes(s)
  OBVIOUS
<1>6. run' = [run EXCEPT ![p] = u] /\ r = run[p]
  BY <1>3, <1>4, <1>5
<1> HIDE DEF r
<1>7. SkipMade(s, r, a, q)
  BY <1>2, <1>3, <1>4, SkippedIs
<1>8. s \in Run /\ s.mode = r.mode /\ s.wanted = r.wanted /\ s.alone = r.alone
  BY <1>7 DEF SkipMade, SameRun
<1>9. u \in Run /\ Follows(u, r)
  BY <1>5, <1>8, GoesFollows DEF Follows
<1>10. SyncInv(u)
  <2>1. CASE ~(r.mode = "sync" /\ r.alone)
    BY <1>9, <2>1, NothingSaid
  <2>2. CASE r.mode = "sync" /\ r.alone
    <3>1. TakeInv(r)
      BY <1>1, <1>2, <2>2 DEF SyncInv
    <3>2. TakeInv(s)
      BY <1>1, <1>2, <1>3, <1>7, <3>1, SkipSettles DEF SettleInv
    <3> QED BY <1>5, <1>8, <3>2, GoesSync
  <2> QED BY <2>1, <2>2
<1> QED BY <1>1, <1>6, <1>9, <1>10, RunSettles

\* An attachment is asked for.
LEMMA AskKeeps ==
    ASSUME TypeInv, SettleInv, NEW p \in Procs, NEW a \in Atts, Ask(p, a)
    PROVE  SettleInv'
<1> DEFINE r == run[p]
<1>1. /\ r.pc = "take" /\ a \in r.todo /\ Matches(r, a) = {}
      /\ UNCHANGED <<server, files, saved, quiet>>
  BY DEF Ask, Takes, At
<1>2. r \in Run /\ SyncInv(r) /\ r.listed \in [Atts -> Attachment]
  BY <1>1, Busy, Taking DEF Ask
<1>3. PICK s : s = Asking(r, a)
  OBVIOUS
<1>4. run' = [run EXCEPT ![p] = s] /\ r = run[p]
  BY <1>3, AskStep
<1> HIDE DEF r
<1>5. /\ s \in Run /\ SameRun(s, r) /\ s.mem = r.mem /\ s.dirty = r.dirty
      /\ s.failed = r.failed /\ s.todo = r.todo /\ s.claimed = r.claimed
  BY <1>2, <1>3, AskingIs
<1>6. Follows(s, r) /\ s.pc = "take"
  BY <1>1, <1>5 DEF Follows, SameRun
<1>7. SyncInv(s)
  <2>1. CASE ~(r.mode = "sync" /\ r.alone)
    BY <1>6, <2>1, NothingSaid
  <2>2. CASE r.mode = "sync" /\ r.alone
    <3>1. TakeInv(r)
      BY <1>1, <1>2, <2>2 DEF SyncInv
    <3>2. quiet # 2
      BY <1>1, <1>2, <2>2, <3>1, NothingToWrite DEF SettleInv
    <3>3. Done(s) = Done(r)
      BY <1>5 DEF Done
    <3>4. TakeInv(s)
      BY <1>5, <3>1, <3>2, <3>3 DEF TakeInv, SameRun
    <3> QED BY <1>6, <3>4 DEF SyncInv
  <2> QED BY <2>1, <2>2
<1> QED BY <1>1, <1>4, <1>5, <1>6, <1>7, RunSettles

\* An attachment is written.
LEMMA DownloadKeeps ==
    ASSUME TypeInv, SettleInv, NEW p \in Procs, NEW a \in Atts, Download(p, a)
    PROVE  SettleInv'
<1> DEFINE r == run[p]
           b == server[a].body
<1>1. /\ r.pc = "take" /\ a \in r.todo /\ r.asked # {}
      /\ UNCHANGED <<server, saved, quiet>>
  BY Taking DEF Download, At
<1>2. /\ r \in Run /\ SyncInv(r) /\ r.listed \in [Atts -> Attachment]
      /\ quiet > 0 => r.mode = "sync" /\ r.alone
  BY <1>1, Busy, Taking DEF Download
<1>3. PICK q \in Paths : /\ q \in Claim(r, a) \/ q \in FreshPath(r, a)
                         /\ b \in Bodies
                         /\ files' = [files EXCEPT ![q] = b]
                         /\ run' = [run EXCEPT ![p] = Goes(Downloaded(r, a, q, b))]
  BY DownloadStep
<1>4. PICK s : s = Downloaded(r, a, q, b)
  OBVIOUS
<1>5. PICK u : u = Goes(s)
  OBVIOUS
<1>6. run' = [run EXCEPT ![p] = u] /\ r = run[p] /\ b = server[a].body
  BY <1>3, <1>4, <1>5
<1>6a. PICK c \in Bodies : c = b
  BY <1>3
<1> HIDE DEF r, b
<1>7. DownloadMade(s, r, a, q, c)
  BY <1>2, <1>3, <1>4, <1>6a, DownloadedIs
<1>8. s \in Run /\ s.mode = r.mode /\ s.wanted = r.wanted /\ s.alone = r.alone
  BY <1>7 DEF DownloadMade, SameRun
<1>9. u \in Run /\ Follows(u, r)
  BY <1>5, <1>8, GoesFollows DEF Follows
<1>10. SavedInv'
  BY <1>1 DEF SettleInv, SavedInv
<1>11. QuietInv' /\ SyncInv(u)'
  <2>1. CASE ~(r.mode = "sync" /\ r.alone)
    <3>1. quiet' = 0
      BY <1>1, <1>2, <2>1 DEF TypeInv, TypeOK
    <3> QED BY <1>9, <2>1, <3>1, NothingSaid DEF QuietInv
  <2>2. CASE r.mode = "sync" /\ r.alone
    <3>1. TakeInv(r)
      BY <1>1, <1>2, <2>2 DEF SyncInv
    <3>2. quiet # 2
      BY <1>1, <3>1 DEF TakeInv
    <3>3. files' = [files EXCEPT ![q] = c] /\ c = server[a].body
      BY <1>3, <1>6, <1>6a
    <3>4. PICK o \in Run : o = r
      BY <1>2
    <3>5. /\ TakeInv(o) /\ a \in o.todo /\ DownloadMade(s, o, a, q, c)
          /\ q \in Claim(o, a) \/ q \in FreshPath(o, a)
      BY <1>1, <1>3, <1>7, <3>1, <3>4
    <3>6. QuietInv' /\ TakeInv(s)'
      BY <1>1, <3>2, <3>3, <3>5, DownloadSettles DEF SettleInv
    <3> QED BY <1>5, <1>8, <3>6, GoesSync
  <2> QED BY <2>1, <2>2
<1> QED BY <1>1, <1>6, <1>9, <1>10, <1>11, SettleFrom

\* A run ends and saves the manifest, or is killed.
LEMMA EndSettles ==
    ASSUME TypeInv, SettleInv, NEW p \in Procs, Finish(p) \/ Crash(p)
    PROVE  SettleInv'
<1> DEFINE r == run[p]
<1>1. /\ r.pc # "idle" /\ run' = [run EXCEPT ![p] = Idle]
      /\ UNCHANGED <<server, files>>
  BY CrashStep DEF Finish, Crash, At
<1>2. /\ r \in Run /\ SyncInv(r)
      /\ quiet > 0 => r.mode = "sync" /\ r.alone
  BY <1>1, Busy
<1>3. \/ quiet' = 0 /\ (UNCHANGED saved \/ Save(r.mem))
      \/ /\ r.pc = "finish" /\ r.mode = "sync" /\ ~r.failed /\ r.alone
         /\ quiet' = IF quiet = 2 THEN 2 ELSE quiet + 1
         /\ Save(r.mem) \/ (UNCHANGED saved /\ ~r.dirty)
  BY DEF Finish, Crash, At
<1>4. r = run[p]
  OBVIOUS
<1> HIDE DEF r
<1>5. SavedInv'
  BY <1>3 DEF SettleInv, SavedInv, Save
<1>6. PICK s : s = Idle
  OBVIOUS
<1>6a. Follows(s, r) /\ s \in Run /\ s.pc = "idle" /\ SyncInv(s)'
       /\ run' = [run EXCEPT ![p] = s]
  BY <1>1, <1>6, IdleFollows
<1>7. CASE quiet' = 0
  <2>1. QuietInv'
    BY <1>7 DEF QuietInv
  <2>2. quiet' > 0 => quiet > 0 \/ (run[p].alone /\ s.pc = "idle")
    BY <1>7
  <2>3. Follows(s, run[p]) /\ run[p].pc # "idle"
    BY <1>1, <1>4, <1>6a
  <2> QED BY <1>5, <1>6a, <2>1, <2>2, <2>3, SettleFrom
<1>8. CASE /\ r.pc = "finish" /\ r.mode = "sync" /\ ~r.failed /\ r.alone
           /\ quiet' = IF quiet = 2 THEN 2 ELSE quiet + 1
           /\ Save(r.mem) \/ (UNCHANGED saved /\ ~r.dirty)
  <2>1. EndInv(r)
    BY <1>2, <1>8 DEF SyncInv
  <2>2. saved'.entries = r.mem
    BY <1>8, <2>1 DEF EndInv, Save
  <2>3. /\ \A a \in Live(Atts) : Settled(r.mem[a], a)
        /\ quiet > 0 => Apart(r.mem, Live(Atts))
    BY <1>8, <2>1 DEF EndInv
  <2>4. quiet' = 2 => quiet > 0
    BY <1>8 DEF TypeInv, TypeOK
  <2>5. /\ Live(Atts)' = Live(Atts)
        /\ \A k, a : Settled(k, a)' = Settled(k, a)
        /\ \A m, S : Apart(m, S)' = Apart(m, S)
    BY <1>1 DEF Live, Settled, Apart
  <2>6. QuietInv'
    BY <2>2, <2>3, <2>4, <2>5 DEF QuietInv
  <2> QED BY <1>1, <1>4, <1>5, <1>6a, <1>8, <2>6, SettleFrom
<1> QED BY <1>3, <1>7, <1>8

\* A run begins.
LEMMA BeginSettles ==
    ASSUME TypeInv, SettleInv, NEW p \in Procs, Start(p) \/ StartSingle(p)
    PROVE  SettleInv'
<1>1. PICK m \in {"sync", "download", "force", "single"}, wanted \in SUBSET Atts :
          Begins(p, m, wanted) /\ (m = "sync" => wanted = Atts)
  BY StartIs
<1> DEFINE s == Begun(p, m, wanted)
           d == Disturbed
<1>2. run' = [d EXCEPT ![p] = s]
  BY <1>1, BeginsStep
<1>3. /\ d \in [Procs -> Run]
      /\ \A q \in Procs : ~d[q].alone /\ d[q].pc = run[q].pc /\ d[q].mode = run[q].mode
                          /\ d[q].wanted = run[q].wanted
  BY DisturbedIs
<1>4. /\ s.pc = (IF wanted = Atts THEN "load" ELSE "list")
      /\ s.mode = m /\ s.wanted = wanted /\ s.alone = Alone(p)
      /\ s.claimed = {} /\ ~s.dirty
  BY BegunIs
<1>5. /\ UNCHANGED <<server, files, saved>>
      /\ quiet' = IF Alone(p) /\ m = "sync" THEN quiet ELSE 0
  BY <1>1 DEF Begins
<1> HIDE DEF s, d
<1>6. run'[p] = s /\ \A q \in Procs \ {p} : run'[q] = d[q]
  BY <1>2, <1>3
<1>7. Alone(p) => \A q \in Procs \ {p} : run'[q].pc = "idle"
  BY <1>3, <1>6 DEF Alone, At
<1>8. AloneInv'
  <2>1. ASSUME NEW q \in Procs
        PROVE  /\ run'[q].alone => \A o \in Procs \ {q} : run'[o].pc = "idle"
               /\ run'[q].pc # "idle" =>
                     /\ run'[q].mode = "sync" => run'[q].wanted = Atts
                     /\ quiet' > 0 => run'[q].mode = "sync" /\ run'[q].alone
    <3>1. CASE q = p
      BY <1>1, <1>4, <1>5, <1>6, <1>7, <3>1
    <3>2. CASE q # p
      <4>1. run'[q] = d[q] /\ ~d[q].alone /\ d[q].pc = run[q].pc
            /\ d[q].mode = run[q].mode /\ d[q].wanted = run[q].wanted
        BY <1>3, <1>6, <3>2
      <4>2. quiet' > 0 => run'[q].pc = "idle"
        BY <1>5, <1>7, <3>2
      <4>3. run[q].pc # "idle" /\ run[q].mode = "sync" => run[q].wanted = Atts
        BY DEF SettleInv, AloneInv
      <4> QED BY <4>1, <4>2, <4>3
    <3> QED BY <3>1, <3>2
  <2> QED BY <2>1 DEF AloneInv
<1>9. quiet' > 0 => quiet' = quiet
  BY <1>5
<1>10. SavedInv' /\ QuietInv'
  <2>1. SavedInv'
    BY <1>5 DEF SettleInv, SavedInv
  <2>2. /\ Live(Atts)' = Live(Atts)
        /\ \A k, a : Settled(k, a)' = Settled(k, a)
        /\ \A e, S : Apart(e, S)' = Apart(e, S)
    BY <1>5 DEF Live, Settled, Apart
  <2>3. QuietInv'
    BY <1>5, <1>9, <2>2 DEF SettleInv, QuietInv
  <2> QED BY <2>1, <2>3
<1>11. ASSUME NEW q \in Procs PROVE SyncInv(run[q])'
  <2>1. CASE q = p
    BY <1>1, <1>4, <1>6, <2>1 DEF SyncInv
  <2>2. CASE q # p
    <3>1. ~run'[q].alone
      BY <1>3, <1>6, <2>2
    <3> QED BY <3>1 DEF SyncInv
  <2> QED BY <2>1, <2>2
<1> QED BY <1>8, <1>10, <1>11 DEF SettleInv

\* What the server or the person does disturbs every run.
LEMMA DisturbedSettles ==
    ASSUME TypeInv, SettleInv,
           (\E a \in Atts : ServerChanges(a)) \/ PersonWrites \/ ManifestDamaged
    PROVE  SettleInv'
<1>1. /\ run' = Disturbed /\ quiet' = 0
      /\ UNCHANGED saved \/ saved'.entries = Empty
  BY DEF ServerChanges, PersonWrites, ManifestDamaged, PersonUses
<1>2. SavedInv'
  BY <1>1 DEF SettleInv, SavedInv
<1>3. QuietInv'
  BY <1>1 DEF QuietInv
<1>4. \A q \in Procs : ~run'[q].alone /\ run'[q].pc = run[q].pc /\ run'[q].mode = run[q].mode
                       /\ run'[q].wanted = run[q].wanted
  BY <1>1, DisturbedIs
<1>5. AloneInv'
  BY <1>1, <1>4 DEF SettleInv, AloneInv
<1>6. \A q \in Procs : SyncInv(run[q])'
  BY <1>4 DEF SyncInv
<1> QED BY <1>2, <1>3, <1>5, <1>6 DEF SettleInv

\* Every step keeps it.
LEMMA SettleKept ==
    ASSUME TypeInv, SettleInv, [Next]_vars
    PROVE  SettleInv'
<1>1. ASSUME NEW p \in Procs, Start(p) \/ StartSingle(p) PROVE SettleInv'
  BY <1>1, BeginSettles
<1>2. ASSUME NEW p \in Procs, Load(p) PROVE SettleInv'
  BY <1>2, LoadSettles
<1>3. ASSUME NEW p \in Procs, List(p) \/ ListFails(p) PROVE SettleInv'
  BY <1>3, ListSettles
<1>4. ASSUME NEW p \in Procs, Finish(p) \/ Crash(p) PROVE SettleInv'
  BY <1>4, EndSettles
<1>5. ASSUME NEW p \in Procs, NEW a \in Atts, Skip(p, a) PROVE SettleInv'
  BY <1>5, SkipKeeps
<1>6. ASSUME NEW p \in Procs, NEW a \in Atts, Download(p, a) PROVE SettleInv'
  BY <1>6, DownloadKeeps
<1>7. ASSUME NEW p \in Procs, NEW a \in Atts, DownloadFails(p, a) \/ FolderFails(p, a)
      PROVE SettleInv'
  BY <1>7, FailureSettles
<1>8. ASSUME (\E a \in Atts : ServerChanges(a)) \/ PersonWrites \/ ManifestDamaged
      PROVE SettleInv'
  BY <1>8, DisturbedSettles
<1>10. ASSUME NEW p \in Procs, NEW a \in Atts, Ask(p, a) PROVE SettleInv'
  BY <1>10, AskKeeps
<1>9. CASE UNCHANGED vars
  <2>1. \A p \in Procs : SyncInv(run[p]) => SyncInv(run[p])'
    <3>1. ASSUME NEW p \in Procs, SyncInv(run[p]) PROVE SyncInv(run[p])'
      <4>1. PICK s : s = run[p]
        OBVIOUS
      <4>2. s = run'[p] /\ SyncInv(s) /\ UNCHANGED <<server, files, saved, quiet>>
        BY <1>9, <3>1, <4>1 DEF vars
      <4>3. SyncInv(s)'
        BY <4>2, SameWorld
      <4> QED BY <4>2, <4>3
    <3> QED BY <3>1
  <2>2. SavedInv' /\ QuietInv'
    BY <1>9, SameWorld DEF vars, SettleInv
  <2>3. AloneInv'
    BY <1>9 DEF vars, SettleInv, AloneInv
  <2> QED BY <2>1, <2>2, <2>3 DEF SettleInv
<1> QED BY <1>1, <1>2, <1>3, <1>4, <1>5, <1>6, <1>7, <1>8, <1>9, <1>10 DEF Next

-----------------------------------------------------------------------------
(* The theorems.                                                           *)

\* The invariant that the steps keep, with what a run in progress has.
LEMMA Reachable == Spec => [](TypeInv /\ IInv)
<1>1. Init => TypeInv /\ IInv
  BY Starts
<1>2. TypeInv /\ IInv /\ [Next]_vars => TypeInv' /\ IInv'
  BY TypesKept, HadKept, SettleKept DEF IInv
<1> QED BY <1>1, <1>2, PTL DEF Spec

\* In every reachable state the types hold, and of every manifest and every sync alone
\* what the inductive invariant says.
THEOREM Invariance == Spec => [](TypeOK /\ IInv)
<1>1. TypeInv /\ IInv => TypeOK /\ IInv
  BY DEF TypeInv
<1> QED BY <1>1, Reachable, PTL

\* Two whole syncs without error that nothing disturbs leave every attachment in its
\* folder's directory under a path no other attachment of the server has, with the
\* bytes recorded there.
THEOREM TwoSyncsSettleAlways == Spec => []TwoSyncsSettle
<1>1. TypeInv /\ IInv => TwoSyncsSettle
  <2> SUFFICES ASSUME TypeInv, IInv, quiet = 2, NEW a \in Live(Atts)
               PROVE  LET kept == saved.entries[a] IN
                      /\ kept.body # 0 /\ ~kept.legacy /\ kept.path[1] = server[a].dir
                      /\ files[kept.path] = kept.body
                      /\ Size(kept.body) = Size(server[a].body)
                      /\ Owners(saved.entries, kept.path) \intersect Live(Atts) = {a}
    BY DEF TwoSyncsSettle, Live
  <2>1. /\ \A b \in Live(Atts) : Settled(saved.entries[b], b)
        /\ Apart(saved.entries, Live(Atts))
    BY DEF IInv, SettleInv, QuietInv
  <2>2. /\ saved.entries[a].body # 0 /\ ~saved.entries[a].legacy
        /\ saved.entries[a].path[1] = server[a].dir
        /\ files[saved.entries[a].path] = saved.entries[a].body
        /\ Size(saved.entries[a].body) = Size(server[a].body)
    BY <2>1 DEF Settled, Apart
  <2>3. Live(Atts) \subseteq Atts
    BY DEF Live
  <2>4. a \in Owners(saved.entries, saved.entries[a].path)
    BY <2>2, <2>3 DEF Owners
  <2>5. \A b \in Live(Atts) \ {a} : saved.entries[b].path # saved.entries[a].path
    BY <2>1 DEF Apart
  <2>6. \A b \in Live(Atts) \ {a} : b \notin Owners(saved.entries, saved.entries[a].path)
    BY <2>5 DEF Owners
  <2> QED BY <2>2, <2>4, <2>6
<1> QED BY <1>1, Reachable, PTL

\* An attachment is skipped only when its file has bytes it has had, of the size the
\* server lists, in its own directory.
THEOREM SkipsAlwaysCurrent == Spec => SkipsAreCurrent
<1>1. TypeInv /\ IInv /\ [Next]_vars =>
         [\A p \in Procs, a \in Atts :
             Skip(p, a) =>
                LET q == run'[p].mem[a].path IN
                /\ files[q] \in had[a]
                /\ Size(files[q]) = Size(run[p].listed[a].body)
                /\ q[1] = run[p].listed[a].dir]_vars
  BY SkipIsCurrent DEF IInv
<1> QED BY <1>1, Reachable, PTL DEF Spec, SkipsAreCurrent

\* A download replaces only the file the manifest records for that attachment, or for a
\* legacy entry a file that was not there when the attachment was asked for.
THEOREM UnownedFilesAlwaysStay == Spec => UnownedFilesStay
<1>1. TypeInv /\ IInv /\ [Next]_vars =>
         [\A p \in Procs, a \in Atts :
             Download(p, a) =>
                \A q \in Paths : files'[q] # files[q] /\ files[q] # 0 =>
                   IF run[p].prior[a].legacy THEN q \in run[p].vacant
                   ELSE run[p].prior[a].path = q]_vars
  BY DownloadIsOwn
<1> QED BY <1>1, Reachable, PTL DEF Spec, UnownedFilesStay
=============================================================================
