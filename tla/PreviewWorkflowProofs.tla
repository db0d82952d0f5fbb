------------------------ MODULE PreviewWorkflowProofs ------------------------
(***************************************************************************)
(* Proofs about PreviewWorkflow, for any number of accounts, choices,      *)
(* pages, attempts and lost replies.  IInv is inductive together with      *)
(* TypeOK: it says of the checkpoint, and of the one a refused write       *)
(* restores, what the server has to it, where the running command can be,  *)
(* and which attempts may still be unaccounted for.  At the end, proofs    *)
(* about FormProtection, the codes of the forms a preview sends.           *)
(***************************************************************************)
EXTENDS PreviewWorkflow, FormProtection, TLAPS

\* What a checkpoint names exists on the server, is its account's, was not
\* there before, is not behind the cursor, and is complete if it says so.
Names(f) ==
    /\ f.attempt # 0 =>
          /\ f.page # 0
          /\ f.attempt <= made
          /\ owner[f.attempt] = f.actor
          /\ f.attempt \notin f.baseline
          /\ f.page <= spot[f.attempt]
    /\ f.baseline \subseteq Listing
    /\ f.status = "submitted" => state[f.attempt] = "done"

\* What the fields of a checkpoint say of one another.
Tells(f) ==
    /\ f.status \in {"active", "submitted"} => f.attempt # 0
    /\ f.status = "uncertain" =>
          /\ f.op # "none"
          /\ f.op = "start" => f.based
          /\ f.op # "start" => f.attempt # 0
          /\ f.op # "answer" => f.choice = NoChoice
    /\ f.marker = "yes" => f.status = "abandoned"
    /\ Unresolved(f) => f.choice = NoChoice

\* An active checkpoint leaves nothing in doubt, and its answer is the server's.
Confirmed(f) ==
    f.status = "active" =>
        /\ f.attempt \notin doubt
        /\ f.choice # NoChoice /\ f.attempt \notin touched =>
              chosen[f.attempt][f.page] = f.choice

FileInv == Names(file) /\ Tells(file) /\ Confirmed(file)

\* Before anything is sent, the checkpoint to restore is as good as any.
OldInv ==
    pc = "send" => Names(old) /\ Tells(old) /\ Confirmed(old) /\ ~Unresolved(old)

\* Where a command can be, and what it knows there.
PlaceInv ==
    /\ pc # "idle" => file.status = "uncertain"
    /\ pc \in {"send", "post"} =>
          IF file.op = "start" THEN file.attempt = 0 /\ unseen = {}
          ELSE file.attempt \notin doubt
    /\ pc = "named" =>
          /\ file.op = "start" /\ file.attempt = 0
          /\ fresh \in Listing
          /\ owner[fresh] = file.actor
          /\ fresh \notin file.baseline \union doubt
          /\ unseen = {fresh}
    /\ pc = "read" => file.attempt # 0

\* What no checkpoint ever named is kept in mind by an unresolved start.
UnseenInv == unseen # {} => Unresolved(file) /\ file.attempt = 0

\* The attempt an unresolved start has created, or may have, is not in doubt.
DoubtInv ==
    /\ doubt \subseteq Listing
    /\ Unresolved(file) =>
          IF file.attempt = 0
          THEN \A a \in doubt : owner[a] = file.actor => a \in file.baseline
          ELSE file.attempt \notin doubt

IInv == FileInv /\ OldInv /\ PlaceInv /\ UnseenInv /\ DoubtInv

-----------------------------------------------------------------------------
(* Checkpoints.                                                            *)

\* An empty checkpoint, and the one a start writes first.
LEMMA BlankFile ==
    ASSUME NEW u \in Actors, NEW B \in SUBSET Attempts
    PROVE  /\ Blank(u) \in Files
           /\ [Blank(u) EXCEPT !.status = "uncertain", !.op = "start",
                               !.baseline = B, !.based = TRUE] \in Files
<1>1. 0 \in Attempts \union {0} /\ 0 \in PageNums \union {0}
  OBVIOUS
<1> QED BY <1>1 DEF Blank, Files

\* A checkpoint stays one when a write is intended.
LEMMA IntendedFile ==
    ASSUME NEW f \in Files, NEW o \in {"answer", "next", "submit"},
           NEW c \in Choices \union {NoChoice}
    PROVE  [f EXCEPT !.status = "uncertain", !.op = o, !.choice = c] \in Files
  BY DEF Files

\* A checkpoint stays one when it gets its attempt.
LEMMA SealedFile ==
    ASSUME NEW f \in Files, NEW a \in Attempts, NEW p \in PageNums
    PROVE  [f EXCEPT !.attempt = a, !.page = p] \in Files
  BY DEF Files

\* A checkpoint stays one when it becomes active at a page.
LEMMA ActiveFile ==
    ASSUME NEW f \in Files, NEW p \in PageNums
    PROVE  Active(f, p) \in Files
  BY DEF Files, Active

\* A checkpoint stays one when it becomes active for an attempt.
LEMMA BoundFile ==
    ASSUME NEW f \in Files, NEW p \in PageNums, NEW a \in Attempts
    PROVE  [Active(f, p) EXCEPT !.attempt = a] \in Files
  BY DEF Files, Active

\* A checkpoint stays one when it is submitted.
LEMMA SubmittedFile ==
    ASSUME NEW f \in Files
    PROVE  Submitted(f) \in Files
  BY DEF Files, Submitted

\* A checkpoint stays one when a refused start is abandoned.
LEMMA DroppedFile ==
    ASSUME NEW f \in Files
    PROVE  [f EXCEPT !.status = "abandoned", !.op = "none"] \in Files
  BY DEF Files

\* A checkpoint stays one when it is abandoned.
LEMMA AbandonedFile ==
    ASSUME NEW f \in Files, NEW m \in {"yes", "no"}
    PROVE  [f EXCEPT !.status = "abandoned", !.op = "none", !.marker = m] \in Files
  BY DEF Files

\* A checkpoint stays one when its start is resolved.
LEMMA ResolvedFile ==
    ASSUME NEW f \in Files
    PROVE  Resolved(f) \in Files
  BY DEF Files, Resolved

\* What a command sends is a write.
LEMMA SentWrite ==
    ASSUME file \in Files, file.op \in {"answer", "next", "submit"},
           file.attempt # 0, file.page # 0
    PROVE  Sent \in Writes
  BY DEF Files, Writes, Sent

-----------------------------------------------------------------------------
(* The server.                                                             *)

\* The server's part of the type invariant.
ServerOK ==
    /\ made \in 0 .. MaxAttempts
    /\ owner \in [Attempts -> Actors]
    /\ state \in [Attempts -> {"none", "open", "done"}]
    /\ spot \in [Attempts -> PageNums]
    /\ chosen \in [Attempts -> [PageNums -> Choices \union {NoChoice}]]

\* Attempts are never taken back, given away, reopened or turned back.
Grows ==
    /\ made <= made'
    /\ \A a \in Listing :
          /\ owner'[a] = owner[a]
          /\ spot[a] <= spot'[a]
          /\ state[a] = "done" => state'[a] = "done"

\* Attempts and pages are positive numbers.
LEMMA Numbers ==
    /\ \A a \in Attempts : a \in Nat /\ a > 0
    /\ \A p \in PageNums : p \in Nat /\ p > 0
    /\ 1 \in PageNums
  BY SizeAssumption DEF Attempts, PageNums

\* What has been created is an attempt.
LEMMA ListingIsAttempts ==
    ASSUME ServerOK
    PROVE  (\A a \in Listing : a \in Attempts) /\ made \in Nat
  BY SizeAssumption DEF ServerOK, Listing, Attempts

\* A server that does nothing loses nothing.
LEMMA RestGrows ==
    ASSUME ServerOK, UNCHANGED server
    PROVE  ServerOK' /\ Grows
<1>1. ServerOK'
  BY DEF ServerOK, server
<1>2. \A a \in Listing : spot[a] <= spot[a]
  BY ListingIsAttempts, Numbers DEF ServerOK
<1> QED BY <1>1, <1>2, ListingIsAttempts DEF Grows, server

\* A new attempt is one more, and the account's.
LEMMA CreatesGrows ==
    ASSUME ServerOK, NEW u \in Actors, Creates(u)
    PROVE  /\ ServerOK'
           /\ Grows
           /\ made' = made + 1
           /\ made' \in Attempts
           /\ owner'[made'] = u
           /\ UNCHANGED <<spot, chosen>>
<1>1. made' = made + 1 /\ made' \in Attempts /\ made' \in 0 .. MaxAttempts
  BY SizeAssumption DEF ServerOK, Creates, Attempts
<1>2. \A a \in Listing : a # made' /\ a \in Attempts
  BY <1>1, SizeAssumption DEF Listing, ServerOK, Attempts
<1>3. ServerOK'
  BY <1>1 DEF ServerOK, Creates
<1>4. \A a \in Listing : owner'[a] = owner[a] /\ state'[a] = state[a]
  BY <1>2, <1>1 DEF ServerOK, Creates
<1>5. \A a \in Listing : spot[a] <= spot'[a]
  BY <1>2, Numbers DEF ServerOK, Creates
<1>6. Grows
  BY <1>1, <1>4, <1>5 DEF Grows, ServerOK
<1> QED BY <1>1, <1>3, <1>6 DEF ServerOK, Creates

\* A write moves its attempt on, or not, and leaves the others.
LEMMA ProcessGrows ==
    ASSUME ServerOK, NEW w \in Writes, Process(w)
    PROVE  /\ ServerOK'
           /\ Grows
           /\ UNCHANGED <<made, owner>>
           /\ \A a \in Attempts \ {w.attempt} : chosen'[a] = chosen[a]
<1> DEFINE a == w.attempt
<1>1. a \in Attempts /\ w.page \in PageNums /\ w.choice \in Choices \union {NoChoice}
  BY DEF Writes
<1>2. chosen' \in [Attempts -> [PageNums -> Choices \union {NoChoice}]]
  BY <1>1 DEF Process, ServerOK
<1>3. spot' \in [Attempts -> PageNums] /\ \A b \in Attempts : spot[b] <= spot'[b]
  <2>1. CASE spot' = spot
    BY <2>1, Numbers DEF ServerOK
  <2>2. CASE spot' # spot
    <3>1. /\ spot' = [spot EXCEPT ![a] = w.page + 1]
          /\ spot[a] = w.page
          /\ w.page + 1 \in PageNums
      BY <2>2, <1>1, SizeAssumption DEF Process, Readable, PageNums
    <3>2. spot' \in [Attempts -> PageNums]
      BY <3>1 DEF ServerOK
    <3>3. ASSUME NEW b \in Attempts PROVE spot[b] <= spot'[b]
      <4>1. spot[b] \in Nat
        BY Numbers DEF ServerOK
      <4> QED BY <3>1, <4>1, <1>1 DEF ServerOK
    <3> QED BY <3>2, <3>3
  <2> QED BY <2>1, <2>2
<1>4. /\ state' \in [Attempts -> {"none", "open", "done"}]
      /\ \A b \in Attempts : state[b] = "done" => state'[b] = "done"
  BY <1>1 DEF Process, ServerOK
<1>5. UNCHANGED <<made, owner>>
  BY DEF Process
<1>6. \A b \in Attempts \ {a} : chosen'[b] = chosen[b]
  BY DEF Process, ServerOK
<1>7. ServerOK'
  BY <1>2, <1>3, <1>4, <1>5 DEF ServerOK
<1>8. Grows
  BY <1>3, <1>4, <1>5, ListingIsAttempts DEF Grows
<1> QED BY <1>5, <1>6, <1>7, <1>8

\* Whatever the server does, what a checkpoint names stays named.
LEMMA NamesKept ==
    ASSUME ServerOK, Grows, ServerOK'
    PROVE  \A f \in Files : Names(f) /\ (f.status = "submitted" => f.attempt # 0) => Names(f)'
<1> SUFFICES ASSUME NEW f \in Files, Names(f), f.status = "submitted" => f.attempt # 0
             PROVE  Names(f)'
  OBVIOUS
<1>1. Listing \subseteq Listing'
  BY DEF Listing, Grows, ServerOK
<1>2. f.attempt # 0 => f.attempt \in Listing
  BY Numbers DEF Names, Listing, Files, ServerOK
<1>3. f.page \in Nat /\ f.attempt \in Nat
  BY Numbers DEF Files
<1>4. \A a \in Listing : spot[a] \in Nat /\ spot'[a] \in Nat /\ spot[a] <= spot'[a]
  BY ListingIsAttempts, Numbers DEF ServerOK, Grows
<1>5. made \in Nat /\ made' \in Nat /\ made <= made'
  BY SizeAssumption DEF ServerOK, Grows
<1> QED BY <1>1, <1>2, <1>3, <1>4, <1>5 DEF Names, Grows

-----------------------------------------------------------------------------
(* Steps of the running command.                                           *)

\* A checkpoint's fields have their types.
LEMMA FileFields ==
    ASSUME TypeOK
    PROVE  /\ ServerOK
           /\ file \in Files /\ old \in Files
           /\ file.actor \in Actors
           /\ file.baseline \subseteq Attempts
           /\ file.attempt # 0 => file.attempt \in Attempts
           /\ file.page # 0 => file.page \in PageNums
           /\ Unresolved(file) \in BOOLEAN
<1>1. file \in Files /\ old \in Files /\ ServerOK
  BY DEF TypeOK, ServerOK
<1> QED BY <1>1 DEF Files, Unresolved

\* When a command has ended there is nothing to restore and nowhere to be.
LEMMA EndedPlace ==
    ASSUME pc' = "idle"
    PROVE  OldInv' /\ PlaceInv'
  BY DEF OldInv, PlaceInv

\* A command that ends with a well-formed checkpoint keeps the types.
LEMMA EndedTypes ==
    ASSUME TypeOK, pc' = "idle", fresh' = 0, old' = Blank(file'.actor), file' \in Files,
           file'.attempt # 0 \/ file'.status \in {"active", "submitted"} =>
              file'.attempt # 0 /\ file'.page # 0,
           ServerOK', late' \subseteq Writes, lost' \in 0 .. MaxLost,
           unseen' \subseteq Attempts, doubt' \subseteq Attempts, touched' \subseteq Attempts
    PROVE  TypeOK'
<1>1. file'.actor \in Actors
  BY DEF Files
<1>2. old' \in Files
  BY <1>1, BlankFile
<1> QED BY <1>2 DEF TypeOK, ServerOK

\* A command that ends, the server as it was, has only its checkpoint, and what is
\* unseen and in doubt, to answer for.
LEMMA EndedKeeps ==
    ASSUME TypeOK, pc' = "idle", fresh' = 0, old' = Blank(file'.actor), file' \in Files,
           UNCHANGED <<server, late, touched>>, lost' \in 0 .. MaxLost,
           unseen' \subseteq unseen, doubt' \subseteq doubt,
           Names(file)', Tells(file)', Confirmed(file)', UnseenInv', DoubtInv'
    PROVE  TypeOK' /\ IInv'
<1>1. ServerOK'
  BY RestGrows, FileFields
<1>2. file'.attempt # 0 \/ file'.status \in {"active", "submitted"} =>
         file'.attempt # 0 /\ file'.page # 0
  BY DEF Names, Tells
<1>3. TypeOK'
  BY <1>1, <1>2, EndedTypes DEF TypeOK
<1> QED BY <1>3, EndedPlace DEF IInv, FileInv

\* Start: the baseline holds every attempt of the account, and nothing is unseen.
LEMMA StartStep ==
    ASSUME TypeOK, IInv, NEW u \in Actors, Start(u)
    PROVE  TypeOK' /\ IInv'
<1> DEFINE f == [Blank(u) EXCEPT !.status = "uncertain", !.op = "start",
                                 !.baseline = Own(u), !.based = TRUE]
<1>1. f \in Files /\ file' = f /\ old' = file /\ pc' = "send"
  <2>1. Own(u) \in SUBSET Attempts
    BY FileFields, ListingIsAttempts DEF Own
  <2> QED BY <2>1, BlankFile DEF Start
<1>2. /\ f.attempt = 0 /\ f.actor = u /\ f.choice = NoChoice /\ f.baseline = Own(u)
      /\ f.status = "uncertain" /\ f.op = "start" /\ f.based = TRUE /\ f.marker = "none"
  BY DEF Blank
<1> HIDE DEF f
<1>3. TypeOK'
  BY <1>1, <1>2 DEF TypeOK, Start, server
<1>4. FileInv'
  BY <1>1, <1>2 DEF FileInv, Names, Tells, Confirmed, Unresolved, Listing, Own, Start, server
<1>5. OldInv'
  BY <1>1 DEF OldInv, IInv, FileInv, Names, Tells, Confirmed, Unresolved, Listing,
              Start, server
<1>6. PlaceInv' /\ UnseenInv'
  <2>1. unseen = {} /\ unseen' = {}
    BY DEF UnseenInv, IInv, Start
  <2> QED BY <1>1, <1>2, <2>1 DEF PlaceInv, UnseenInv
<1>7. DoubtInv'
  BY <1>1, <1>2 DEF DoubtInv, IInv, Unresolved, Listing, Own, Start, server
<1> QED BY <1>3, <1>4, <1>5, <1>6, <1>7 DEF IInv

\* PrepareStart: nothing changes but the place.
LEMMA PrepareStartStep ==
    ASSUME TypeOK, IInv, PrepareStart
    PROVE  TypeOK' /\ IInv'
<1>1. TypeOK'
  BY DEF TypeOK, PrepareStart, server
<1>2. FileInv' /\ OldInv'
  BY DEF FileInv, OldInv, Names, Tells, Confirmed, Unresolved, Listing, IInv,
         PrepareStart, server
<1>3. PlaceInv' /\ UnseenInv' /\ DoubtInv'
  BY DEF PlaceInv, UnseenInv, DoubtInv, Unresolved, Listing, IInv, PrepareStart, server
<1> QED BY <1>1, <1>2, <1>3 DEF IInv

\* StartCreates: the new attempt is the only unseen one, the account's, and neither
\* in the baseline nor in doubt.
LEMMA StartCreatesStep ==
    ASSUME TypeOK, IInv, StartCreates
    PROVE  TypeOK' /\ IInv'
<1>1. /\ ServerOK' /\ Grows /\ UNCHANGED <<spot, chosen>>
      /\ made' = made + 1 /\ made' \in Attempts /\ owner'[made'] = file.actor
  BY FileFields, CreatesGrows DEF StartCreates
<1>2. /\ UNCHANGED <<file, old, late, lost, doubt, touched>>
      /\ pc = "post" /\ pc' = "named" /\ file.op = "start" /\ fresh' = made'
      /\ unseen' = unseen \union {made'}
  BY DEF StartCreates
<1>3. made' \notin Listing /\ made' \in Listing'
  BY <1>1, FileFields, ListingIsAttempts, Numbers DEF Listing
<1>4. file.attempt = 0 /\ unseen = {} /\ file.status = "uncertain"
  BY <1>2 DEF IInv, PlaceInv
<1>5. TypeOK'
  BY <1>1, <1>2 DEF TypeOK, ServerOK
<1>6. FileInv'
  <2>1. Names(file)'
    BY <1>1, <1>2, FileFields, NamesKept DEF IInv, FileInv, Tells, Names
  <2> QED BY <2>1, <1>2, <1>4 DEF IInv, FileInv, Tells, Confirmed, Unresolved
<1>7. OldInv'
  BY <1>2 DEF OldInv
<1>8. PlaceInv'
  BY <1>1, <1>2, <1>3, <1>4 DEF PlaceInv, IInv, FileInv, Names, DoubtInv
<1>9. UnseenInv' /\ DoubtInv'
  <2>1. \A a \in doubt : a \in Listing' /\ owner'[a] = owner[a]
    BY <1>1, FileFields DEF IInv, DoubtInv, Grows, Listing, ServerOK
  <2> QED BY <2>1, <1>2, <1>4 DEF IInv, UnseenInv, DoubtInv, Unresolved
<1> QED BY <1>5, <1>6, <1>7, <1>8, <1>9 DEF IInv

\* StartUnknown: the attempt that may exist is unseen, and the start unresolved.
LEMMA StartUnknownStep ==
    ASSUME TypeOK, IInv, StartUnknown
    PROVE  TypeOK' /\ IInv'
<1>1. /\ file' = file /\ pc = "post" /\ pc' = "idle" /\ fresh' = 0 /\ file.op = "start"
      /\ old' = Blank(file'.actor) /\ UNCHANGED <<late, doubt, touched>>
  BY DEF StartUnknown, EndWith
<1>2. file.attempt = 0 /\ unseen = {} /\ file.status = "uncertain"
  BY <1>1 DEF IInv, PlaceInv
<1>3. /\ ServerOK' /\ Grows /\ UNCHANGED <<spot, chosen>>
      /\ lost' \in 0 .. MaxLost /\ unseen' \subseteq Attempts
  <2>1. CASE /\ lost < MaxLost /\ lost' = lost + 1
             /\ Creates(file.actor) /\ unseen' = unseen \union {made'}
    <3>1. lost' \in 0 .. MaxLost
      BY <2>1, SizeAssumption DEF TypeOK
    <3> QED BY <2>1, <3>1, <1>2, FileFields, CreatesGrows
  <2>2. CASE UNCHANGED <<server, lost, unseen>>
    BY <2>2, FileFields, RestGrows DEF TypeOK, server
  <2> QED BY <2>1, <2>2 DEF StartUnknown
<1>4. TypeOK'
  BY <1>1, <1>2, <1>3, EndedTypes, FileFields DEF TypeOK
<1>5. FileInv'
  <2>1. Names(file)'
    BY <1>1, <1>3, FileFields, NamesKept DEF IInv, FileInv, Tells
  <2> QED BY <2>1, <1>1, <1>2 DEF IInv, FileInv, Tells, Confirmed, Unresolved
<1>6. UnseenInv' /\ DoubtInv'
  <2>1. \A a \in doubt : a \in Listing' /\ owner'[a] = owner[a]
    BY <1>3, FileFields DEF IInv, DoubtInv, Grows, Listing, ServerOK
  <2> QED BY <2>1, <1>1, <1>2 DEF IInv, UnseenInv, DoubtInv, Unresolved
<1> QED BY <1>1, <1>4, <1>5, <1>6, EndedPlace DEF IInv

\* Seal: the checkpoint takes over the attempt that was unseen.
LEMMA SealStep ==
    ASSUME TypeOK, IInv, Seal
    PROVE  TypeOK' /\ IInv'
<1>1. /\ file' = [file EXCEPT !.attempt = fresh, !.page = 1] /\ pc = "named" /\ pc' = "read"
      /\ unseen' = unseen \ {fresh}
      /\ UNCHANGED <<old, fresh, server, late, lost, doubt, touched>>
  BY DEF Seal
<1>2. /\ file.op = "start" /\ file.attempt = 0 /\ file.status = "uncertain"
      /\ fresh \in Listing /\ owner[fresh] = file.actor
      /\ fresh \notin file.baseline /\ fresh \notin doubt /\ unseen = {fresh}
  BY <1>1 DEF IInv, PlaceInv
<1>3. fresh \in Attempts /\ fresh # 0 /\ fresh <= made
  BY <1>2, FileFields, ListingIsAttempts, Numbers DEF Listing
<1>4. 1 \in PageNums /\ spot[fresh] \in Nat /\ spot[fresh] >= 1
  BY <1>3, Numbers, FileFields DEF ServerOK
<1>5. /\ file' \in Files
      /\ file'.attempt = fresh /\ file'.page = 1 /\ file'.status = "uncertain"
      /\ file'.op = "start" /\ file'.actor = file.actor /\ file'.baseline = file.baseline
      /\ file'.choice = file.choice /\ file'.marker = file.marker /\ file'.based = file.based
  <2>1. file' \in Files
    BY <1>1, <1>3, <1>4, FileFields, SealedFile
  <2>2. file \in Files
    BY FileFields
  <2> QED BY <2>1, <2>2, <1>1, <1>2 DEF Files
<1>6. TypeOK'
  BY <1>1, <1>3, <1>4, <1>5 DEF TypeOK, server
<1>7. Names(file)'
  BY <1>1, <1>2, <1>3, <1>4, <1>5 DEF Names, IInv, FileInv, Listing, server
<1>8. Tells(file)' /\ Confirmed(file)'
  BY <1>2, <1>3, <1>5 DEF Tells, Confirmed, IInv, FileInv, Unresolved
<1>9. OldInv' /\ PlaceInv' /\ UnseenInv' /\ DoubtInv'
  BY <1>1, <1>2, <1>3, <1>5
     DEF OldInv, PlaceInv, UnseenInv, DoubtInv, IInv, Listing, server, Unresolved
<1> QED BY <1>6, <1>7, <1>8, <1>9 DEF IInv, FileInv

\* Intend: an active checkpoint leaves nothing in doubt, and is the one to restore.
LEMMA IntendStep ==
    ASSUME TypeOK, IInv, NEW o \in {"answer", "next", "submit"},
           NEW c \in Choices \union {NoChoice}, o # "answer" => c = NoChoice, Intend(o, c)
    PROVE  TypeOK' /\ IInv'
<1>1. /\ file' = [file EXCEPT !.status = "uncertain", !.op = o, !.choice = c]
      /\ pc = "idle" /\ pc' = "send" /\ old' = file /\ file.status = "active"
      /\ UNCHANGED <<fresh, server, late, lost, unseen, doubt, touched>>
  BY DEF Intend, MayWrite
<1>2. file.attempt # 0 /\ file.page # 0 /\ file.attempt \notin doubt /\ ~Unresolved(file)
  BY <1>1 DEF IInv, FileInv, Tells, Confirmed, Unresolved, TypeOK
<1>3. /\ file' \in Files
      /\ file'.attempt = file.attempt /\ file'.page = file.page
      /\ file'.status = "uncertain" /\ file'.op = o /\ file'.choice = c
      /\ file'.actor = file.actor /\ file'.baseline = file.baseline
      /\ file'.marker = file.marker /\ file'.based = file.based
  <2>1. file' \in Files
    BY <1>1, FileFields, IntendedFile
  <2>2. file \in Files
    BY FileFields
  <2> QED BY <2>1, <2>2, <1>1 DEF Files
<1>4. TypeOK'
  BY <1>1, <1>2, <1>3 DEF TypeOK, server
<1>5. Names(file)'
  BY <1>1, <1>3 DEF Names, IInv, FileInv, Listing, server
<1>6. ~Unresolved(file)'
  BY <1>2, <1>3 DEF Unresolved
<1>7. Tells(file)' /\ Confirmed(file)'
  BY <1>1, <1>2, <1>3, <1>6 DEF Tells, Confirmed, IInv, FileInv
<1>8. OldInv'
  BY <1>1, <1>2 DEF OldInv, Names, Tells, Confirmed, IInv, FileInv, Listing, server,
                    Unresolved
<1>9. PlaceInv' /\ UnseenInv' /\ DoubtInv'
  BY <1>1, <1>2, <1>3, <1>6 DEF PlaceInv, UnseenInv, DoubtInv, IInv, Listing, server
<1> QED BY <1>4, <1>5, <1>7, <1>8, <1>9 DEF IInv, FileInv

\* Prepare: nothing changes but the place.
LEMMA PrepareStep ==
    ASSUME TypeOK, IInv, Prepare
    PROVE  TypeOK' /\ IInv'
<1>1. TypeOK'
  BY DEF TypeOK, Prepare, server
<1>2. FileInv' /\ OldInv'
  BY DEF FileInv, OldInv, Names, Tells, Confirmed, Unresolved, Listing, IInv,
         Prepare, server
<1>3. PlaceInv' /\ UnseenInv' /\ DoubtInv'
  BY DEF PlaceInv, UnseenInv, DoubtInv, Unresolved, Listing, IInv, Prepare, server
<1> QED BY <1>1, <1>2, <1>3 DEF IInv

\* RefuseWrite: the checkpoint of before is back, or a start of nothing is dropped.
LEMMA RefuseWriteStep ==
    ASSUME TypeOK, IInv, RefuseWrite
    PROVE  TypeOK' /\ IInv'
<1>1. /\ pc = "send" /\ file.status = "uncertain"
      /\ pc' = "idle" /\ fresh' = 0 /\ old' = Blank(file'.actor)
      /\ UNCHANGED <<server, late, lost, unseen, doubt, touched>>
  BY DEF RefuseWrite, EndWith, IInv, PlaceInv
<1>2. unseen = {}
  BY <1>1 DEF IInv, PlaceInv, UnseenInv, FileInv, Tells, Unresolved
<1>3. CASE old.status # "absent"
  <2>1. file' = old
    BY <1>3 DEF RefuseWrite, EndWith
  <2>2. Names(file)' /\ Tells(file)' /\ Confirmed(file)' /\ ~Unresolved(file)'
    BY <1>1, <2>1 DEF IInv, OldInv, Names, Tells, Confirmed, Unresolved, Listing, server
  <2>3. UnseenInv' /\ DoubtInv'
    BY <1>1, <1>2, <2>2 DEF UnseenInv, DoubtInv, IInv, Listing, server
  <2> QED BY <1>1, <2>1, <2>2, <2>3, EndedKeeps, FileFields DEF TypeOK
<1>4. CASE old.status = "absent"
  <2>1. file' = [file EXCEPT !.status = "abandoned", !.op = "none"]
    BY <1>4 DEF RefuseWrite, EndWith
  <2>2. /\ file' \in Files
        /\ file'.status = "abandoned" /\ file'.attempt = file.attempt
        /\ file'.page = file.page /\ file'.actor = file.actor
        /\ file'.baseline = file.baseline /\ file'.choice = file.choice
        /\ file'.marker = file.marker /\ file'.based = file.based
    <3>1. file \in Files
      BY FileFields
    <3>2. file' \in Files
      BY <2>1, <3>1, DroppedFile
    <3> QED BY <2>1, <3>1, <3>2 DEF Files
  <2>3. ~Unresolved(file)'
    BY <1>1, <2>2 DEF Unresolved, IInv, FileInv, Tells
  <2>4. Names(file)'
    BY <1>1, <2>2 DEF Names, IInv, FileInv, Listing, server
  <2>5. Tells(file)' /\ Confirmed(file)'
    BY <1>1, <2>2, <2>3 DEF Tells, Confirmed, IInv, FileInv
  <2>6. UnseenInv' /\ DoubtInv'
    BY <1>1, <1>2, <2>3 DEF UnseenInv, DoubtInv, IInv, Listing, server
  <2> QED BY <1>1, <2>2, <2>3, <2>4, <2>5, <2>6, EndedKeeps, FileFields DEF TypeOK
<1> QED BY <1>3, <1>4

\* What Post and PostLost send is a write of the checkpoint's attempt.
LEMMA PostSends ==
    ASSUME TypeOK, IInv, pc = "post", file.op # "start"
    PROVE  /\ Sent \in Writes /\ Sent.attempt = file.attempt
           /\ file.attempt \in Listing /\ file.attempt \in Attempts
           /\ file.status = "uncertain" /\ ~Unresolved(file) /\ unseen = {}
<1>1. file.status = "uncertain" /\ file.op # "none" /\ file.attempt # 0
  BY DEF IInv, PlaceInv, FileInv, Tells
<1>2. ~Unresolved(file) /\ unseen = {}
  BY <1>1 DEF IInv, FileInv, Tells, Unresolved, UnseenInv
<1>3. file.attempt \in Attempts /\ file.op \in {"answer", "next", "submit"}
  BY <1>1, FileFields DEF Files
<1>4. file.attempt \in Listing
  BY <1>1, <1>3, FileFields, Numbers, ListingIsAttempts
     DEF Listing, IInv, FileInv, Names, ServerOK
<1>5. Sent \in Writes /\ Sent.attempt = file.attempt
  BY <1>1, <1>3, FileFields, SentWrite DEF Sent, TypeOK
<1> QED BY <1>1, <1>2, <1>3, <1>4, <1>5

\* The server takes a write, or does not.
LEMMA PostGrows ==
    ASSUME TypeOK, IInv, pc = "post", file.op # "start", Process(Sent) \/ UNCHANGED server
    PROVE  ServerOK' /\ Grows /\ UNCHANGED <<made, owner>>
<1>1. CASE Process(Sent)
  BY <1>1, PostSends, FileFields, ProcessGrows
<1>2. CASE UNCHANGED server
  BY <1>2, FileFields, RestGrows DEF server
<1> QED BY <1>1, <1>2

\* Post: the attempt is in doubt until the readback.
LEMMA PostStep ==
    ASSUME TypeOK, IInv, Post
    PROVE  TypeOK' /\ IInv'
<1>1. /\ pc = "post" /\ file.op # "start" /\ pc' = "read"
      /\ doubt' = doubt \union {file.attempt}
      /\ UNCHANGED <<file, old, fresh, late, lost, unseen, touched>>
  BY DEF Post
<1>2. ServerOK' /\ Grows /\ UNCHANGED <<made, owner>>
  BY <1>1, PostGrows DEF Post
<1>3. /\ file.attempt \in Listing /\ file.attempt \in Attempts
      /\ file.status = "uncertain" /\ ~Unresolved(file)
      /\ unseen = {} /\ file.attempt # 0
  BY <1>1, PostSends, Numbers
<1>4. TypeOK'
  BY <1>1, <1>2, <1>3 DEF TypeOK, ServerOK
<1>5. Names(file)'
  BY <1>1, <1>2, FileFields, NamesKept DEF IInv, FileInv, Tells
<1>6. Tells(file)' /\ Confirmed(file)' /\ ~Unresolved(file)'
  BY <1>1, <1>3 DEF Tells, Confirmed, IInv, FileInv, Unresolved
<1>7. OldInv' /\ PlaceInv'
  BY <1>1, <1>3 DEF OldInv, PlaceInv
<1>8. UnseenInv' /\ DoubtInv'
  BY <1>1, <1>2, <1>3, <1>6 DEF UnseenInv, DoubtInv, IInv, Listing
<1> QED BY <1>4, <1>5, <1>6, <1>7, <1>8 DEF IInv, FileInv

\* PostLost: the attempt stays in doubt, the checkpoint uncertain.
LEMMA PostLostStep ==
    ASSUME TypeOK, IInv, PostLost
    PROVE  TypeOK' /\ IInv'
<1>1. /\ pc = "post" /\ file.op # "start" /\ pc' = "idle" /\ fresh' = 0
      /\ doubt' = doubt \union {file.attempt}
      /\ file' = file /\ old' = Blank(file'.actor)
      /\ UNCHANGED <<unseen, touched>>
  BY DEF PostLost, EndWith
<1>2. ServerOK' /\ Grows /\ UNCHANGED <<made, owner>>
  <2>1. Process(Sent) \/ UNCHANGED server
    BY DEF PostLost
  <2> QED BY <1>1, <2>1, PostGrows
<1>3. /\ file.attempt \in Listing /\ file.attempt \in Attempts
      /\ file.status = "uncertain" /\ ~Unresolved(file)
      /\ unseen = {} /\ file.attempt # 0
  BY <1>1, PostSends, Numbers
<1>4. lost' \in 0 .. MaxLost /\ late' \subseteq Writes
  BY <1>1, PostSends, SizeAssumption DEF PostLost, TypeOK
<1>5. TypeOK'
  BY <1>1, <1>2, <1>3, <1>4, EndedTypes, FileFields DEF TypeOK
<1>6. Names(file)'
  BY <1>1, <1>2, FileFields, NamesKept DEF IInv, FileInv, Tells
<1>7. Tells(file)' /\ Confirmed(file)' /\ ~Unresolved(file)'
  BY <1>1, <1>3 DEF Tells, Confirmed, IInv, FileInv, Unresolved
<1>8. UnseenInv' /\ DoubtInv'
  BY <1>1, <1>2, <1>3, <1>7 DEF UnseenInv, DoubtInv, IInv, Listing
<1> QED BY <1>1, <1>5, <1>6, <1>7, <1>8, EndedPlace DEF IInv, FileInv

\* A command that ends with an active checkpoint: what it must have found out.
LEMMA ActiveKeeps ==
    ASSUME TypeOK, IInv, pc' = "idle", fresh' = 0, old' = Blank(file'.actor), file' \in Files,
           UNCHANGED <<server, late, lost, touched>>, unseen' = {}, doubt' \subseteq doubt,
           file'.status = "active", file'.marker # "yes", file'.baseline = file.baseline,
           file'.attempt \in Listing, owner[file'.attempt] = file'.actor,
           file'.attempt \notin file.baseline \union doubt',
           file'.page = spot[file'.attempt],
           file'.choice # NoChoice => chosen[file'.attempt][file'.page] = file'.choice
    PROVE  TypeOK' /\ IInv'
<1>1. /\ file'.attempt \in Attempts /\ file'.attempt # 0 /\ file'.attempt <= made
      /\ spot[file'.attempt] \in Nat /\ spot[file'.attempt] # 0
  BY FileFields, ListingIsAttempts, Numbers DEF Listing, ServerOK
<1>2. Names(file)'
  BY <1>1 DEF Names, IInv, FileInv, Listing, server
<1>3. ~Unresolved(file)'
  BY DEF Unresolved
<1>4. Tells(file)' /\ Confirmed(file)'
  BY <1>1, <1>3 DEF Tells, Confirmed, server
<1>5. UnseenInv' /\ DoubtInv'
  BY <1>3 DEF UnseenInv, DoubtInv, IInv, Listing, server
<1> QED BY <1>2, <1>4, <1>5, EndedKeeps DEF TypeOK

\* A command that ends with a submitted checkpoint: the attempt is complete.
LEMMA SubmittedKeeps ==
    ASSUME TypeOK, IInv, pc' = "idle", fresh' = 0, old' = Blank(file'.actor), file' \in Files,
           UNCHANGED <<server, late, lost, touched>>, unseen' = {}, doubt' \subseteq doubt,
           file'.status = "submitted", file'.marker # "yes",
           file'.baseline = file.baseline, file'.actor = file.actor,
           file'.attempt = file.attempt, file'.page = file.page,
           file.attempt # 0, state[file.attempt] = "done"
    PROVE  TypeOK' /\ IInv'
<1>1. Names(file)'
  BY DEF Names, IInv, FileInv, Listing, server
<1>2. ~Unresolved(file)'
  BY DEF Unresolved
<1>3. Tells(file)' /\ Confirmed(file)'
  BY <1>2 DEF Tells, Confirmed
<1>4. UnseenInv' /\ DoubtInv'
  BY <1>2 DEF UnseenInv, DoubtInv, IInv, Listing, server
<1> QED BY <1>1, <1>3, <1>4, EndedKeeps DEF TypeOK

\* What a checkpoint that names an attempt says of it.
LEMMA NamedAttempt ==
    ASSUME TypeOK, IInv, file.attempt # 0
    PROVE  /\ file.attempt \in Attempts /\ file.attempt \in Listing
           /\ owner[file.attempt] = file.actor /\ file.attempt \notin file.baseline
           /\ spot[file.attempt] \in PageNums /\ unseen = {}
<1>1. file.attempt \in Attempts /\ file.attempt <= made
  BY FileFields DEF IInv, FileInv, Names
<1>2. file.attempt \in Listing
  BY <1>1, FileFields, Numbers, ListingIsAttempts DEF Listing
<1>3. spot[file.attempt] \in PageNums
  BY <1>1, FileFields DEF ServerOK
<1> QED BY <1>1, <1>2, <1>3 DEF IInv, FileInv, Names, UnseenInv

\* The fields an active checkpoint takes over.
LEMMA ActiveFields ==
    ASSUME NEW f \in Files, NEW p \in PageNums
    PROVE  /\ Active(f, p) \in Files
           /\ Active(f, p).status = "active" /\ Active(f, p).page = p
           /\ Active(f, p).attempt = f.attempt /\ Active(f, p).actor = f.actor
           /\ Active(f, p).baseline = f.baseline /\ Active(f, p).choice = f.choice
           /\ Active(f, p).marker = f.marker
  BY ActiveFile DEF Active, Files

\* The fields a submitted checkpoint takes over.
LEMMA SubmittedFields ==
    ASSUME NEW f \in Files
    PROVE  /\ Submitted(f) \in Files
           /\ Submitted(f).status = "submitted" /\ Submitted(f).page = f.page
           /\ Submitted(f).attempt = f.attempt /\ Submitted(f).actor = f.actor
           /\ Submitted(f).baseline = f.baseline /\ Submitted(f).marker = f.marker
  BY SubmittedFile DEF Submitted, Files

\* The fields a checkpoint keeps when its start is resolved.
LEMMA ResolvedFields ==
    ASSUME NEW f \in Files
    PROVE  /\ Resolved(f) \in Files
           /\ Resolved(f).marker = "no" /\ Resolved(f).status = f.status
           /\ Resolved(f).page = f.page /\ Resolved(f).attempt = f.attempt
           /\ Resolved(f).actor = f.actor /\ Resolved(f).baseline = f.baseline
           /\ Resolved(f).choice = f.choice
  BY ResolvedFile DEF Resolved, Files

\* Commit: the readback has shown the page, and the answer, on the server.
LEMMA CommitStep ==
    ASSUME TypeOK, IInv, Commit
    PROVE  TypeOK' /\ IInv'
<1> DEFINE p == IF file.op = "next" THEN file.page + 1 ELSE file.page
<1>1. /\ pc = "read" /\ pc' = "idle" /\ fresh' = 0 /\ old' = Blank(file'.actor)
      /\ file' = Active(file, p) /\ spot[file.attempt] = p
      /\ file.op = "answer" => chosen[file.attempt][p] = file.choice
      /\ doubt' = doubt \ {file.attempt}
      /\ UNCHANGED <<server, late, lost, unseen, touched>>
  BY DEF Commit, EndWith, Readable, Settled, Active
<1> HIDE DEF p
<1>2. file.attempt # 0 /\ file.status = "uncertain"
  BY <1>1 DEF IInv, PlaceInv
<1>3. file.op # "answer" => file.choice = NoChoice
  BY <1>2 DEF IInv, FileInv, Tells
<1>4. file.marker # "yes"
  BY <1>2 DEF IInv, FileInv, Tells
<1>5. p \in PageNums
  BY <1>1, <1>2, NamedAttempt
<1> QED BY <1>1, <1>2, <1>3, <1>4, <1>5, NamedAttempt, ActiveFields, ActiveKeeps, FileFields

\* CommitSubmit: the receipt and the record have shown the attempt complete.
LEMMA CommitSubmitStep ==
    ASSUME TypeOK, IInv, CommitSubmit
    PROVE  TypeOK' /\ IInv'
<1>1. /\ pc = "read" /\ pc' = "idle" /\ fresh' = 0 /\ file' = Submitted(file)
      /\ old' = Blank(file'.actor)
      /\ state[file.attempt] = "done" /\ doubt' = doubt \ {file.attempt}
      /\ UNCHANGED <<server, late, lost, unseen, touched>>
  BY DEF CommitSubmit, EndWith, Settled, Submitted
<1>2. file.attempt # 0 /\ file.status = "uncertain"
  BY <1>1 DEF IInv, PlaceInv
<1>3. file.marker # "yes"
  BY <1>2 DEF IInv, FileInv, Tells
<1> QED BY <1>1, <1>2, <1>3, NamedAttempt, SubmittedFields, SubmittedKeeps, FileFields

\* FoundSubmitted: the attempt was complete already.
LEMMA FoundSubmittedStep ==
    ASSUME TypeOK, IInv, FoundSubmitted
    PROVE  TypeOK' /\ IInv'
<1>1. /\ pc' = "idle" /\ fresh' = 0 /\ file' = Submitted(file)
      /\ old' = Blank(file'.actor) /\ file.status \in {"active", "uncertain"}
      /\ file.attempt # 0 /\ state[file.attempt] = "done" /\ doubt' = doubt \ {file.attempt}
      /\ UNCHANGED <<server, late, lost, unseen, touched>>
  BY DEF FoundSubmitted, EndWith, Settled, Submitted
<1>2. file.marker # "yes"
  BY <1>1 DEF IInv, FileInv, Tells
<1> QED BY <1>1, <1>2, NamedAttempt, SubmittedFields, SubmittedKeeps, FileFields

\* Recover: the page reads back, with the answer that was meant.
LEMMA RecoverStep ==
    ASSUME TypeOK, IInv, Recover
    PROVE  TypeOK' /\ IInv'
<1>1. /\ pc' = "idle" /\ fresh' = 0 /\ file' = Active(file, file.page)
      /\ old' = Blank(file'.actor) /\ file.status = "uncertain" /\ file.attempt # 0
      /\ spot[file.attempt] = file.page
      /\ file.op = "answer" => chosen[file.attempt][file.page] = file.choice
      /\ doubt' = doubt \ {file.attempt}
      /\ UNCHANGED <<server, late, lost, unseen, touched>>
  BY DEF Recover, EndWith, Settled, Readable
<1>2. file.op # "answer" => file.choice = NoChoice
  BY <1>1 DEF IInv, FileInv, Tells
<1>3. file.marker # "yes" /\ file.page \in PageNums
  BY <1>1, NamedAttempt DEF IInv, FileInv, Tells
<1> QED BY <1>1, <1>2, <1>3, NamedAttempt, ActiveFields, ActiveKeeps, FileFields

\* A readback that fails, and a command that is killed, leave the checkpoint.
LEMMA StopStep ==
    ASSUME TypeOK, IInv, ReadFails \/ Killed
    PROVE  TypeOK' /\ IInv'
<1>1. /\ pc' = "idle" /\ fresh' = 0 /\ file' = file /\ old' = Blank(file'.actor)
      /\ UNCHANGED <<server, late, unseen, doubt, touched>>
  BY DEF ReadFails, Killed, EndWith
<1>2. lost' \in 0 .. MaxLost
  BY SizeAssumption DEF ReadFails, Killed, TypeOK
<1>3. Names(file)' /\ Tells(file)' /\ Confirmed(file)'
  BY <1>1 DEF IInv, FileInv, Names, Tells, Confirmed, Unresolved, Listing, server
<1>4. UnseenInv' /\ DoubtInv'
  BY <1>1 DEF IInv, UnseenInv, DoubtInv, Unresolved, Listing, server
<1> QED BY <1>1, <1>2, <1>3, <1>4, EndedKeeps, FileFields

-----------------------------------------------------------------------------
(* Steps that settle what is in doubt, and steps of others.                *)

\* Abandon: the marker keeps what the start left open.
LEMMA AbandonStep ==
    ASSUME TypeOK, IInv, Abandon
    PROVE  TypeOK' /\ IInv'
<1> DEFINE m == IF Unresolved(file) THEN "yes" ELSE "no"
<1>1. /\ pc' = "idle" /\ fresh' = 0 /\ old' = Blank(file'.actor)
      /\ file' = [file EXCEPT !.status = "abandoned", !.op = "none", !.marker = m]
      /\ UNCHANGED <<server, late, lost, unseen, doubt, touched>>
  BY DEF Abandon, EndWith
<1>2. m \in {"yes", "no"} /\ (m = "yes" <=> Unresolved(file))
  OBVIOUS
<1> HIDE DEF m
<1>3. /\ file' \in Files
      /\ file'.status = "abandoned" /\ file'.op = "none" /\ file'.marker = m
      /\ file'.attempt = file.attempt /\ file'.page = file.page
      /\ file'.actor = file.actor /\ file'.baseline = file.baseline
      /\ file'.choice = file.choice
  <2>1. file \in Files
    BY FileFields
  <2>2. file' \in Files
    BY <1>1, <1>2, <2>1, AbandonedFile
  <2> QED BY <1>1, <2>1, <2>2 DEF Files
<1>4. Unresolved(file)' <=> Unresolved(file)
  BY <1>2, <1>3 DEF Unresolved
<1>5. Names(file)'
  BY <1>1, <1>3 DEF Names, IInv, FileInv, Listing, server
<1>6. Tells(file)' /\ Confirmed(file)'
  BY <1>3, <1>4 DEF Tells, Confirmed, IInv, FileInv
<1>7. UnseenInv' /\ DoubtInv'
  BY <1>1, <1>3, <1>4 DEF UnseenInv, DoubtInv, IInv, Listing, server
<1> QED BY <1>1, <1>3, <1>5, <1>6, <1>7, EndedKeeps, FileFields DEF TypeOK

\* ReconcileBound: the attempt is complete, or resumed where the server has it; an
\* unresolved start leaves no write in doubt.
LEMMA ReconcileBoundStep ==
    ASSUME TypeOK, IInv, ReconcileBound
    PROVE  TypeOK' /\ IInv'
<1>1. /\ Unresolved(file) /\ file.attempt # 0
      /\ pc' = "idle" /\ fresh' = 0 /\ old' = Blank(file'.actor)
      /\ UNCHANGED <<server, late, lost, unseen, doubt, touched>>
  BY DEF ReconcileBound, Reconciles, EndWith
<1>2. /\ file \in Files /\ spot[file.attempt] \in PageNums
      /\ file.choice = NoChoice /\ file.attempt \notin doubt
  BY <1>1, NamedAttempt, FileFields DEF IInv, FileInv, Tells, DoubtInv
<1>3. CASE state[file.attempt] = "done"
  <2>1. file' = Resolved(Submitted(file))
    BY <1>3 DEF ReconcileBound, EndWith
  <2> QED BY <1>1, <1>2, <1>3, <2>1, NamedAttempt, SubmittedFields, ResolvedFields,
             SubmittedKeeps
<1>4. CASE state[file.attempt] # "done"
  <2>1. file' = Resolved(Active(file, spot[file.attempt]))
    BY <1>4 DEF ReconcileBound, EndWith, ServerPage
  <2> QED BY <1>1, <1>2, <2>1, NamedAttempt, ActiveFields, ResolvedFields, ActiveKeeps
<1> QED BY <1>3, <1>4

\* ReconcileBind: a candidate is the account's, not of before, and so not in doubt.
LEMMA ReconcileBindStep ==
    ASSUME TypeOK, IInv, NEW a \in Attempts, ReconcileBind(a)
    PROVE  TypeOK' /\ IInv'
<1> DEFINE f == Active(file, spot[a])
           g == [f EXCEPT !.attempt = a]
<1>1. /\ Unresolved(file) /\ file.attempt = 0
      /\ a \in Listing /\ owner[a] = file.actor /\ a \notin file.baseline
      /\ pc' = "idle" /\ fresh' = 0 /\ old' = Blank(file'.actor)
      /\ file' = Resolved(g)
      /\ unseen' = {} /\ UNCHANGED <<server, late, lost, doubt, touched>>
  BY DEF ReconcileBind, Reconciles, EndWith, Candidates, Own, ServerPage
<1>2. file \in Files /\ spot[a] \in PageNums
  BY FileFields DEF ServerOK
<1>3. /\ g \in Files /\ g.attempt = a
      /\ g.status = "active" /\ g.page = spot[a] /\ g.actor = file.actor
      /\ g.baseline = file.baseline /\ g.choice = file.choice
  <2>1. f \in Files
    BY <1>2, ActiveFields
  <2>2. g \in Files
    BY <1>2, BoundFile
  <2>3. /\ g.attempt = a /\ g.status = f.status /\ g.page = f.page /\ g.actor = f.actor
        /\ g.baseline = f.baseline /\ g.choice = f.choice
    BY <2>1, <2>2 DEF Files
  <2> QED BY <1>2, <2>2, <2>3, ActiveFields
<1> HIDE DEF g, f
<1>4. file.choice = NoChoice /\ a \notin doubt
  BY <1>1 DEF IInv, FileInv, Tells, DoubtInv
<1> QED BY <1>1, <1>2, <1>3, <1>4, ResolvedFields, ActiveKeeps

\* ReconcileNone: the operator accounts for what the start may have left.
LEMMA ReconcileNoneStep ==
    ASSUME TypeOK, IInv, ReconcileNone
    PROVE  TypeOK' /\ IInv'
<1> DEFINE f == [file EXCEPT !.status = "abandoned", !.op = "none"]
<1>1. /\ file.attempt = 0 /\ file' = Resolved(f)
      /\ pc' = "idle" /\ fresh' = 0 /\ old' = Blank(file'.actor)
      /\ unseen' = {} /\ UNCHANGED <<server, late, lost, doubt, touched>>
  BY DEF ReconcileNone, EndWith
<1>2. /\ f \in Files /\ f.status = "abandoned" /\ f.attempt = file.attempt
      /\ f.page = file.page /\ f.actor = file.actor /\ f.baseline = file.baseline
  <2>1. file \in Files
    BY FileFields
  <2>2. f \in Files
    BY <2>1, DroppedFile
  <2> QED BY <2>1, <2>2 DEF Files
<1> HIDE DEF f
<1>3. /\ file' \in Files /\ file'.marker = "no" /\ file'.status = "abandoned"
      /\ file'.attempt = 0 /\ file'.baseline = file.baseline
  BY <1>1, <1>2, ResolvedFields
<1>4. ~Unresolved(file)'
  BY <1>3 DEF Unresolved
<1>5. Names(file)'
  BY <1>1, <1>3 DEF Names, IInv, FileInv, Listing, server
<1>6. Tells(file)' /\ Confirmed(file)'
  BY <1>3, <1>4 DEF Tells, Confirmed
<1>7. UnseenInv' /\ DoubtInv'
  BY <1>1, <1>4 DEF UnseenInv, DoubtInv, IInv, Listing, server
<1> QED BY <1>1, <1>3, <1>5, <1>6, <1>7, EndedKeeps, FileFields DEF TypeOK

\* What the server does of itself touches the attempts it changes, and leaves the
\* checkpoint's promises.
LEMMA OthersKeep ==
    ASSUME TypeOK, IInv, ServerOK', Grows, late' \subseteq Writes,
           UNCHANGED <<file, local, lost, unseen, doubt>>,
           touched \subseteq touched', touched' \subseteq Attempts,
           \A a \in Attempts \ touched' : chosen'[a] = chosen[a]
    PROVE  TypeOK' /\ IInv'
<1>1. TypeOK'
  BY DEF TypeOK, ServerOK, local
<1>2. \A a \in Listing : a \in Attempts /\ a \in Listing' /\ owner'[a] = owner[a]
  BY FileFields, ListingIsAttempts DEF Grows, Listing, ServerOK
<1>3. FileInv'
  <2>1. Names(file)'
    BY FileFields, NamesKept DEF IInv, FileInv, Tells
  <2>2. Tells(file)'
    BY DEF IInv, FileInv, Tells, Unresolved
  <2>3. Confirmed(file)'
    BY NamedAttempt DEF IInv, FileInv, Confirmed, Tells
  <2> QED BY <2>1, <2>2, <2>3 DEF FileInv
<1>4. OldInv'
  <2> SUFFICES ASSUME pc = "send"
               PROVE  Names(old)' /\ Tells(old)' /\ Confirmed(old)' /\ ~Unresolved(old)'
    BY DEF OldInv, local
  <2>1. Names(old) /\ Tells(old) /\ Confirmed(old) /\ ~Unresolved(old) /\ old' = old
    BY DEF IInv, OldInv, local
  <2>2. Names(old)'
    BY <2>1, FileFields, NamesKept DEF Tells
  <2>3. Tells(old)' /\ ~Unresolved(old)'
    BY <2>1 DEF Tells, Unresolved
  <2>4. old.attempt # 0 => old.attempt \in Attempts
    BY FileFields DEF Files
  <2>5. Confirmed(old)'
    BY <2>1, <2>4 DEF Confirmed, Tells
  <2> QED BY <2>2, <2>3, <2>5
<1>5. PlaceInv'
  BY <1>2 DEF IInv, PlaceInv, local
<1>6. UnseenInv' /\ DoubtInv'
  BY <1>2 DEF IInv, UnseenInv, DoubtInv, Unresolved
<1> QED BY <1>1, <1>3, <1>4, <1>5, <1>6 DEF IInv

\* Deliver: a write that was under way for long touches its attempt.
LEMMA DeliverStep ==
    ASSUME TypeOK, IInv, Deliver
    PROVE  TypeOK' /\ IInv'
<1>1. PICK w \in late : Process(w) /\ late' = late \ {w}
  BY DEF Deliver
<1>2. w \in Writes /\ late' \subseteq Writes /\ late \ late' = {w}
  BY <1>1 DEF TypeOK
<1>3. touched' = touched \union {w.attempt}
  BY <1>2 DEF Deliver
<1>4. w.attempt \in Attempts
  BY <1>2 DEF Writes
<1>5. UNCHANGED <<file, local, lost, unseen, doubt>>
  BY DEF Deliver
<1>6. ServerOK' /\ Grows /\ \A a \in Attempts \ {w.attempt} : chosen'[a] = chosen[a]
  BY <1>1, <1>2, FileFields, ProcessGrows
<1> QED BY <1>2, <1>3, <1>4, <1>5, <1>6, OthersKeep DEF TypeOK

\* BrowserStarts: an attempt more, unlike any the checkpoint names.
LEMMA BrowserStartsStep ==
    ASSUME TypeOK, IInv, NEW u \in Actors, BrowserStarts(u)
    PROVE  TypeOK' /\ IInv'
<1>1. UNCHANGED <<file, local, late, lost, unseen, doubt, touched>>
  BY DEF BrowserStarts
<1>2. ServerOK' /\ Grows /\ UNCHANGED chosen
  BY FileFields, CreatesGrows DEF BrowserStarts
<1> QED BY <1>1, <1>2, OthersKeep DEF TypeOK

\* BrowserWrites: the write touches its attempt.
LEMMA BrowserWritesStep ==
    ASSUME TypeOK, IInv, NEW w \in Writes, BrowserWrites(w)
    PROVE  TypeOK' /\ IInv'
<1>1. /\ touched' = touched \union {w.attempt} /\ w.attempt \in Attempts
      /\ UNCHANGED <<file, local, late, lost, unseen, doubt>>
  BY DEF BrowserWrites, Writes
<1>2. ServerOK' /\ Grows /\ \A a \in Attempts \ {w.attempt} : chosen'[a] = chosen[a]
  BY FileFields, ProcessGrows DEF BrowserWrites
<1> QED BY <1>1, <1>2, OthersKeep DEF TypeOK

-----------------------------------------------------------------------------
(* The theorems.                                                           *)

\* No checkpoint, or an abandoned one of an earlier version, is fine to begin with.
LEMMA InitHolds == Init => TypeOK /\ IInv
<1> SUFFICES ASSUME Init PROVE TypeOK /\ IInv
  OBVIOUS
<1>1. PICK u \in Actors, legacy \in BOOLEAN, hidden \in 0 .. 1 :
         /\ hidden <= MaxAttempts /\ (legacy \/ hidden = 0)
         /\ file = [Blank(u) EXCEPT !.status = IF legacy THEN "abandoned" ELSE "absent"]
         /\ old = Blank(u) /\ owner = [a \in Attempts |-> u]
         /\ made = hidden /\ unseen = 1 .. hidden
  BY DEF Init
<1>2. /\ state = [a \in Attempts |-> IF a <= made THEN "open" ELSE "none"]
      /\ spot = [a \in Attempts |-> 1]
      /\ chosen = [a \in Attempts |-> [g \in PageNums |-> NoChoice]]
      /\ pc = "idle" /\ fresh = 0 /\ late = {} /\ lost = 0 /\ doubt = {} /\ touched = {}
  BY DEF Init
<1>3. /\ file.status = IF legacy THEN "abandoned" ELSE "absent"
      /\ file.op = "none" /\ file.attempt = 0 /\ file.choice = NoChoice
      /\ file.marker = "none" /\ file.baseline = {} /\ file.based = FALSE
      /\ file \in Files /\ old \in Files
  <2>1. 0 \in Attempts \union {0} /\ 0 \in PageNums \union {0}
    OBVIOUS
  <2> QED BY <1>1, <2>1 DEF Blank, Files
<1>4. ServerOK
  BY <1>1, <1>2, Numbers, SizeAssumption DEF ServerOK
<1>5. unseen \subseteq Attempts /\ 0 \in 0 .. MaxLost
  BY <1>1, SizeAssumption DEF Attempts
<1>6. TypeOK
  BY <1>2, <1>3, <1>4, <1>5 DEF TypeOK, ServerOK
<1>7. FileInv /\ OldInv /\ PlaceInv
  BY <1>2, <1>3 DEF FileInv, Names, Tells, Confirmed, OldInv, PlaceInv, Unresolved
<1>8. ~legacy => unseen = {}
  BY <1>1
<1>9. UnseenInv /\ DoubtInv
  BY <1>2, <1>3, <1>8 DEF UnseenInv, DoubtInv, Unresolved
<1> QED BY <1>6, <1>7, <1>9 DEF IInv

\* A command's first step.
LEMMA CommandStep == TypeOK /\ IInv /\ Command => TypeOK' /\ IInv'
<1> SUFFICES ASSUME TypeOK, IInv, Command PROVE TypeOK' /\ IInv'
  OBVIOUS
<1>1. CASE \E u \in Actors : Start(u)
  BY <1>1, StartStep
<1>2. CASE \E c \in Choices : Intend("answer", c)
  BY <1>2, IntendStep
<1>3. CASE Intend("next", NoChoice)
  BY <1>3, IntendStep
<1>4. CASE Intend("submit", NoChoice)
  BY <1>4, IntendStep
<1>5. CASE FoundSubmitted
  BY <1>5, FoundSubmittedStep
<1>6. CASE Recover
  BY <1>6, RecoverStep
<1>7. CASE Abandon
  BY <1>7, AbandonStep
<1>8. CASE ReconcileBound
  BY <1>8, ReconcileBoundStep
<1>9. CASE ReconcileNone
  BY <1>9, ReconcileNoneStep
<1>10. CASE \E a \in Attempts : ReconcileBind(a)
  BY <1>10, ReconcileBindStep
<1> QED BY <1>1, <1>2, <1>3, <1>4, <1>5, <1>6, <1>7, <1>8, <1>9, <1>10 DEF Command

\* A step of the running command.
LEMMA RequestStep == TypeOK /\ IInv /\ Request => TypeOK' /\ IInv'
<1> SUFFICES ASSUME TypeOK, IInv, Request PROVE TypeOK' /\ IInv'
  OBVIOUS
<1>1. CASE PrepareStart
  BY <1>1, PrepareStartStep
<1>2. CASE StartCreates
  BY <1>2, StartCreatesStep
<1>3. CASE StartUnknown
  BY <1>3, StartUnknownStep
<1>4. CASE Seal
  BY <1>4, SealStep
<1>5. CASE Prepare
  BY <1>5, PrepareStep
<1>6. CASE RefuseWrite
  BY <1>6, RefuseWriteStep
<1>7. CASE Post
  BY <1>7, PostStep
<1>8. CASE PostLost
  BY <1>8, PostLostStep
<1>9. CASE Commit
  BY <1>9, CommitStep
<1>10. CASE CommitSubmit
  BY <1>10, CommitSubmitStep
<1>11. CASE ReadFails \/ Killed
  BY <1>11, StopStep
<1> QED
  BY <1>1, <1>2, <1>3, <1>4, <1>5, <1>6, <1>7, <1>8, <1>9, <1>10, <1>11 DEF Request

\* Every step keeps the types and the inductive invariant.
LEMMA NextHolds == TypeOK /\ IInv /\ [Next]_vars => TypeOK' /\ IInv'
<1> SUFFICES ASSUME TypeOK, IInv, [Next]_vars PROVE TypeOK' /\ IInv'
  OBVIOUS
<1>1. CASE Command
  BY <1>1, CommandStep
<1>2. CASE Request
  BY <1>2, RequestStep
<1>3. CASE Deliver
  BY <1>3, DeliverStep
<1>4. CASE \E u \in Actors : BrowserStarts(u)
  BY <1>4, BrowserStartsStep
<1>5. CASE \E w \in Writes : BrowserWrites(w)
  BY <1>5, BrowserWritesStep
<1>6. CASE UNCHANGED vars
  <2>1. UNCHANGED <<file, local, server, late, lost, unseen, doubt, touched>>
    BY <1>6 DEF vars
  <2>2. ServerOK' /\ Grows /\ UNCHANGED chosen
    BY <2>1, FileFields, RestGrows DEF server
  <2> QED BY <2>1, <2>2, OthersKeep DEF TypeOK
<1> QED BY <1>1, <1>2, <1>3, <1>4, <1>5, <1>6 DEF Next, Environment

\* The variables keep their types, and the inductive invariant holds always.
THEOREM Invariance == Spec => [](TypeOK /\ IInv)
<1> QED BY InitHolds, NextHolds, PTL DEF Spec

\* A start is sent only when every attempt an earlier start has created was named
\* in the checkpoint or accounted for: neither a lost reply, nor a killed command,
\* nor abandoning in between lets a second preview be created in ignorance.
THEOREM StartsKnowing == Spec => []NoStartInDoubt
<1>1. TypeOK /\ IInv => NoStartInDoubt
  BY DEF IInv, PlaceInv, NoStartInDoubt
<1> QED BY <1>1, Invariance, PTL

\* A write is sent only when the outcome of every earlier one to its attempt is known.
THEOREM WritesKnowing == Spec => []NoWriteInDoubt
<1>1. TypeOK /\ IInv => NoWriteInDoubt
  BY DEF IInv, PlaceInv, NoWriteInDoubt
<1> QED BY <1>1, Invariance, PTL

\* The answer a checkpoint has confirmed is the server's, until someone else
\* touches the attempt.
THEOREM AnswersHold == Spec => []ConfirmedAnswerHolds
<1>1. TypeOK /\ IInv => ConfirmedAnswerHolds
  BY DEF IInv, FileInv, Confirmed, ConfirmedAnswerHolds
<1> QED BY <1>1, Invariance, PTL

\* The cursor never gets ahead of the server's, whoever turns the pages.
THEOREM CursorBehind == Spec => []CursorNeverAhead
<1>1. TypeOK /\ IInv => CursorNeverAhead
  BY DEF IInv, FileInv, Names, CursorNeverAhead
<1> QED BY <1>1, Invariance, PTL

\* What a checkpoint calls submitted is complete on the server.
THEOREM SubmittedHolds == Spec => []SubmittedIsVerified
<1>1. TypeOK /\ IInv => SubmittedIsVerified
  BY DEF IInv, FileInv, Names, SubmittedIsVerified
<1> QED BY <1>1, Invariance, PTL

\* The attempt a checkpoint names is its account's, and not one of before its start,
\* though the operator picks it from a list and others start attempts meanwhile.
THEOREM BindsItsOwn == Spec => []NeverAnOlderAttempt
<1>1. TypeOK /\ IInv => NeverAnOlderAttempt
  BY DEF IInv, FileInv, Names, NeverAnOlderAttempt
<1> QED BY <1>1, Invariance, PTL

-----------------------------------------------------------------------------
(* WriteLedger.                                                            *)

\* What the entry is, by what the checkpoint says.
LEMMA EntryIs ==
    /\ file.status = "uncertain" => EntryOf = "pending" /\ AboutOf = file.attempt
    /\ file.status = "active" => EntryOf = "clear" /\ AboutOf = file.attempt
    /\ file.status \notin {"uncertain", "active"} => EntryOf = "blank" /\ AboutOf = 0
  BY DEF EntryOf, AboutOf

\* So after a step.
LEMMA EntryNext ==
    /\ file'.status = "uncertain" => EntryOf' = "pending" /\ AboutOf' = file'.attempt
    /\ file'.status = "active" => EntryOf' = "clear" /\ AboutOf' = file'.attempt
    /\ file'.status \notin {"uncertain", "active"} => EntryOf' = "blank" /\ AboutOf' = 0
  BY DEF EntryOf, AboutOf

\* An attempt is in doubt as it is, and none while a start is.
LEMMA DoubtIs ==
    ASSUME TypeOK
    PROVE  /\ 0 \notin Attempts
           /\ \A a \in Attempts : a \in DoubtOf <=> a \in doubt
           /\ 0 \in DoubtOf <=> unseen # {}
<1>1. 0 \notin Attempts
  BY SizeAssumption DEF Attempts
<1>2. doubt \subseteq Attempts
  BY DEF TypeOK
<1>3. CASE unseen = {}
  BY <1>1, <1>2, <1>3 DEF DoubtOf
<1>4. CASE unseen # {}
  BY <1>1, <1>2, <1>4 DEF DoubtOf
<1> QED BY <1>1, <1>3, <1>4

\* Before anything is sent, a start goes back to no attempt, a write to its own.
BeforeInv ==
    pc = "send" =>
        IF file.op = "start" THEN old.status \notin {"active", "uncertain"}
        ELSE old.status = "active" /\ old.attempt = file.attempt

\* Only an intent takes a command there.
LEMMA BeforeStep ==
    ASSUME TypeOK, IInv, BeforeInv, [Next]_vars
    PROVE  BeforeInv'
<1>1. CASE \E u \in Actors : Start(u)
  <2> PICK u \in Actors : Start(u)
    BY <1>1
  <2>1. /\ old' = file /\ file.status \in {"absent", "submitted", "abandoned"}
        /\ file' = [Blank(u) EXCEPT !.status = "uncertain", !.op = "start",
                                    !.baseline = Own(u), !.based = TRUE]
    BY DEF Start
  <2>2. file'.op = "start"
    BY <2>1 DEF Blank
  <2> QED BY <2>1, <2>2 DEF BeforeInv
<1>2. ASSUME NEW o \in {"answer", "next", "submit"}, NEW c \in Choices \union {NoChoice},
             Intend(o, c)
      PROVE  BeforeInv'
  <2>1. /\ old' = file /\ file.status = "active" /\ file \in Files
        /\ file' = [file EXCEPT !.status = "uncertain", !.op = o, !.choice = c]
    BY <1>2, FileFields DEF Intend, MayWrite
  <2>2. file'.op = o /\ file'.attempt = file.attempt
    BY <2>1 DEF Files
  <2> QED BY <2>1, <2>2 DEF BeforeInv
<1>3. CASE \/ FoundSubmitted \/ Recover \/ Abandon \/ ReconcileBound \/ ReconcileNone
           \/ \E a \in Attempts : ReconcileBind(a)
  BY <1>3 DEF FoundSubmitted, Recover, Abandon, ReconcileBound, ReconcileNone, ReconcileBind,
              EndWith, BeforeInv
<1>4. CASE Request
  BY <1>4 DEF Request, PrepareStart, StartCreates, StartUnknown, Seal, Prepare, RefuseWrite,
              Post, PostLost, Commit, CommitSubmit, ReadFails, Killed, EndWith, BeforeInv
<1>5. CASE Environment \/ UNCHANGED vars
  BY <1>5 DEF Environment, Deliver, BrowserStarts, BrowserWrites, vars, local, BeforeInv
<1> QED BY <1>1, <1>2, <1>3, <1>4, <1>5 DEF Next, Command

\* A start and a write are intended with nothing in doubt.
LEMMA IntendLedger ==
    ASSUME TypeOK, TypeOK', IInv, Command, pc' = "send"
    PROVE  Ledger!LedgerNext
<1>1. ASSUME NEW u \in Actors, Start(u)
      PROVE  Ledger!Intend
  <2>1. /\ file.status \notin {"uncertain", "active"} /\ ~Unresolved(file)
        /\ file' = [Blank(u) EXCEPT !.status = "uncertain", !.op = "start",
                                    !.baseline = Own(u), !.based = TRUE]
        /\ UNCHANGED <<unseen, doubt>>
    BY <1>1 DEF Start
  <2>2. file'.status = "uncertain" /\ file'.attempt = 0
    BY <2>1 DEF Blank
  <2>3. unseen = {}
    BY <2>1 DEF IInv, UnseenInv
  <2>4. 0 \notin DoubtOf /\ UNCHANGED DoubtOf
    BY <2>1, <2>3, DoubtIs DEF DoubtOf
  <2> QED BY <2>1, <2>2, <2>4, EntryIs, EntryNext DEF Ledger!Intend
<1>2. ASSUME NEW o \in {"answer", "next", "submit"}, NEW c \in Choices \union {NoChoice},
             Intend(o, c)
      PROVE  Ledger!Intend
  <2>1. /\ file.status = "active" /\ file \in Files
        /\ file' = [file EXCEPT !.status = "uncertain", !.op = o, !.choice = c]
        /\ UNCHANGED <<unseen, doubt>>
    BY <1>2, FileFields DEF Intend, MayWrite
  <2>2. file'.status = "uncertain" /\ file'.attempt = file.attempt
    BY <2>1 DEF Files
  <2>3. file.attempt \in Attempts /\ file.attempt \notin doubt
    BY <2>1, FileFields DEF IInv, FileInv, Tells, Confirmed
  <2>4. file.attempt \notin DoubtOf /\ UNCHANGED DoubtOf
    BY <2>1, <2>3, DoubtIs DEF DoubtOf
  <2> QED BY <2>1, <2>2, <2>4, EntryIs, EntryNext DEF Ledger!Intend
<1>3. (\E u \in Actors : Start(u)) \/ (\E c \in Choices : Intend("answer", c))
      \/ Intend("next", NoChoice) \/ Intend("submit", NoChoice)
  BY DEF Command, FoundSubmitted, Recover, Abandon, ReconcileBound, ReconcileNone,
         ReconcileBind, EndWith
<1> QED BY <1>1, <1>2, <1>3 DEF Ledger!LedgerNext

\* A reply that creates an attempt, and a write, are sent with nothing in doubt.
LEMMA SendLedger ==
    ASSUME TypeOK, IInv, pc = "post", pc' \notin {"send", "post"}, UNCHANGED file,
           \/ file.op = "start" /\ unseen' # {} /\ UNCHANGED doubt
           \/ file.op # "start" /\ doubt' = doubt \union {file.attempt} /\ UNCHANGED unseen
    PROVE  Ledger!LedgerNext
<1>1. file.status = "uncertain"
  BY DEF IInv, PlaceInv
<1>2. EntryOf = "pending" /\ AboutOf = file.attempt /\ UNCHANGED <<EntryOf, AboutOf>>
  BY <1>1, EntryIs, EntryNext
<1>3. DoubtOf' = DoubtOf \union {file.attempt}
  <2>1. CASE file.op = "start" /\ unseen' # {} /\ UNCHANGED doubt
    <3>1. file.attempt = 0 /\ unseen = {}
      BY <2>1 DEF IInv, PlaceInv
    <3> QED BY <2>1, <3>1 DEF DoubtOf
  <2>2. CASE doubt' = doubt \union {file.attempt} /\ UNCHANGED unseen
    BY <2>2 DEF DoubtOf
  <2> QED BY <2>1, <2>2
<1>4. Ledger!Send
  BY <1>2, <1>3 DEF Ledger!Send
<1> QED BY <1>4 DEF Ledger!LedgerNext

\* The attempt a start created is named in the checkpoint.
LEMMA SealLedger ==
    ASSUME TypeOK, IInv, Seal
    PROVE  Ledger!LedgerNext
<1>1. /\ pc = "named" /\ pc' = "read" /\ file \in Files
      /\ file' = [file EXCEPT !.attempt = fresh, !.page = 1]
      /\ unseen' = unseen \ {fresh} /\ UNCHANGED doubt
  BY FileFields DEF Seal
<1>2. /\ file.status = "uncertain" /\ file.attempt = 0
      /\ fresh \in Listing /\ unseen = {fresh}
  BY <1>1 DEF IInv, PlaceInv
<1>3. file'.status = "uncertain" /\ file'.attempt = fresh
  BY <1>1, <1>2 DEF Files
<1>4. fresh \in Attempts
  BY <1>2, DoubtIs DEF TypeOK
<1>5. DoubtOf' = DoubtOf \ {0}
  <2>1. unseen' = {} /\ 0 \notin doubt
    BY <1>1, <1>2, DoubtIs DEF TypeOK
  <2> QED BY <1>1, <1>2, <2>1 DEF DoubtOf
<1>6. Ledger!Name(fresh)
  BY <1>1, <1>2, <1>3, <1>5, EntryIs, EntryNext DEF Ledger!Name
<1> QED BY <1>4, <1>6 DEF Ledger!LedgerNext

\* A write or a start that sent nothing is withdrawn.
LEMMA RefuseLedger ==
    ASSUME TypeOK, IInv, BeforeInv, RefuseWrite
    PROVE  Ledger!LedgerNext
<1>1. /\ pc = "send" /\ pc' = "idle" /\ file \in Files
      /\ file' = IF old.status # "absent" THEN old
                 ELSE [file EXCEPT !.status = "abandoned", !.op = "none"]
      /\ UNCHANGED <<unseen, doubt, DoubtOf>>
  BY FileFields DEF RefuseWrite, EndWith, DoubtOf
<1>2. file.status = "uncertain"
  BY <1>1 DEF IInv, PlaceInv
<1>3. CASE file.op = "start"
  <2>1. file'.status \notin {"uncertain", "active"}
    BY <1>1, <1>3 DEF BeforeInv, Files
  <2>2. Ledger!Forget
    BY <1>1, <2>1, EntryNext DEF Ledger!Forget
  <2> QED BY <2>2 DEF Ledger!LedgerNext
<1>4. CASE file.op # "start"
  <2>1. file' = old /\ old.status = "active" /\ old.attempt = file.attempt
    BY <1>1, <1>4 DEF BeforeInv
  <2>2. file.attempt \in Attempts /\ file.attempt \notin doubt
    BY <1>1, <1>2, <1>4, FileFields DEF IInv, PlaceInv, FileInv, Tells
  <2>3. file.attempt \notin DoubtOf
    BY <2>2, DoubtIs
  <2>4. Ledger!Withdraw(file.attempt)
    BY <1>1, <1>2, <2>1, <2>3, EntryIs, EntryNext DEF Ledger!Withdraw
  <2> QED BY <2>2, <2>4 DEF Ledger!LedgerNext
<1> QED BY <1>3, <1>4

\* What is read back settles the checkpoint.
LEMMA SettleLedger ==
    ASSUME TypeOK, IInv, file.status \in {"active", "uncertain"}, file.attempt # 0,
           file'.status \in {"active", "submitted"}, file'.attempt = file.attempt,
           pc' = "idle", doubt' = doubt \ {file.attempt}, UNCHANGED unseen
    PROVE  Ledger!LedgerNext
<1>1. DoubtOf' = DoubtOf \ {file.attempt}
  BY DEF DoubtOf
<1>2. Ledger!Settle
  BY <1>1, EntryIs, EntryNext DEF Ledger!Settle
<1> QED BY <1>2 DEF Ledger!LedgerNext

\* Commands that read back: what was sent, or what was left in doubt.
LEMMA ReadLedger ==
    ASSUME TypeOK, IInv, Commit \/ CommitSubmit \/ FoundSubmitted \/ Recover
    PROVE  Ledger!LedgerNext
<1>1. file \in Files /\ doubt' = doubt \ {file.attempt} /\ pc' = "idle" /\ UNCHANGED unseen
  BY FileFields DEF Commit, CommitSubmit, FoundSubmitted, Recover, EndWith, Settled
<1>2. file.status \in {"active", "uncertain"} /\ file.attempt # 0
  BY DEF Commit, CommitSubmit, FoundSubmitted, Recover, IInv, PlaceInv
<1>3. file'.status \in {"active", "submitted"} /\ file'.attempt = file.attempt
  <2>1. ASSUME NEW p, file' = Active(file, p)
        PROVE  file'.status = "active" /\ file'.attempt = file.attempt
    BY <1>1, <2>1 DEF Active, Files
  <2>2. ASSUME file' = Submitted(file)
        PROVE  file'.status = "submitted" /\ file'.attempt = file.attempt
    BY <1>1, <2>2 DEF Submitted, Files
  <2>3. (\E p : file' = Active(file, p)) \/ file' = Submitted(file)
    BY DEF Commit, CommitSubmit, FoundSubmitted, Recover, EndWith
  <2> QED BY <2>1, <2>2, <2>3
<1> QED BY <1>1, <1>2, <1>3, SettleLedger

\* abandon forgets the entry, and keeps the doubt.
LEMMA AbandonLedger ==
    ASSUME TypeOK, Abandon
    PROVE  Ledger!LedgerNext
<1>1. /\ pc' = "idle" /\ UNCHANGED <<unseen, doubt, DoubtOf>>
      /\ file'.status = "abandoned"
  BY FileFields DEF Abandon, EndWith, DoubtOf, Files
<1>2. Ledger!Forget
  BY <1>1, EntryNext DEF Ledger!Forget
<1> QED BY <1>2 DEF Ledger!LedgerNext

\* reconcile with a known attempt: what its start left in doubt, if anything, was named.
LEMMA ReconcileBoundLedger ==
    ASSUME TypeOK, IInv, ReconcileBound
    PROVE  Ledger!LedgerNext
<1>1. /\ file \in Files /\ Unresolved(file) /\ file.attempt # 0
      /\ pc = "idle" /\ pc' = "idle" /\ UNCHANGED <<unseen, doubt, DoubtOf>>
  BY FileFields DEF ReconcileBound, Reconciles, EndWith, DoubtOf
<1>2. file.attempt \in Attempts /\ unseen = {} /\ file.attempt \notin doubt
  BY <1>1, NamedAttempt DEF IInv, DoubtInv
<1>3. file'.status \in {"active", "submitted"} /\ file'.attempt = file.attempt
  <2>1. file' = Resolved(Submitted(file)) \/ file' = Resolved(Active(file, ServerPage(file.attempt)))
    BY DEF ReconcileBound, EndWith
  <2>2. ServerPage(file.attempt) \in PageNums
    BY <1>1, NamedAttempt DEF ServerPage
  <2>3. CASE file' = Resolved(Submitted(file))
    BY <1>1, <2>3, SubmittedFields, ResolvedFields
  <2>4. CASE file' = Resolved(Active(file, ServerPage(file.attempt)))
    BY <1>1, <2>2, <2>4, ActiveFields, ResolvedFields
  <2> QED BY <2>1, <2>3, <2>4
<1>4. CASE file.status = "uncertain"
  BY <1>1, <1>2, <1>3, <1>4, SettleLedger
<1>5. CASE file.status # "uncertain"
  <2>1. file.status = "abandoned"
    BY <1>1, <1>5 DEF Unresolved, IInv, FileInv, Tells
  <2>2. DoubtOf' = DoubtOf \ {0} /\ file.attempt \notin DoubtOf
    BY <1>1, <1>2, DoubtIs
  <2>3. Ledger!Reconcile
    BY <1>1, <1>2, <1>3, <2>1, <2>2, EntryIs, EntryNext DEF Ledger!Reconcile
  <2> QED BY <2>3 DEF Ledger!LedgerNext
<1> QED BY <1>4, <1>5

\* reconcile by the operator: a start is accounted for, with its attempt or without.
LEMMA ReconcileLedger ==
    ASSUME TypeOK, IInv, ReconcileNone \/ \E a \in Attempts : ReconcileBind(a)
    PROVE  Ledger!LedgerNext
<1>1. /\ file \in Files /\ Unresolved(file) /\ file.attempt = 0
      /\ pc' = "idle" /\ UNCHANGED doubt /\ unseen' = {}
  BY FileFields DEF ReconcileNone, ReconcileBind, Reconciles, EndWith
<1>2. DoubtOf' = DoubtOf \ {0}
  <2>1. 0 \notin doubt
    BY DoubtIs DEF TypeOK
  <2> QED BY <1>1, <2>1 DEF DoubtOf
<1>3. EntryOf = "blank" \/ (EntryOf = "pending" /\ AboutOf = 0)
  <2>1. file.status # "active"
    BY <1>1 DEF IInv, FileInv, Tells
  <2> QED BY <1>1, <2>1, EntryIs
<1>4. CASE ReconcileNone
  <2>1. file'.status = "abandoned"
    BY <1>1, <1>4 DEF ReconcileNone, EndWith, Resolved, Files
  <2>2. Ledger!Reconcile
    BY <1>1, <1>2, <1>3, <2>1, EntryNext DEF Ledger!Reconcile
  <2> QED BY <2>2 DEF Ledger!LedgerNext
<1>5. ASSUME NEW a \in Attempts, ReconcileBind(a)
      PROVE  Ledger!LedgerNext
  <2>1. /\ a \in Candidates(file)
        /\ file' = Resolved([Active(file, ServerPage(a)) EXCEPT !.attempt = a])
    BY <1>5 DEF ReconcileBind, EndWith
  <2>2. owner[a] = file.actor /\ a \notin file.baseline
    BY <2>1 DEF Candidates, Own
  <2>3. a \notin doubt
    BY <1>1, <2>2 DEF IInv, DoubtInv
  <2>4. file'.status = "active" /\ file'.attempt = a
    BY <1>1, <2>1 DEF Resolved, Active, Files
  <2>5. a \notin DoubtOf
    BY <2>3, DoubtIs
  <2>6. Ledger!Reconcile
    BY <1>1, <1>2, <1>3, <2>4, <2>5, EntryNext DEF Ledger!Reconcile
  <2> QED BY <2>6 DEF Ledger!LedgerNext
<1> QED BY <1>4, <1>5

\* Every step of the commands is one of the ledger, or none.
LEMMA LedgerStep ==
    ASSUME TypeOK, TypeOK', IInv, BeforeInv, [Next]_vars
    PROVE  [Ledger!LedgerNext]_(Ledger!ledgerVars)
<1>1. CASE Environment \/ UNCHANGED vars
  <2>1. UNCHANGED <<file, pc, unseen, doubt>>
    BY <1>1 DEF Environment, Deliver, BrowserStarts, BrowserWrites, vars, local
  <2> QED BY <2>1 DEF Ledger!ledgerVars, EntryOf, AboutOf, DoubtOf
<1>2. CASE Command
  <2>1. CASE pc' = "send"
    BY <1>2, <2>1, IntendLedger
  <2>2. CASE pc' # "send"
    <3>1. \/ FoundSubmitted \/ Recover \/ Abandon \/ ReconcileBound \/ ReconcileNone
          \/ \E a \in Attempts : ReconcileBind(a)
      BY <1>2, <2>2 DEF Command, Start, Intend
    <3> QED BY <3>1, ReadLedger, AbandonLedger, ReconcileBoundLedger, ReconcileLedger
  <2> QED BY <2>1, <2>2
<1>3. CASE PrepareStart \/ Prepare
  <2>1. UNCHANGED <<file, unseen, doubt>> /\ pc = "send" /\ pc' = "post"
    BY <1>3 DEF PrepareStart, Prepare
  <2> QED BY <2>1 DEF Ledger!ledgerVars, EntryOf, AboutOf, DoubtOf
<1>4. CASE StartCreates \/ Post \/ PostLost \/ (StartUnknown /\ unseen' # unseen)
  <2>1. unseen = {} \/ file.op # "start"
    BY <1>4 DEF StartCreates, Post, PostLost, StartUnknown, IInv, PlaceInv
  <2> QED BY <1>4, <2>1, SendLedger
          DEF StartCreates, Post, PostLost, StartUnknown, EndWith
<1>5. CASE ReadFails \/ Killed \/ (StartUnknown /\ unseen' = unseen)
  <2>1. UNCHANGED <<file, unseen, doubt>> /\ pc' = "idle"
    BY <1>5 DEF ReadFails, Killed, StartUnknown, EndWith
  <2> QED BY <2>1 DEF Ledger!LedgerNext, Ledger!Leave, EntryOf, AboutOf, DoubtOf
<1>6. CASE Seal \/ RefuseWrite \/ Commit \/ CommitSubmit
  BY <1>6, SealLedger, RefuseLedger, ReadLedger
<1> QED BY <1>1, <1>2, <1>3, <1>4, <1>5, <1>6 DEF Next, Request

\* The checkpoint of a preview is a WriteLedger: no start or write follows one in doubt,
\* whatever is lost, killed, abandoned or reconciled in between.
THEOREM ImplementsWriteLedger == Spec => ImplementsLedger
<1>1. Init => BeforeInv
  BY DEF Init, BeforeInv
<1>2. TypeOK /\ IInv /\ BeforeInv /\ [Next]_vars => BeforeInv'
  BY BeforeStep
<1>3. Spec => []BeforeInv
  BY <1>1, <1>2, Invariance, PTL DEF Spec
<1>4. Init => Ledger!LedgerInit
  <2> SUFFICES ASSUME Init PROVE Ledger!LedgerInit
    OBVIOUS
  <2>1. file.status \in {"absent", "abandoned"} /\ doubt = {} /\ pc = "idle"
    BY DEF Init, Blank
  <2> QED BY <2>1, EntryIs DEF Ledger!LedgerInit, DoubtOf
<1>5. TypeOK /\ TypeOK' /\ IInv /\ BeforeInv /\ [Next]_vars =>
        [Ledger!LedgerNext]_(Ledger!ledgerVars)
  BY LedgerStep
<1> QED BY <1>3, <1>4, <1>5, Invariance, PTL DEF Spec, ImplementsLedger, Ledger!LedgerSpec

-----------------------------------------------------------------------------
(* FormProtection, for any number of threads, any number of digits and any *)
(* clock.  Whoever has read the clock holds the lock, so its reading is    *)
(* not before the last code's tick; the code drawn is then later than      *)
(* every code of before, by its tick or by its counter.                    *)

\* A page starts without codes, and no thread is in its critical section.
LEMMA HitInitIsGood == HitInit => HitInv
BY ThreadAssumption, DigitAssumption
   DEF HitInit, HitInv, HitTypeOK, CriticalSection, LastIsLatest, Ticks, Counters

\* The code a thread draws in its critical section is well formed and later
\* than the last one, by its tick or, within a tick, by its counter.
LEMMA CodeIsLater ==
  ASSUME HitInv, NEW t \in Threads, tick[t] # -1
  PROVE  /\ CodeOf(t) \in [tick : Nat, counter : Counters]
         /\ \/ CodeOf(t).tick > lastTick
            \/ CodeOf(t).tick = lastTick /\ CodeOf(t).counter > counter
<1>1. tick[t] \in Nat /\ tick[t] >= lastTick /\ lastTick \in Ticks
  BY DEF HitInv, HitTypeOK, CriticalSection, Ticks
<1>2. NextCounter \in Counters /\ (NextCounter = 0 \/ NextCounter > counter)
  BY DigitAssumption DEF HitInv, HitTypeOK, Counters, NextCounter
<1> QED BY <1>1, <1>2 DEF CodeOf, Ticks

\* Every step keeps the invariant.
LEMMA HitNextKeepsIt == HitInv /\ [HitNext]_hitVars => HitInv'
<1> SUFFICES ASSUME HitInv, [HitNext]_hitVars PROVE HitInv'
  OBVIOUS
<1>1. ASSUME NEW t \in Threads, Enter(t) PROVE HitInv'
  <2>1. Larger(clock, lastTick) \in Nat /\ Larger(clock, lastTick) >= lastTick
    BY DEF HitInv, HitTypeOK, Ticks, Larger
  <2>2. HitTypeOK'
    BY <1>1, <2>1 DEF Enter, HitInv, HitTypeOK, Ticks
  <2>3. CriticalSection'
    BY <1>1, <2>1, ThreadAssumption DEF Enter, HitInv, HitTypeOK, CriticalSection
  <2>4. LastIsLatest'
    BY <1>1 DEF Enter, HitInv, LastIsLatest
  <2> QED BY <2>2, <2>3, <2>4 DEF HitInv
<1>2. ASSUME NEW t \in Threads, Issue(t) PROVE HitInv'
  <2>1. tick[t] # -1
    BY <1>2 DEF Issue
  <2>2. /\ CodeOf(t) \in [tick : Nat, counter : Counters]
        /\ \/ CodeOf(t).tick > lastTick
           \/ CodeOf(t).tick = lastTick /\ CodeOf(t).counter > counter
    BY <2>1, CodeIsLater
  <2>3. HitTypeOK'
    BY <1>2, <2>2 DEF Issue, HitInv, HitTypeOK, Ticks
  <2>4. CriticalSection'
    BY <1>2, <2>1 DEF Issue, HitInv, HitTypeOK, CriticalSection
  <2>5. LastIsLatest'
    <3>1. \A c \in issued : c.tick \in Nat /\ c.counter \in Counters
      BY DEF HitInv, HitTypeOK
    <3>2. lastTick \in Int /\ counter \in Int /\ CodeOf(t).tick \in Int
          /\ CodeOf(t).counter \in Int
      BY <2>2 DEF HitInv, HitTypeOK, Ticks, Counters
    <3>3. lastTick' = CodeOf(t).tick /\ counter' = CodeOf(t).counter
          /\ issued' = issued \union {CodeOf(t)}
      BY <1>2 DEF Issue
    <3> QED BY <2>2, <3>1, <3>2, <3>3 DEF HitInv, LastIsLatest, Counters
  <2> QED BY <2>3, <2>4, <2>5 DEF HitInv
<1>3. ASSUME ClockMoves PROVE HitInv'
  BY <1>3, ClockAssumption DEF ClockMoves, HitInv, HitTypeOK, CriticalSection, LastIsLatest
<1>4. CASE UNCHANGED hitVars
  BY <1>4 DEF hitVars, HitInv, HitTypeOK, CriticalSection, LastIsLatest
<1> QED BY <1>1, <1>2, <1>3, <1>4 DEF HitNext

\* The types of the variables hold in every reachable state, and the code drawn
\* last is after all of before.
THEOREM HitInvariance == HitSpec => [](HitTypeOK /\ LastIsLatest)
<1>1. HitInv => HitTypeOK /\ LastIsLatest
  BY DEF HitInv
<1> QED BY <1>1, HitInitIsGood, HitNextKeepsIt, PTL DEF HitSpec

\* No hit code is drawn twice for one page (request_protection.next_hit_code).
THEOREM CodesAreFresh == HitSpec => NeverIssuedTwice
<1>1. HitInv /\ [HitNext]_hitVars => [\A t \in Threads : Issue(t) => CodeOf(t) \notin issued]_hitVars
  <2> SUFFICES ASSUME HitInv, NEW t \in Threads, Issue(t) PROVE CodeOf(t) \notin issued
    OBVIOUS
  <2>1. /\ CodeOf(t) \in [tick : Nat, counter : Counters]
        /\ \/ CodeOf(t).tick > lastTick
           \/ CodeOf(t).tick = lastTick /\ CodeOf(t).counter > counter
    BY CodeIsLater DEF Issue
  <2>2. lastTick \in Int /\ counter \in Int /\ CodeOf(t).tick \in Int
        /\ CodeOf(t).counter \in Int
    BY <2>1 DEF HitInv, HitTypeOK, Ticks, Counters
  <2> QED BY <2>1, <2>2 DEF HitInv, LastIsLatest
<1> QED BY <1>1, HitInitIsGood, HitNextKeepsIt, PTL DEF HitSpec, NeverIssuedTwice
=============================================================================
